--------------------------- MODULE CompiledPackets ---------------------------
(***************************************************************************)
(* The decoding program with the hash and the cipher it is built with, on  *)
(* the packets and with the channel key compiled into it                   *)
(* (meshcore-test/main.c), and on the group text with a bit changed.       *)
(***************************************************************************)
EXTENDS Decoder, HmacSha256, Aes

key ==
    <<\h8b, \h33, \h87, \he9, \hc5, \hcd, \hea, \h6a, \hc9, \he5, \hed, \hba, \ha1, \h15, \hcd, \h72>>

RoundKey == KeyExpansion(key)

ChannelMac(ciphertext) == HmacSha256(key, ciphertext, CIPHER_MAC_SIZE)

ChannelDecrypt(block) == InvCipher(block, RoundKey)

packet_bin == <<
    \h11, \h00, \h7e, \h76, \h62, \h67, \h6f, \h7f, \h08, \h50, \ha8, \ha3, \h55, \hba, \haf, \hbf,
    \hc1, \heb, \h7b, \h41, \h74, \hc3, \h40, \h44, \h2d, \h7d, \h71, \h61, \hc9, \h47, \h4a, \h2c,
    \h94, \h00, \h6c, \he7, \hcf, \h68, \h2e, \h58, \h40, \h8d, \hd8, \hfc, \hc5, \h19, \h06, \hec,
    \ha9, \h8e, \hbf, \h94, \ha0, \h37, \h88, \h6b, \hda, \hde, \h7e, \hcd, \h09, \hfd, \h92, \hb8,
    \h39, \h49, \h1d, \hf3, \h80, \h9c, \h94, \h54, \hf5, \h28, \h6d, \h1d, \h33, \h70, \hac, \h31,
    \ha3, \h45, \h93, \hd5, \h69, \he9, \ha0, \h42, \ha3, \hb4, \h1f, \hd3, \h31, \hdf, \hfb, \h7e,
    \h18, \h59, \h9c, \he1, \he6, \h09, \h92, \ha0, \h76, \hd5, \h02, \h38, \hc5, \hb8, \hf8, \h57,
    \h57, \h37, \h53, \h54, \h52, \h2f, \h50, \h75, \h67, \h65, \h74, \h4d, \h65, \h73, \h68, \h20,
    \h43, \h6f, \h75, \h67, \h61, \h72>>

test_message_rx_bin == <<
    \h15, \h00, \h11, \h61, \h72, \hfb, \h24, \h6c, \h57, \h9e, \h01, \h0a, \h18, \h18, \h6f, \hfb,
    \h79, \h3a, \h18, \h81, \hec, \h7c, \h2d, \h64, \hda, \h78, \hbb, \haf, \h0c, \h05, \h71, \hae,
    \h29, \ha1, \h2d, \hf5, \hc4>>

advert_bin == <<
    \h12, \h00, \h2b, \hdc, \h0e, \h54, \h51, \hb7, \hdb, \h3b, \h2a, \hc2, \hc7, \h8c, \h8f, \hdd,
    \haa, \h76, \h38, \hb6, \h4a, \hbf, \h56, \he5, \hcd, \hff, \hdf, \hd8, \haf, \h09, \h62, \h47,
    \he8, \h4b, \h50, \hd7, \h0b, \h69, \he9, \haf, \h04, \hf9, \h68, \h15, \heb, \h37, \hc5, \h6a,
    \h45, \hb9, \h81, \h7e, \h15, \h43, \h07, \h50, \h5d, \h8e, \h01, \h22, \h47, \h7e, \hd8, \h59,
    \h80, \h0c, \h9c, \h19, \h2b, \h53, \h20, \h60, \h8d, \hf4, \h86, \h40, \h6e, \h27, \h2f, \h2b,
    \h7b, \h87, \hda, \h29, \h9b, \h79, \haf, \h83, \hed, \h46, \h5c, \h8e, \h19, \h03, \h10, \h50,
    \hff, \h97, \hf3, \h24, \h61, \h00, \h81, \h52, \h65, \h6e, \h7a, \h65>>

InputOf(packet) ==
    [data |-> [i \in 0 .. MAX_TRANS_UNIT - 1 |-> IF i < Len(packet) THEN packet[i + 1] ELSE 0],
     size |-> Len(packet)]

Compiled == {packet_bin, test_message_rx_bin, advert_bin}

(***************************************************************************)
(* The group text with a bit of byte i (from 0) changed.                   *)
(***************************************************************************)
Changed(i) == [test_message_rx_bin EXCEPT ![i + 1] = (@ + 128) % 256]

(***************************************************************************)
(* A group text as a sender with the channel key makes it.                 *)
(***************************************************************************)
Sealed(ciphertext) == <<\h15, \h00, \h11>> \o ChannelMac(ciphertext) \o ciphertext

ThreeBlocks == Sealed([i \in 1 .. 48 |-> (i * i + 37 * i) % 256])

CompiledInputs ==
    {InputOf(packet) : packet \in Compiled \cup {ThreeBlocks}}
       \cup {InputOf(Changed(i)) : i \in 0 .. 36}

-----------------------------------------------------------------------------

(***************************************************************************)
(* A text: printable characters, and behind them zeros to the end.         *)
(***************************************************************************)
IsText(bytes) ==
    \E n \in 1 .. Len(bytes) : \A i \in 1 .. Len(bytes) :
        IF i <= n THEN bytes[i] \in 32 .. 126 ELSE bytes[i] = 0

(***************************************************************************)
(* Every packet compiled into the program is decoded and encoded to itself *)
(* and the group text among them is authentic under the channel key and    *)
(* decrypts to a text: the hash, the cipher and the codecs agree with the  *)
(* device that sent it, over every step of each.                           *)
(***************************************************************************)
CompiledPacketsReadable ==
    pc = "exit" =>
        /\ input \in {InputOf(packet) : packet \in Compiled} => result = 0
        /\ input = InputOf(test_message_rx_bin) =>
              /\ decrypted # Nothing
              /\ IsText(Slice(decrypted, TextAt, grp_txt.data_length - TextAt))

(***************************************************************************)
(* A group text of which one bit of the MAC (bytes 3 and 4 of the packet)  *)
(* or of the ciphertext (behind it) is not what was sent is not decrypted. *)
(***************************************************************************)
ChangedNotDecrypted ==
    decrypted # Nothing =>
        \A i \in 3 .. 36 : input # InputOf(Changed(i))

(***************************************************************************)
(* Encrypting what was decrypted gives the ciphertext that was received:   *)
(* each step of InvCipher undoes one of Cipher's, in the opposite order    *)
(* and with the same round key, and their tables are inverse.              *)
(***************************************************************************)
EncryptedAgain ==
    (decrypted # Nothing /\ input \in CompiledInputs) =>
        \A k \in 0 .. (grp_txt.data_length \div CipherBlock) - 1 :
           Cipher(Slice(decrypted, CipherBlock * k, CipherBlock), RoundKey)
              = Slice(grp_txt.data, CipherBlock * k, CipherBlock)
=============================================================================
