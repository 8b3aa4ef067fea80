--------------------------------- MODULE Aes ---------------------------------
(***************************************************************************)
(* The block cipher (crypto/aes.c), built as AES-128.  A state is the 16   *)
(* bytes of the block in their order in memory, four of a column behind    *)
(* each other: what the code calls state[i][j] is state[4 * i + j + 1].    *)
(***************************************************************************)
EXTENDS Octets

Nb == 4
Nk == 4
Nr == 10

sbox == <<
    \h63, \h7c, \h77, \h7b, \hf2, \h6b, \h6f, \hc5, \h30, \h01, \h67, \h2b, \hfe, \hd7, \hab, \h76,
    \hca, \h82, \hc9, \h7d, \hfa, \h59, \h47, \hf0, \had, \hd4, \ha2, \haf, \h9c, \ha4, \h72, \hc0,
    \hb7, \hfd, \h93, \h26, \h36, \h3f, \hf7, \hcc, \h34, \ha5, \he5, \hf1, \h71, \hd8, \h31, \h15,
    \h04, \hc7, \h23, \hc3, \h18, \h96, \h05, \h9a, \h07, \h12, \h80, \he2, \heb, \h27, \hb2, \h75,
    \h09, \h83, \h2c, \h1a, \h1b, \h6e, \h5a, \ha0, \h52, \h3b, \hd6, \hb3, \h29, \he3, \h2f, \h84,
    \h53, \hd1, \h00, \hed, \h20, \hfc, \hb1, \h5b, \h6a, \hcb, \hbe, \h39, \h4a, \h4c, \h58, \hcf,
    \hd0, \hef, \haa, \hfb, \h43, \h4d, \h33, \h85, \h45, \hf9, \h02, \h7f, \h50, \h3c, \h9f, \ha8,
    \h51, \ha3, \h40, \h8f, \h92, \h9d, \h38, \hf5, \hbc, \hb6, \hda, \h21, \h10, \hff, \hf3, \hd2,
    \hcd, \h0c, \h13, \hec, \h5f, \h97, \h44, \h17, \hc4, \ha7, \h7e, \h3d, \h64, \h5d, \h19, \h73,
    \h60, \h81, \h4f, \hdc, \h22, \h2a, \h90, \h88, \h46, \hee, \hb8, \h14, \hde, \h5e, \h0b, \hdb,
    \he0, \h32, \h3a, \h0a, \h49, \h06, \h24, \h5c, \hc2, \hd3, \hac, \h62, \h91, \h95, \he4, \h79,
    \he7, \hc8, \h37, \h6d, \h8d, \hd5, \h4e, \ha9, \h6c, \h56, \hf4, \hea, \h65, \h7a, \hae, \h08,
    \hba, \h78, \h25, \h2e, \h1c, \ha6, \hb4, \hc6, \he8, \hdd, \h74, \h1f, \h4b, \hbd, \h8b, \h8a,
    \h70, \h3e, \hb5, \h66, \h48, \h03, \hf6, \h0e, \h61, \h35, \h57, \hb9, \h86, \hc1, \h1d, \h9e,
    \he1, \hf8, \h98, \h11, \h69, \hd9, \h8e, \h94, \h9b, \h1e, \h87, \he9, \hce, \h55, \h28, \hdf,
    \h8c, \ha1, \h89, \h0d, \hbf, \he6, \h42, \h68, \h41, \h99, \h2d, \h0f, \hb0, \h54, \hbb, \h16>>

rsbox == <<
    \h52, \h09, \h6a, \hd5, \h30, \h36, \ha5, \h38, \hbf, \h40, \ha3, \h9e, \h81, \hf3, \hd7, \hfb,
    \h7c, \he3, \h39, \h82, \h9b, \h2f, \hff, \h87, \h34, \h8e, \h43, \h44, \hc4, \hde, \he9, \hcb,
    \h54, \h7b, \h94, \h32, \ha6, \hc2, \h23, \h3d, \hee, \h4c, \h95, \h0b, \h42, \hfa, \hc3, \h4e,
    \h08, \h2e, \ha1, \h66, \h28, \hd9, \h24, \hb2, \h76, \h5b, \ha2, \h49, \h6d, \h8b, \hd1, \h25,
    \h72, \hf8, \hf6, \h64, \h86, \h68, \h98, \h16, \hd4, \ha4, \h5c, \hcc, \h5d, \h65, \hb6, \h92,
    \h6c, \h70, \h48, \h50, \hfd, \hed, \hb9, \hda, \h5e, \h15, \h46, \h57, \ha7, \h8d, \h9d, \h84,
    \h90, \hd8, \hab, \h00, \h8c, \hbc, \hd3, \h0a, \hf7, \he4, \h58, \h05, \hb8, \hb3, \h45, \h06,
    \hd0, \h2c, \h1e, \h8f, \hca, \h3f, \h0f, \h02, \hc1, \haf, \hbd, \h03, \h01, \h13, \h8a, \h6b,
    \h3a, \h91, \h11, \h41, \h4f, \h67, \hdc, \hea, \h97, \hf2, \hcf, \hce, \hf0, \hb4, \he6, \h73,
    \h96, \hac, \h74, \h22, \he7, \had, \h35, \h85, \he2, \hf9, \h37, \he8, \h1c, \h75, \hdf, \h6e,
    \h47, \hf1, \h1a, \h71, \h1d, \h29, \hc5, \h89, \h6f, \hb7, \h62, \h0e, \haa, \h18, \hbe, \h1b,
    \hfc, \h56, \h3e, \h4b, \hc6, \hd2, \h79, \h20, \h9a, \hdb, \hc0, \hfe, \h78, \hcd, \h5a, \hf4,
    \h1f, \hdd, \ha8, \h33, \h88, \h07, \hc7, \h31, \hb1, \h12, \h10, \h59, \h27, \h80, \hec, \h5f,
    \h60, \h51, \h7f, \ha9, \h19, \hb5, \h4a, \h0d, \h2d, \he5, \h7a, \h9f, \h93, \hc9, \h9c, \hef,
    \ha0, \he0, \h3b, \h4d, \hae, \h2a, \hf5, \hb0, \hc8, \heb, \hbb, \h3c, \h83, \h53, \h99, \h61,
    \h17, \h2b, \h04, \h7e, \hba, \h77, \hd6, \h26, \he1, \h69, \h14, \h63, \h55, \h21, \h0c, \h7d>>

Rcon == <<1, 2, 4, 8, \h10, \h20, \h40, \h80, \h1b, \h36>>

getSBoxValue(num)  == sbox[num + 1]
getSBoxInvert(num) == rsbox[num + 1]

Substituted(bytes) == [i \in 1 .. Len(bytes) |-> getSBoxValue(bytes[i])]

(***************************************************************************)
(* KeyExpansion: the round keys one behind another, Nb words each.         *)
(***************************************************************************)
KeyExpansion(key) ==
    LET RotWord(w) == Tail(w) \o <<Head(w)>>
        expand[keys \in Seq(Octet)] ==
            LET i     == Len(keys) \div 4
                word  == WordAt(keys, 4 * (i - 1))
                tempa == IF i % Nk = 0
                         THEN Substituted(RotWord(word)) (+) (<<Rcon[i \div Nk]>> \o Zeroes(3))
                         ELSE word
            IN  IF i = Nb * (Nr + 1) THEN keys
                ELSE expand[keys \o (WordAt(keys, 4 * (i - Nk)) (+) tempa)]
    IN  expand[key]

AddRoundKey(round, state, RoundKey) ==
    state (+) SubSeq(RoundKey, 16 * round + 1, 16 * round + 16)

SubBytes(state)    == Substituted(state)
InvSubBytes(state) == [i \in 1 .. 16 |-> getSBoxInvert(state[i])]

(***************************************************************************)
(* Row j of the state is rotated by j columns, to the left and back.       *)
(***************************************************************************)
RowsRotated(state, columns) ==
    [i \in 1 .. 16 |->
        LET column == (i - 1) \div 4
            row    == (i - 1) % 4
        IN  state[4 * ((column + columns[row]) % 4) + row + 1]]

ShiftRows(state)    == RowsRotated(state, [row \in 0 .. 3 |-> row])
InvShiftRows(state) == RowsRotated(state, [row \in 0 .. 3 |-> 4 - row])

xtime(x) == XorOctets[(2 * x) % 256][IF x >= 128 THEN \h1b ELSE 0]

(***************************************************************************)
(* Multiplication in GF(2^8), of a factor that has four bits.              *)
(***************************************************************************)
Multiply(x, y) ==
    LET bit(i, p) == IF (y \div 2 ^ i) % 2 = 1 THEN p ELSE 0
        x2 == xtime(x)
        x4 == xtime(x2)
    IN  XorOctets[XorOctets[bit(0, x)][bit(1, x2)]][XorOctets[bit(2, x4)][bit(3, xtime(x4))]]

ColumnOf(state, i) == WordAt(state, 4 * ((i - 1) \div 4))

SumOfFour(p) == XorOctets[XorOctets[p[1]][p[2]]][XorOctets[p[3]][p[4]]]

MixColumns(state) ==
    [i \in 1 .. 16 |->
        LET Tmp == SumOfFour(ColumnOf(state, i))
            Tm  == xtime(XorOctets[state[i]][ColumnOf(state, i)[(i % 4) + 1]])
        IN  XorOctets[state[i]][XorOctets[Tm][Tmp]]]

(***************************************************************************)
(* A column is multiplied by a matrix whose rows are one row, rotated.     *)
(***************************************************************************)
ColumnsMixed(state, factors) ==
    [i \in 1 .. 16 |->
        SumOfFour([j \in 1 .. 4 |->
            Multiply(ColumnOf(state, i)[j], factors[((j - i) % 4) + 1])])]

InvMixColumnsTransposed(state) ==         \* mutant: rows taken for columns
    ColumnsMixed(state, <<\h0e, \h09, \h0d, \h0b>>)

InvMixColumns(state) == ColumnsMixed(state, <<\h0e, \h0b, \h0d, \h09>>)

-----------------------------------------------------------------------------

(***************************************************************************)
(* One turn of the loop of Cipher, and of InvCipher.                       *)
(***************************************************************************)
CipherRound(state, round, RoundKey) ==
    LET shifted == ShiftRows(SubBytes(state))
    IN  AddRoundKey(round, IF round = Nr THEN shifted ELSE MixColumns(shifted), RoundKey)

InvCipherRound(state, round, RoundKey) ==
    LET added == AddRoundKey(round, InvSubBytes(InvShiftRows(state)), RoundKey)
    IN  IF round = 0 THEN added ELSE InvMixColumns(added)

Blocks == Seq(Octet)

Cipher(block, RoundKey) ==
    LET rounds[round \in 1 .. Nr + 1, state \in Blocks] ==
            IF round = Nr + 1 THEN state
            ELSE rounds[round + 1, CipherRound(state, round, RoundKey)]
    IN  rounds[1, AddRoundKey(0, block, RoundKey)]

InvCipher(block, RoundKey) ==
    LET rounds[round \in -1 .. Nr - 1, state \in Blocks] ==
            IF round = -1 THEN state
            ELSE rounds[round - 1, InvCipherRound(state, round, RoundKey)]
    IN  rounds[Nr - 1, AddRoundKey(Nr, block, RoundKey)]
=============================================================================
