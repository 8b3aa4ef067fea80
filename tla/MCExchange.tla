----------------------------- MODULE MCExchange -----------------------------
(***************************************************************************)
(* Exchange with the sizes of the program: two packets in a row through    *)
(* the same buffer, with every kind of payload, short and long paths, and  *)
(* losses that reach back into each part of a packet.                      *)
(***************************************************************************)
EXTENDS Exchange

Content(type, route, path_length, body) ==
    [type |-> type, route |-> route, version |-> 1,
     transport_codes |-> [i \in 0 .. 3 |-> 0],
     path |-> [i \in 1 .. path_length |-> 100 + i],
     body |-> body]

Counting(first, n) == [i \in 1 .. n |-> first + i]

Request(length) ==
    [destination_hash |-> 1, source_hash |-> 2, ciphher_mac |-> <<3, 4>>,
     ciphertext_length |-> length,
     ciphertext |-> [i \in 0 .. CiphertextSize - 1 |-> IF i < length THEN 5 + i ELSE 0]]

GrpTxtOf(length) ==
    [channel_hash |-> 1, mac |-> <<2, 3>>, data_length |-> length,
     data |-> [i \in 0 .. GrpTxtDataSize - 1 |-> IF i < length THEN 60 + i ELSE 0]]

Advert(role, position, extra1, extra2, name_valid, name) ==
    [identity |-> Counting(7, IdentitySize), role |-> role, position |-> position,
     extra1 |-> extra1, extra2 |-> extra2, name_valid |-> name_valid, name |-> name]

Mixed ==
    {Content(REQ, 1, 0, Request(40)),
     Content(REQ, 0, 3, Request(CiphertextSize)),
     Content(REQ, 2, 0, Request(CiphertextSize + 1)),
     Content(ACK, 2, 64, [crc |-> <<11, 12, 13, 14>>]),
     Content(ADVERT, 1, 1, Advert(1, Counting(20, 8), <<31, 32>>, <<33, 34>>,
                                  TRUE, Counting(64, 6))),
     Content(ADVERT, 3, 0, Advert(2, <<>>, <<>>, <<35, 36>>, FALSE, <<>>)),
     Content(GRP_TXT, 1, 5, GrpTxtOf(17)),
     Content(GRP_TXT, 0, 0, GrpTxtOf(GrpTxtDataSize)),
     Content(15, 2, 2, Counting(40, 30))}

LostBytes == {0, 1, 2, 4, 5, 7, 10, 18, 21, 60, 110}
=============================================================================
