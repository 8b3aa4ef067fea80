--------------------------- MODULE ExchangeProofs ---------------------------
(***************************************************************************)
(* Theorems about encoding, losing the end, and decoding, for every size,  *)
(* every content that fits the payload structures and every loss.          *)
(***************************************************************************)
EXTENDS Exchange, PayloadProofs

(***************************************************************************)
(* The sizes, as numbers.                                                  *)
(***************************************************************************)
LEMMA Sizes ==
    /\ MAX_PATH_SIZE \in Nat /\ MAX_PAYLOAD_SIZE \in Nat /\ MAX_TRANS_UNIT \in Nat
    /\ MAX_PAYLOAD_SIZE > 4 /\ MAX_PAYLOAD_SIZE < 256
    /\ 4 + MAX_PATH_SIZE + MAX_PAYLOAD_SIZE <= MAX_TRANS_UNIT /\ MAX_TRANS_UNIT < 256
    /\ CIPHER_MAC_SIZE \in Nat /\ IdentitySize \in Nat /\ MAX_NAME_SIZE \in Nat
    /\ 2 + CIPHER_MAC_SIZE <= MAX_PAYLOAD_SIZE /\ IdentitySize < MAX_PAYLOAD_SIZE
    /\ IdentitySize + 13 + MAX_NAME_SIZE <= MAX_PAYLOAD_SIZE
    /\ CiphertextSize = MAX_PAYLOAD_SIZE - CiphertextAt
    /\ CiphertextAt = 2 + CIPHER_MAC_SIZE /\ CiphertextSize \in Nat
    /\ GrpTxtDataSize = MAX_PAYLOAD_SIZE - GrpTxtDataAt
    /\ GrpTxtDataAt = 1 + CIPHER_MAC_SIZE /\ GrpTxtDataSize \in Nat
  BY SizeAssumption, PayloadSizeAssumption, ContentAssumption
     DEF ByteSize, IdentitySize, CiphertextSize, CiphertextAt, GrpTxtDataSize, GrpTxtDataAt

(***************************************************************************)
(* A byte is a byte.                                                       *)
(***************************************************************************)
LEMMA Bytes == Byte = 0 .. 255 /\ 0 \in Byte /\ Byte \subseteq Nat
  BY DEF Byte, ByteSize

-----------------------------------------------------------------------------

(***************************************************************************)
(* An array of n bytes is a sequence of n bytes.                           *)
(***************************************************************************)
LEMMA ArrayIsSeq ==
    ASSUME NEW n \in Nat, NEW f \in [1 .. n -> Byte]
    PROVE  f \in Seq(Byte) /\ Len(f) = n /\ DOMAIN f = 1 .. n
  OBVIOUS

(***************************************************************************)
(* The first k bytes of a run of bytes, and the array they fill.           *)
(***************************************************************************)
LEMMA CutFacts ==
    ASSUME NEW bytes \in Seq(Byte), Len(bytes) <= MAX_PAYLOAD_SIZE,
           NEW k \in 0 .. Len(bytes)
    PROVE  /\ SubSeq(bytes, 1, k) \in Seq(Byte) /\ Len(SubSeq(bytes, 1, k)) = k
           /\ k \in 0 .. MAX_PAYLOAD_SIZE
           /\ \A i \in 1 .. k : SubSeq(bytes, 1, k)[i] = bytes[i]
           /\ PayloadWith(SubSeq(bytes, 1, k)) \in Payloads
           /\ \A i \in 0 .. k - 1 : PayloadWith(SubSeq(bytes, 1, k))[i] = bytes[i + 1]
           /\ \A i \in k .. MAX_PAYLOAD_SIZE - 1 : PayloadWith(SubSeq(bytes, 1, k))[i] = 0
           /\ k = Len(bytes) => SubSeq(bytes, 1, k) = bytes
  <1> DEFINE cut == SubSeq(bytes, 1, k)
  <1>1. Len(bytes) \in Nat /\ k \in Nat /\ k <= Len(bytes) /\ MAX_PAYLOAD_SIZE \in Nat
    BY Sizes
  <1>2. \A i \in 1 .. k : bytes[i] \in Byte
    <2>1. \A i \in 1 .. k : i \in 1 .. Len(bytes)
      BY <1>1
    <2> QED
      BY <2>1, ElementOfSeq
  <1>3. /\ cut \in Seq(Byte)
        /\ Len(cut) = IF 1 <= k THEN k - 1 + 1 ELSE 0
        /\ \A i \in 1 .. k - 1 + 1 : cut[i] = bytes[1 + i - 1]
    BY <1>1, <1>2, SubSeqProperties
  <1>9. k = Len(bytes) => cut = bytes
    BY SubSeqFull
  <1> HIDE DEF cut
  <1>4. cut \in Seq(Byte) /\ Len(cut) = k /\ \A i \in 1 .. k : cut[i] = bytes[i]
    BY <1>1, <1>3
  <1>5. Len(cut) <= MAX_PAYLOAD_SIZE
    BY <1>1, <1>4
  <1>6. /\ PayloadWith(cut) \in Payloads
        /\ \A i \in 0 .. k - 1 : PayloadWith(cut)[i] = cut[i + 1]
        /\ \A i \in k .. MAX_PAYLOAD_SIZE - 1 : PayloadWith(cut)[i] = 0
    BY <1>4, <1>5, PayloadWithFacts
  <1>7. \A i \in 0 .. k - 1 : PayloadWith(cut)[i] = bytes[i + 1]
    <2>1. \A i \in 0 .. k - 1 : i + 1 \in 1 .. k
      BY <1>1
    <2> QED
      BY <1>4, <1>6, <2>1
  <1> QED
    BY <1>1, <1>4, <1>6, <1>7, <1>9 DEF cut

(***************************************************************************)
(* Bytes with the start of an array behind the first h: the array copied   *)
(* back from a part of them is cut off there.                              *)
(***************************************************************************)
ArrayKept(bytes, h, array, n, size) ==
    \A k \in h .. Len(bytes) :
       \A got : got = Copied(PayloadWith(SubSeq(bytes, 1, k)), h, k - h, size) =>
          /\ k = Len(bytes) => got = array
          /\ IsPrefixOf(Slice(got, 0, k - h), Slice(array, 0, n))

(***************************************************************************)
(* Some bytes and the start of a cleared array behind them.                *)
(***************************************************************************)
HeadAndArray(bytes, head, array, n, size) ==
    /\ head \in Seq(Byte) /\ size \in Nat /\ Len(head) + size <= MAX_PAYLOAD_SIZE
    /\ array \in [0 .. size - 1 -> Byte] /\ n \in 0 .. size
    /\ ClearedFrom(array, n)
    /\ bytes = head \o Slice(array, 0, n)

(***************************************************************************)
(* What is cut off from there is missing in the array, and nothing else.   *)
(***************************************************************************)
LEMMA ArrayCut ==
    ASSUME NEW bytes, NEW head, NEW array, NEW n, NEW size,
           HeadAndArray(bytes, head, array, n, size)
    PROVE  /\ bytes \in Seq(Byte) /\ Len(bytes) = Len(head) + n
           /\ \A i \in 1 .. Len(head) : bytes[i] = head[i]
           /\ ArrayKept(bytes, Len(head), array, n, size)
  <1>0. /\ head \in Seq(Byte) /\ size \in Nat /\ Len(head) + size <= MAX_PAYLOAD_SIZE
        /\ array \in [0 .. size - 1 -> Byte] /\ n \in 0 .. size
        /\ ClearedFrom(array, n)
        /\ bytes = head \o Slice(array, 0, n)
    BY DEF HeadAndArray
  <1> USE <1>0
  <1>1. Len(head) \in Nat /\ n \in Nat /\ n <= size /\ MAX_PAYLOAD_SIZE \in Nat
    BY Sizes
  <1>2. \A i \in 0 .. n - 1 : array[0 + i] \in Byte
    BY <1>1
  <1>3. /\ Slice(array, 0, n) \in Seq(Byte) /\ Len(Slice(array, 0, n)) = n
        /\ \A i \in 1 .. n : Slice(array, 0, n)[i] = array[0 + i - 1]
    <2>1. 0 \in Int
      OBVIOUS
    <2> QED
      BY ONLY <1>1, <1>2, <2>1, SliceFacts
  <1> DEFINE tail == Slice(array, 0, n)
  <1> HIDE DEF tail
  <1>4. /\ bytes \in Seq(Byte) /\ Len(bytes) = Len(head) + n
        /\ \A i \in 1 .. Len(head) + n :
              bytes[i] = IF i <= Len(head) THEN head[i] ELSE tail[i - Len(head)]
    <2>1. bytes = head \o tail
      BY DEF tail
    <2>2. tail \in Seq(Byte) /\ Len(tail) = n
      BY <1>3 DEF tail
    <2> QED
      BY ONLY <2>1, <2>2, head \in Seq(Byte), ConcatProperties
  <1>5. /\ \A i \in 1 .. Len(head) : bytes[i] = head[i]
        /\ \A i \in 0 .. n - 1 : bytes[Len(head) + i + 1] = array[i]
    <2>1. ASSUME NEW i \in 1 .. Len(head) PROVE bytes[i] = head[i]
      BY <1>1, <1>4
    <2>2. ASSUME NEW i \in 0 .. n - 1 PROVE bytes[Len(head) + i + 1] = array[i]
      <3>1. /\ Len(head) + i + 1 \in 1 .. Len(head) + n
            /\ ~(Len(head) + i + 1 <= Len(head))
            /\ Len(head) + i + 1 - Len(head) = i + 1 /\ i + 1 \in 1 .. n
            /\ 0 + (i + 1) - 1 = i
        BY <1>1
      <3>2. tail[i + 1] = array[i]
        BY <1>3, <3>1 DEF tail
      <3> QED
        BY <1>4, <3>1, <3>2
    <2> QED
      BY <2>1, <2>2
  <1>6. ASSUME NEW k \in Len(head) .. Len(bytes), NEW got,
               got = Copied(PayloadWith(SubSeq(bytes, 1, k)), Len(head), k - Len(head), size)
        PROVE  /\ k = Len(bytes) => got = array
               /\ IsPrefixOf(Slice(got, 0, k - Len(head)), Slice(array, 0, n))
    <2> DEFINE payload == PayloadWith(SubSeq(bytes, 1, k))
    <2>1. k \in 0 .. Len(bytes) /\ Len(bytes) <= MAX_PAYLOAD_SIZE
      BY <1>1, <1>4
    <2>2. \A i \in 0 .. k - 1 : payload[i] = bytes[i + 1]
      BY <1>4, <2>1, CutFacts
    <2> HIDE DEF payload
    <2>8. Len(head) \in Nat /\ k - Len(head) \in 0 .. n
      <3> PICK h \in Nat : h = Len(head)
        BY <1>1
      <3>1. k \in h .. h + n
        BY <1>4
      <3>2. k - h \in 0 .. n
        BY ONLY <3>1, <1>1, h \in Nat
      <3> QED
        BY <1>1, <3>2
    <2> PICK h \in Nat, m \in 0 .. n : h = Len(head) /\ m = k - Len(head)
      BY ONLY <2>8
    <2>7. m \in Nat /\ m <= n /\ n <= size /\ k = h + m
      BY <1>1
    <2>3. got = [i \in 0 .. size - 1 |-> IF i < m THEN payload[h + i] ELSE 0]
      BY <1>6 DEF Copied, payload
    <2>4. ASSUME NEW i \in 0 .. m - 1
          PROVE  i \in 0 .. size - 1 /\ got[i] = array[i]
      <3>1. i \in 0 .. size - 1 /\ i \in 0 .. n - 1 /\ i < m
        BY ONLY <1>1, <2>7, i \in 0 .. m - 1, size \in Nat
      <3>2. h + i \in 0 .. k - 1 /\ h + i + 1 = Len(head) + i + 1
        BY <1>1, <2>7
      <3>3. payload[h + i] = array[i]
        BY <1>5, <2>2, <3>1, <3>2
      <3> QED
        BY <2>3, <3>1, <3>3
    <2>5. k = Len(bytes) => got = array
      <3> SUFFICES ASSUME k = Len(bytes) PROVE got = array
        OBVIOUS
      <3>1. m = n
        BY <1>1, <1>4
      <3>2. ASSUME NEW i \in 0 .. size - 1 PROVE got[i] = array[i]
        <4>1. CASE i < m
          <5>1. i \in 0 .. m - 1
            BY <4>1
          <5> QED
            BY <2>4, <5>1
        <4>2. CASE ~(i < m)
          <5>1. i >= n
            BY <1>1, <3>1, <4>2
          <5>2. array[i] = 0
            BY <5>1 DEF ClearedFrom
          <5> QED
            BY <2>3, <4>2, <5>2
        <4> QED
          BY <4>1, <4>2
      <3> QED
        BY <2>3, <3>2
    <2>6. IsPrefixOf(Slice(got, 0, m), tail)
      <3>1. \A i \in 0 .. m - 1 : got[0 + i] \in Byte
        <4>1. \A i \in 0 .. m - 1 : 0 + i = i /\ i \in 0 .. size - 1 /\ got[i] = array[i]
          BY <2>4
        <4> QED
          BY <4>1
      <3>2. /\ Slice(got, 0, m) \in Seq(Byte) /\ Len(Slice(got, 0, m)) = m
            /\ \A i \in 1 .. m : Slice(got, 0, m)[i] = got[0 + i - 1]
        <4>1. 0 \in Int /\ m \in Nat
          BY <1>1
        <4> QED
          BY ONLY <4>1, <3>1, SliceFacts
      <3>3. m <= Len(tail) /\ tail \in Seq(Byte) /\ m \in Nat
        BY <1>1, <1>3 DEF tail
      <3>4. \A i \in 1 .. m : tail[i] \in Byte
        <4>1. \A i \in 1 .. m : i \in 1 .. Len(tail)
          BY <3>3
        <4> QED
          BY <3>3, <4>1, ElementOfSeq
      <3>5. /\ SubSeq(tail, 1, m) \in Seq(Byte)
            /\ Len(SubSeq(tail, 1, m)) = IF 1 <= m THEN m - 1 + 1 ELSE 0
            /\ \A i \in 1 .. m - 1 + 1 : SubSeq(tail, 1, m)[i] = tail[1 + i - 1]
        BY <3>3, <3>4, SubSeqProperties
      <3>6. /\ Len(SubSeq(tail, 1, m)) = m
            /\ \A i \in 1 .. m : SubSeq(tail, 1, m)[i] = tail[i]
        BY <3>3, <3>5
      <3>7. ASSUME NEW i \in 1 .. m PROVE Slice(got, 0, m)[i] = tail[i]
        <4>1. i - 1 \in 0 .. m - 1 /\ 0 + i - 1 = i - 1 /\ i \in 1 .. n
          BY <1>1
        <4> QED
          BY <1>3, <2>4, <3>2, <4>1 DEF tail
      <3>8. Slice(got, 0, m) = SubSeq(tail, 1, m)
        BY <3>2, <3>5, <3>6, <3>7, SeqEqual
      <3> QED
        BY <3>2, <3>3, <3>8 DEF IsPrefixOf
    <2> QED
      BY <2>5, <2>6 DEF tail
  <1> QED
    BY <1>4, <1>5, <1>6 DEF ArrayKept

-----------------------------------------------------------------------------

(***************************************************************************)
(* A request cut off inside its ciphertext loses that part of it; cut off  *)
(* in front of it, it is rejected, since the length wraps around.          *)
(***************************************************************************)
LEMMA RequestCut ==
    ASSUME NEW body \in Requests, ClearedFrom(body.ciphertext, body.ciphertext_length),
           RequestSerialize(body).result >= 0,
           NEW bytes, bytes = RequestSerialize(body).bytes
    PROVE  /\ bytes \in Seq(Byte) /\ Len(bytes) <= MAX_PAYLOAD_SIZE
           /\ \A k \in 0 .. Len(bytes) :
                 \A d : d = RequestDeserialize(PayloadWith(SubSeq(bytes, 1, k)), k) =>
                    /\ k = Len(bytes) => d = [result |-> 0, request |-> body]
                    /\ d.result >= 0 => CutBody(REQ, d.request, body, Len(bytes) - k)
  <1> DEFINE n    == body.ciphertext_length
             head == <<body.destination_hash, body.source_hash>> \o body.ciphher_mac
  <1>1. /\ body = [destination_hash  |-> body.destination_hash,
                   source_hash       |-> body.source_hash,
                   ciphher_mac       |-> body.ciphher_mac,
                   ciphertext_length |-> body.ciphertext_length,
                   ciphertext        |-> body.ciphertext]
    BY DEF Requests
  <1>0. /\ body.destination_hash \in Byte /\ body.source_hash \in Byte
        /\ body.ciphher_mac \in [1 .. CIPHER_MAC_SIZE -> Byte]
        /\ n \in Byte
        /\ body.ciphertext \in [0 .. CiphertextSize - 1 -> Byte]
    BY DEF Requests
  <1>2. ~(n > CiphertextSize)
    <2>1. -1 < 0 /\ ~(-1 >= 0)
      OBVIOUS
    <2> QED
      BY <2>1 DEF RequestSerialize, Rejected
  <1>3. n \in 0 .. CiphertextSize /\ n \in Nat
    <2>1. n \in 0 .. 255
      BY <1>0, Bytes
    <2>2. CiphertextSize \in Nat
      BY Sizes
    <2> HIDE DEF n
    <2> QED
      BY ONLY <1>2, <2>1, <2>2
  <1>4. /\ body.ciphher_mac \in Seq(Byte) /\ Len(body.ciphher_mac) = CIPHER_MAC_SIZE
    <2>1. CIPHER_MAC_SIZE \in Nat /\ body.ciphher_mac \in [1 .. CIPHER_MAC_SIZE -> Byte]
      BY <1>0, Sizes
    <2> QED
      BY ONLY <2>1, ArrayIsSeq
  <1>5. /\ head \in Seq(Byte) /\ Len(head) = CiphertextAt
        /\ head[1] = body.destination_hash /\ head[2] = body.source_hash
        /\ \A i \in 1 .. CIPHER_MAC_SIZE : head[2 + i] = body.ciphher_mac[i]
    <2> DEFINE two == <<body.destination_hash, body.source_hash>>
    <2>1. /\ two \in Seq(Byte) /\ Len(two) = 2
          /\ two[1] = body.destination_hash /\ two[2] = body.source_hash
      BY <1>0
    <2> HIDE DEF two
    <2>2. /\ two \o body.ciphher_mac \in Seq(Byte)
          /\ Len(two \o body.ciphher_mac) = Len(two) + CIPHER_MAC_SIZE
          /\ \A i \in 1 .. Len(two) + CIPHER_MAC_SIZE : (two \o body.ciphher_mac)[i] =
                IF i <= Len(two) THEN two[i] ELSE body.ciphher_mac[i - Len(two)]
      BY <1>4, <2>1, ConcatProperties
    <2>3. head = two \o body.ciphher_mac
      BY DEF two
    <2> HIDE DEF head
    <2>4. CIPHER_MAC_SIZE \in Nat /\ CiphertextAt = 2 + CIPHER_MAC_SIZE
      BY Sizes
    <2>5. head \in Seq(Byte) /\ Len(head) = CiphertextAt
      BY ONLY <2>1, <2>2, <2>3, <2>4
    <2>6. /\ head[1] = body.destination_hash /\ head[2] = body.source_hash
      <3>1. /\ 1 \in 1 .. 2 + CIPHER_MAC_SIZE /\ 2 \in 1 .. 2 + CIPHER_MAC_SIZE
            /\ 1 <= 2 /\ 2 <= 2
        BY <2>4
      <3> QED
        BY ONLY <2>1, <2>2, <2>3, <3>1
    <2>7. ASSUME NEW i \in 1 .. CIPHER_MAC_SIZE
          PROVE  head[2 + i] = body.ciphher_mac[i]
      <3>1. 2 + i \in 1 .. 2 + CIPHER_MAC_SIZE /\ ~(2 + i <= 2) /\ 2 + i - 2 = i
        BY <2>4
      <3> QED
        BY ONLY <2>1, <2>2, <2>3, <3>1
    <2> QED
      BY <2>5, <2>6, <2>7
  <1>6. bytes = head \o Slice(body.ciphertext, 0, n)
    BY <1>2 DEF RequestSerialize
  <1> HIDE DEF head, n
  <1>7. ClearedFrom(body.ciphertext, n)
    BY DEF n
  <1>8. Len(head) + CiphertextSize <= MAX_PAYLOAD_SIZE /\ CiphertextSize \in Nat
    BY <1>5, Sizes
  <1>12. /\ bytes \in Seq(Byte) /\ Len(bytes) = Len(head) + n
         /\ \A i \in 1 .. Len(head) : bytes[i] = head[i]
         /\ ArrayKept(bytes, Len(head), body.ciphertext, n, CiphertextSize)
    <2>1. head \in Seq(Byte) /\ body.ciphertext \in [0 .. CiphertextSize - 1 -> Byte]
      BY <1>0, <1>5
    <2> QED
      <3>1. HeadAndArray(bytes, head, body.ciphertext, n, CiphertextSize)
        BY ONLY <1>3, <1>6, <1>7, <1>8, <2>1 DEF HeadAndArray
      <3> QED
        BY ONLY <3>1, ArrayCut
  <1>9. /\ bytes \in Seq(Byte) /\ Len(bytes) = CiphertextAt + n
        /\ \A i \in 1 .. CiphertextAt : bytes[i] = head[i]
    BY <1>5, <1>12
  <1>13. ArrayKept(bytes, CiphertextAt, body.ciphertext, n, CiphertextSize)
    BY <1>5, <1>12
  <1>10. Len(bytes) <= MAX_PAYLOAD_SIZE /\ Len(bytes) \in Nat
    BY <1>3, <1>9, Sizes
  <1>11. ASSUME NEW k \in 0 .. Len(bytes), NEW d,
                d = RequestDeserialize(PayloadWith(SubSeq(bytes, 1, k)), k)
         PROVE  /\ k = Len(bytes) => d = [result |-> 0, request |-> body]
                /\ d.result >= 0 => CutBody(REQ, d.request, body, Len(bytes) - k)
    <2> DEFINE payload == PayloadWith(SubSeq(bytes, 1, k))
    <2>1. CASE k < CiphertextAt
      <3>1. RequestCiphertextLength(k) > CiphertextSize
        <4> PICK c \in Nat, x \in 0 .. 255 : c = CiphertextAt /\ x = 256 + k - c
          BY <1>10, <2>1, Sizes
        <4>1. (k - c) % 256 = x
          BY <1>10
        <4> QED
          BY <4>1, <1>10, Sizes DEF RequestCiphertextLength, ByteSize
      <3>2. d = Rejected
        BY <1>11, <3>1 DEF RequestDeserialize
      <3>3. ~(d.result >= 0)
        BY <3>2 DEF Rejected
      <3>4. k # Len(bytes)
        <4>1. Len(bytes) = CiphertextAt + n
          BY <1>9
        <4> QED
          BY ONLY <1>3, <2>1, <4>1, Sizes
      <3> QED
        BY <3>3, <3>4
    <2>2. CASE k >= CiphertextAt
      <3>1. k \in CiphertextAt .. Len(bytes) /\ k - CiphertextAt \in 0 .. CiphertextSize
        BY <1>10, <2>2, Sizes
      <3>2. RequestCiphertextLength(k) = k - CiphertextAt
        <4> PICK x \in 0 .. 255 : x = k - CiphertextAt
          BY <3>1, Sizes
        <4>1. x % 256 = x
          BY ONLY x \in 0 .. 255
        <4> QED
          BY <4>1 DEF RequestCiphertextLength, ByteSize
      <3>3. ~(RequestCiphertextLength(k) > CiphertextSize)
        BY <3>1, <3>2, Sizes
      <3>4. /\ d.result = 0 /\ d = [result |-> 0, request |-> d.request]
            /\ d.request = [destination_hash  |-> payload[0],
                            source_hash       |-> payload[1],
                            ciphher_mac       |-> Slice(payload, 2, CIPHER_MAC_SIZE),
                            ciphertext_length |-> k - CiphertextAt,
                            ciphertext        |-> Copied(payload, CiphertextAt,
                                                         k - CiphertextAt, CiphertextSize)]
        BY <1>11, <3>2, <3>3 DEF RequestDeserialize
      <3> HIDE DEF payload
      <3>5. \A i \in 0 .. CiphertextAt - 1 : payload[i] = head[i + 1]
        <4>1. \A i \in 0 .. k - 1 : payload[i] = bytes[i + 1]
          BY <1>9, <1>10, CutFacts DEF payload
        <4>2. \A i \in 0 .. CiphertextAt - 1 : i \in 0 .. k - 1 /\ i + 1 \in 1 .. CiphertextAt
          BY <3>1, Sizes
        <4> QED
          BY <1>9, <4>1, <4>2
      <3>6. /\ payload[0] = body.destination_hash /\ payload[1] = body.source_hash
            /\ Slice(payload, 2, CIPHER_MAC_SIZE) = body.ciphher_mac
        <4>1. 0 \in 0 .. CiphertextAt - 1 /\ 1 \in 0 .. CiphertextAt - 1
          BY Sizes
        <4>2. \A i \in 1 .. CIPHER_MAC_SIZE :
                 /\ 2 + i - 1 \in 0 .. CiphertextAt - 1
                 /\ 2 + i - 1 + 1 = 2 + i
          BY Sizes
        <4>3. \A i \in 1 .. CIPHER_MAC_SIZE : payload[2 + i - 1] = body.ciphher_mac[i]
          BY <1>5, <3>5, <4>2
        <4>4. Slice(payload, 2, CIPHER_MAC_SIZE)
                 = [i \in 1 .. CIPHER_MAC_SIZE |-> body.ciphher_mac[i]]
          BY <4>3 DEF Slice
        <4>5. Slice(payload, 2, CIPHER_MAC_SIZE) = body.ciphher_mac
          BY ONLY <1>0, <4>4
        <4>6. 0 + 1 = 1 /\ 1 + 1 = 2
          OBVIOUS
        <4> QED
          BY ONLY <1>5, <3>5, <4>1, <4>5, <4>6
      <3>7. /\ k = Len(bytes) => d.request.ciphertext = body.ciphertext
            /\ IsPrefixOf(Slice(d.request.ciphertext, 0, k - CiphertextAt),
                          Slice(body.ciphertext, 0, n))
        BY <1>13, <3>1, <3>4 DEF payload, ArrayKept
      <3>8. k = Len(bytes) => d = [result |-> 0, request |-> body]
        <4> SUFFICES ASSUME k = Len(bytes) PROVE d.request = body
          BY <3>4
        <4>1. k - CiphertextAt = body.ciphertext_length
          <5>1. k = CiphertextAt + n /\ n \in Nat
            BY <1>3, <1>9
          <5> QED
            BY ONLY <5>1, Sizes DEF n
        <4>2. d.request.ciphertext = Copied(payload, CiphertextAt, k - CiphertextAt,
                                            CiphertextSize)
          BY <3>4
        <4> QED
          BY <1>1, <3>4, <3>6, <3>7, <4>1, <4>2
      <3>9. CutBody(REQ, d.request, body, Len(bytes) - k)
        <4> DEFINE got == d.request
        <4>1. /\ got.ciphertext_length = k - CiphertextAt
              /\ k - CiphertextAt = n - (Len(bytes) - k)
          <5>1. Len(bytes) = CiphertextAt + n /\ got.ciphertext_length = k - CiphertextAt
            BY <1>9, <3>4
          <5> HIDE DEF got
          <5> QED
            BY ONLY <1>3, <3>1, <5>1, Sizes, k \in 0 .. Len(bytes)
        <4>2. /\ got.destination_hash = body.destination_hash
              /\ got.source_hash = body.source_hash /\ got.ciphher_mac = body.ciphher_mac
          BY ONLY <3>4, <3>6
        <4>3. IsPrefixOf(Slice(got.ciphertext, 0, got.ciphertext_length),
                         Slice(body.ciphertext, 0, body.ciphertext_length))
          BY <3>7, <4>1 DEF n
        <4> HIDE DEF got
        <4>4. got.ciphertext_length = body.ciphertext_length - (Len(bytes) - k)
          BY <4>1 DEF n
        <4> QED
          BY ONLY <4>2, <4>3, <4>4 DEF CutBody, REQ, ACK, ADVERT, GRP_TXT, got
      <3> QED
        BY <3>8, <3>9
    <2> QED
      BY <2>1, <2>2, <1>10, Sizes
  <1> QED
    BY <1>9, <1>10, <1>11

(***************************************************************************)
(* A group text cut off inside its ciphertext loses that part of it; cut   *)
(* off in front of it, its copy runs over the array.                       *)
(***************************************************************************)
LEMMA GrpTxtCut ==
    ASSUME NEW body \in GrpTxts, ClearedFrom(body.data, body.data_length),
           NEW bytes, bytes = GrpTxtBytes(body)
    PROVE  /\ bytes \in Seq(Byte) /\ Len(bytes) <= MAX_PAYLOAD_SIZE
           /\ GrpTxtCopyFits(Len(bytes))
           /\ \A k \in 0 .. Len(bytes) :
                 \A got : (/\ GrpTxtCopyFits(k)
                           /\ got = GrpTxtDeserialize(PayloadWith(SubSeq(bytes, 1, k)), k)) =>
                    /\ k = Len(bytes) => got = body
                    /\ CutBody(GRP_TXT, got, body, Len(bytes) - k)
  <1> DEFINE n    == body.data_length
             head == <<body.channel_hash>> \o body.mac
  <1>1. body = [channel_hash |-> body.channel_hash, mac |-> body.mac,
                data_length  |-> body.data_length, data |-> body.data]
    BY DEF GrpTxts
  <1>0. /\ body.channel_hash \in Byte /\ body.mac \in [1 .. CIPHER_MAC_SIZE -> Byte]
        /\ n \in 0 .. GrpTxtDataSize
        /\ body.data \in [0 .. GrpTxtDataSize - 1 -> Byte]
    BY DEF GrpTxts
  <1>3. n \in 0 .. GrpTxtDataSize /\ n \in Nat
    <2>1. GrpTxtDataSize \in Nat /\ n \in 0 .. GrpTxtDataSize
      BY <1>0, Sizes
    <2> HIDE DEF n
    <2> QED
      BY ONLY <2>1
  <1>4. /\ body.mac \in Seq(Byte) /\ Len(body.mac) = CIPHER_MAC_SIZE
    <2>1. body.mac \in [1 .. CIPHER_MAC_SIZE -> Byte] /\ CIPHER_MAC_SIZE \in Nat
      BY <1>0, Sizes
    <2> QED
      BY ONLY <2>1, ArrayIsSeq
  <1>5. /\ head \in Seq(Byte) /\ Len(head) = GrpTxtDataAt
        /\ head[1] = body.channel_hash
        /\ \A i \in 1 .. CIPHER_MAC_SIZE : head[1 + i] = body.mac[i]
    <2> DEFINE one == <<body.channel_hash>>
    <2>1. one \in Seq(Byte) /\ Len(one) = 1 /\ one[1] = body.channel_hash
      BY <1>0
    <2> HIDE DEF one
    <2>2. /\ one \o body.mac \in Seq(Byte)
          /\ Len(one \o body.mac) = Len(one) + CIPHER_MAC_SIZE
          /\ \A i \in 1 .. Len(one) + CIPHER_MAC_SIZE : (one \o body.mac)[i] =
                IF i <= Len(one) THEN one[i] ELSE body.mac[i - Len(one)]
      BY <1>4, <2>1, ConcatProperties
    <2>3. head = one \o body.mac
      BY DEF one
    <2> HIDE DEF head
    <2>4. CIPHER_MAC_SIZE \in Nat /\ GrpTxtDataAt = 1 + CIPHER_MAC_SIZE
      BY Sizes
    <2>5. head \in Seq(Byte) /\ Len(head) = GrpTxtDataAt
      BY ONLY <2>1, <2>2, <2>3, <2>4
    <2>6. head[1] = body.channel_hash
      <3>1. 1 \in 1 .. 1 + CIPHER_MAC_SIZE /\ 1 <= 1
        BY <2>4
      <3> QED
        BY ONLY <2>1, <2>2, <2>3, <3>1
    <2>7. ASSUME NEW i \in 1 .. CIPHER_MAC_SIZE
          PROVE  head[1 + i] = body.mac[i]
      <3>1. 1 + i \in 1 .. 1 + CIPHER_MAC_SIZE /\ ~(1 + i <= 1) /\ 1 + i - 1 = i
        BY <2>4
      <3> QED
        BY ONLY <2>1, <2>2, <2>3, <3>1
    <2> QED
      BY <2>5, <2>6, <2>7
  <1>6. bytes = head \o Slice(body.data, 0, n)
    BY DEF GrpTxtBytes
  <1> HIDE DEF head, n
  <1>7. ClearedFrom(body.data, n)
    BY DEF n
  <1>8. Len(head) + GrpTxtDataSize <= MAX_PAYLOAD_SIZE /\ GrpTxtDataSize \in Nat
    <2>1. Len(head) = GrpTxtDataAt
      BY ONLY <1>5
    <2> QED
      BY ONLY <2>1, Sizes
  <1>12. /\ bytes \in Seq(Byte) /\ Len(bytes) = Len(head) + n
         /\ \A i \in 1 .. Len(head) : bytes[i] = head[i]
         /\ ArrayKept(bytes, Len(head), body.data, n, GrpTxtDataSize)
    <2>1. head \in Seq(Byte) /\ body.data \in [0 .. GrpTxtDataSize - 1 -> Byte]
      BY <1>0, <1>5
    <2>2. HeadAndArray(bytes, head, body.data, n, GrpTxtDataSize)
      BY ONLY <1>3, <1>6, <1>7, <1>8, <2>1 DEF HeadAndArray
    <2> QED
      BY ONLY <2>2, ArrayCut
  <1>9. /\ bytes \in Seq(Byte) /\ Len(bytes) = GrpTxtDataAt + n
        /\ \A i \in 1 .. GrpTxtDataAt : bytes[i] = head[i]
    BY <1>5, <1>12
  <1>13. ArrayKept(bytes, GrpTxtDataAt, body.data, n, GrpTxtDataSize)
    BY <1>5, <1>12
  <1>10. /\ Len(bytes) <= MAX_PAYLOAD_SIZE /\ Len(bytes) \in 0 .. MAX_PAYLOAD_SIZE
         /\ Len(bytes) >= GrpTxtDataAt
    BY <1>3, <1>9, Sizes
  <1>14. GrpTxtCopyFits(Len(bytes))
    BY <1>10, CopyFits
  <1>11. ASSUME NEW k \in 0 .. Len(bytes), GrpTxtCopyFits(k), NEW got,
                got = GrpTxtDeserialize(PayloadWith(SubSeq(bytes, 1, k)), k)
         PROVE  /\ k = Len(bytes) => got = body
                /\ CutBody(GRP_TXT, got, body, Len(bytes) - k)
    <2> DEFINE payload == PayloadWith(SubSeq(bytes, 1, k))
    <2>1. k \in 0 .. MAX_PAYLOAD_SIZE /\ k <= Len(bytes)
      <3> PICK l \in 0 .. MAX_PAYLOAD_SIZE : l = Len(bytes)
        BY <1>10
      <3>1. k \in 0 .. l
        OBVIOUS
      <3>2. k \in 0 .. MAX_PAYLOAD_SIZE /\ k <= l
        BY ONLY <3>1, Sizes, l \in 0 .. MAX_PAYLOAD_SIZE
      <3> QED
        BY <3>2
    <2>2. k >= GrpTxtDataAt /\ GrpTxtDataLength(k) = k - GrpTxtDataAt
      BY <1>11, <2>1, CopyFits
    <2>3. k \in GrpTxtDataAt .. Len(bytes)
      BY <1>10, <2>1, <2>2, Sizes
    <2>4. got = [channel_hash |-> payload[0],
                 mac          |-> Slice(payload, 1, CIPHER_MAC_SIZE),
                 data_length  |-> k - GrpTxtDataAt,
                 data         |-> Copied(payload, GrpTxtDataAt, k - GrpTxtDataAt,
                                         GrpTxtDataSize)]
      BY <1>11, <2>2 DEF GrpTxtDeserialize
    <2> HIDE DEF payload
    <2>5. \A i \in 0 .. GrpTxtDataAt - 1 : payload[i] = head[i + 1]
      <3>1. \A i \in 0 .. k - 1 : payload[i] = bytes[i + 1]
        BY <1>9, <1>10, CutFacts DEF payload
      <3>2. \A i \in 0 .. GrpTxtDataAt - 1 : i \in 0 .. k - 1 /\ i + 1 \in 1 .. GrpTxtDataAt
        BY <2>1, <2>2, Sizes
      <3> QED
        BY <1>9, <3>1, <3>2
    <2>6. payload[0] = body.channel_hash /\ Slice(payload, 1, CIPHER_MAC_SIZE) = body.mac
      <3>1. 0 \in 0 .. GrpTxtDataAt - 1 /\ 0 + 1 = 1
        BY Sizes
      <3>2. \A i \in 1 .. CIPHER_MAC_SIZE :
               /\ 1 + i - 1 \in 0 .. GrpTxtDataAt - 1
               /\ 1 + i - 1 + 1 = 1 + i
        BY Sizes
      <3>3. \A i \in 1 .. CIPHER_MAC_SIZE : payload[1 + i - 1] = body.mac[i]
        BY <1>5, <2>5, <3>2
      <3>4. Slice(payload, 1, CIPHER_MAC_SIZE) = [i \in 1 .. CIPHER_MAC_SIZE |-> body.mac[i]]
        BY <3>3 DEF Slice
      <3>5. Slice(payload, 1, CIPHER_MAC_SIZE) = body.mac
        BY ONLY <1>0, <3>4
      <3> QED
        BY ONLY <1>5, <2>5, <3>1, <3>5
    <2>7. /\ k = Len(bytes) => got.data = body.data
          /\ IsPrefixOf(Slice(got.data, 0, k - GrpTxtDataAt), Slice(body.data, 0, n))
      BY <1>13, <2>3, <2>4 DEF payload, ArrayKept
    <2>8. k = Len(bytes) => got = body
      <3> SUFFICES ASSUME k = Len(bytes) PROVE got = body
        OBVIOUS
      <3>1. k - GrpTxtDataAt = body.data_length
        <4>1. k = GrpTxtDataAt + n /\ n \in Nat
          BY <1>3, <1>9
        <4> QED
          BY ONLY <4>1, Sizes DEF n
      <3>2. got.data = Copied(payload, GrpTxtDataAt, k - GrpTxtDataAt, GrpTxtDataSize)
        BY <2>4
      <3> QED
        BY <1>1, <2>4, <2>6, <2>7, <3>1, <3>2
    <2>9. CutBody(GRP_TXT, got, body, Len(bytes) - k)
      <3>1. got.data_length = body.data_length - (Len(bytes) - k)
        <4>1. Len(bytes) = GrpTxtDataAt + n /\ got.data_length = k - GrpTxtDataAt
          BY <1>9, <2>4
        <4>2. k - GrpTxtDataAt = n - ((GrpTxtDataAt + n) - k)
          BY ONLY <1>3, <2>1, Sizes
        <4>3. got.data_length = n - (Len(bytes) - k)
          BY ONLY <4>1, <4>2
        <4> QED
          BY <4>3 DEF n
      <3>2. got.channel_hash = body.channel_hash /\ got.mac = body.mac
        BY ONLY <2>4, <2>6
      <3>3. IsPrefixOf(Slice(got.data, 0, got.data_length),
                       Slice(body.data, 0, body.data_length))
        BY <2>4, <2>7 DEF n
      <3> QED
        BY ONLY <3>1, <3>2, <3>3 DEF CutBody, REQ, ACK, ADVERT, GRP_TXT
    <2> QED
      BY <2>8, <2>9
  <1> QED
    BY <1>9, <1>10, <1>11, <1>14

(***************************************************************************)
(* The checksum of a short acknowledgement is filled up with zeros.        *)
(***************************************************************************)
LEMMA AckCut ==
    ASSUME NEW body \in [crc : [1 .. 4 -> Byte]], NEW bytes, bytes = AckBytes(body)
    PROVE  /\ bytes \in Seq(Byte) /\ Len(bytes) = 4
           /\ \A k \in 0 .. 4 :
                 \A got : got = AckDeserialize(PayloadWith(SubSeq(bytes, 1, k)), k) =>
                    /\ k = 4 => got = body
                    /\ CutBody(ACK, got, body, 4 - k)
  <1>1. body = [crc |-> body.crc] /\ body.crc \in [1 .. 4 -> Byte] /\ bytes = body.crc
    BY DEF AckBytes
  <1>2. bytes \in Seq(Byte) /\ Len(bytes) = 4 /\ DOMAIN bytes = 1 .. 4
    <2>1. bytes \in [1 .. 4 -> Byte] /\ 4 \in Nat
      BY <1>1
    <2> QED
      BY ONLY <2>1, ArrayIsSeq
  <1>3. ASSUME NEW k \in 0 .. 4, NEW got,
               got = AckDeserialize(PayloadWith(SubSeq(bytes, 1, k)), k)
        PROVE  /\ k = 4 => got = body
               /\ CutBody(ACK, got, body, 4 - k)
    <2> DEFINE payload == PayloadWith(SubSeq(bytes, 1, k))
    <2>1. /\ \A i \in 0 .. k - 1 : payload[i] = bytes[i + 1]
          /\ \A i \in k .. MAX_PAYLOAD_SIZE - 1 : payload[i] = 0
      <3>1. Len(bytes) <= MAX_PAYLOAD_SIZE /\ k \in 0 .. Len(bytes)
        BY <1>2, Sizes
      <3> QED
        BY <1>2, <3>1, CutFacts
    <2>2. got = [crc |-> [i \in 1 .. 4 |-> payload[0 + i - 1]]]
      BY <1>3 DEF AckDeserialize, Slice
    <2> HIDE DEF payload
    <2>3. ASSUME NEW i \in 1 .. 4
          PROVE  payload[0 + i - 1] = IF i <= k THEN bytes[i] ELSE 0
      <3>1. CASE i <= k
        <4>1. 0 + i - 1 \in 0 .. k - 1 /\ 0 + i - 1 + 1 = i
          BY <3>1
        <4> QED
          BY <2>1, <3>1, <4>1
      <3>2. CASE ~(i <= k)
        <4>1. 0 + i - 1 \in k .. MAX_PAYLOAD_SIZE - 1
          BY <3>2, Sizes
        <4> QED
          BY <2>1, <3>2, <4>1
      <3> QED
        BY <3>1, <3>2
    <2>4. got.crc = [i \in 1 .. 4 |-> IF i <= k THEN bytes[i] ELSE 0]
      BY <2>2, <2>3
    <2>5. got.crc = ClearedBehind(body.crc, 4 - (4 - k))
      <3>1. 4 - (4 - k) = k
        OBVIOUS
      <3>2. ClearedBehind(body.crc, k) = [i \in 1 .. 4 |-> IF i <= k THEN bytes[i] ELSE 0]
        BY <1>1, <1>2 DEF ClearedBehind
      <3> QED
        BY <2>4, <3>1, <3>2
    <2>6. k = 4 => got = body
      <3> SUFFICES ASSUME k = 4 PROVE got = body
        OBVIOUS
      <3>1. got.crc = [i \in 1 .. 4 |-> bytes[i]]
        BY <2>4
      <3>2. got.crc = bytes
        BY <1>1, <3>1
      <3> QED
        BY <1>1, <2>2, <3>2
    <2> QED
      BY <2>5, <2>6 DEF CutBody, REQ, ACK, ADVERT, GRP_TXT
  <1> QED
    BY <1>2, <1>3

(***************************************************************************)
(* Bytes are decoded as far as they arrived.                               *)
(***************************************************************************)
LEMMA BytesCut ==
    ASSUME NEW bytes \in Seq(Byte), Len(bytes) <= MAX_PAYLOAD_SIZE,
           NEW type, type \notin {REQ, ACK, ADVERT, GRP_TXT},
           NEW k \in 0 .. Len(bytes),
           NEW got, got = Slice(PayloadWith(SubSeq(bytes, 1, k)), 0, k)
    PROVE  /\ k = Len(bytes) => got = bytes
           /\ CutBody(type, got, bytes, Len(bytes) - k)
  <1> DEFINE cut == SubSeq(bytes, 1, k)
  <1>1. /\ cut \in Seq(Byte) /\ Len(cut) = k /\ k \in 0 .. MAX_PAYLOAD_SIZE
        /\ k = Len(bytes) => cut = bytes
    BY CutFacts
  <1>2. got = cut
    <2>1. /\ Len(cut) <= MAX_PAYLOAD_SIZE /\ 0 \in Nat /\ k \in Nat /\ 0 + k <= Len(cut)
          /\ 0 + 1 = 1 /\ 0 + k = k
      BY <1>1, Sizes
    <2> HIDE DEF cut
    <2>2. Slice(PayloadWith(cut), 0, k) = SubSeq(cut, 0 + 1, 0 + k)
      BY ONLY <1>1, <2>1, SliceOfPayload
    <2>3. SubSeq(cut, 1, k) = cut
      BY <1>1, SubSeqFull
    <2> QED
      BY <2>1, <2>2, <2>3 DEF cut
  <1>3. k <= Len(bytes)
    OBVIOUS
  <1>4. IsPrefixOf(got, bytes)
    BY <1>1, <1>2, <1>3 DEF IsPrefixOf
  <1> QED
    BY <1>1, <1>2, <1>4 DEF CutBody

-----------------------------------------------------------------------------

(***************************************************************************)
(* Two runs of bytes, one behind the other.                                *)
(***************************************************************************)
LEMMA TwoParts ==
    ASSUME NEW s \in Seq(Byte), NEW t \in Seq(Byte)
    PROVE  /\ s \o t \in Seq(Byte) /\ Len(s \o t) = Len(s) + Len(t)
           /\ \A i \in 1 .. Len(s) : (s \o t)[i] = s[i]
           /\ \A i \in 1 .. Len(t) : (s \o t)[Len(s) + i] = t[i]
  <1>1. Len(s) \in Nat /\ Len(t) \in Nat
    OBVIOUS
  <1> DEFINE st == s \o t
  <1>2. /\ st \in Seq(Byte) /\ Len(st) = Len(s) + Len(t)
        /\ \A i \in 1 .. Len(s) + Len(t) : st[i] =
              IF i <= Len(s) THEN s[i] ELSE t[i - Len(s)]
    BY ConcatProperties
  <1> HIDE DEF st
  <1>3. ASSUME NEW i \in 1 .. Len(s) PROVE st[i] = s[i]
    BY <1>1, <1>2
  <1>4. ASSUME NEW i \in 1 .. Len(t) PROVE st[Len(s) + i] = t[i]
    <2>1. /\ Len(s) + i \in 1 .. Len(s) + Len(t) /\ ~(Len(s) + i <= Len(s))
          /\ Len(s) + i - Len(s) = i
      BY <1>1
    <2> QED
      BY <1>2, <2>1
  <1> QED
    BY <1>2, <1>3, <1>4 DEF st

(***************************************************************************)
(* A field that begins behind the first `at' bytes.                        *)
(***************************************************************************)
LiesAt(bytes, at, field) ==
    /\ at \in Nat /\ field \in Seq(Byte)
    /\ at + Len(field) <= Len(bytes)
    /\ \A i \in 1 .. Len(field) : bytes[at + i] = field[i]

(***************************************************************************)
(* What lies in the front part stays where it is, and the back part lies   *)
(* behind it.                                                              *)
(***************************************************************************)
LEMMA PartsLie ==
    ASSUME NEW s \in Seq(Byte), NEW t \in Seq(Byte)
    PROVE  /\ LiesAt(s \o t, 0, s) /\ LiesAt(s \o t, Len(s), t)
           /\ \A at, field : LiesAt(s, at, field) => LiesAt(s \o t, at, field)
  <1> DEFINE st == s \o t
  <1>1. /\ st \in Seq(Byte) /\ Len(st) = Len(s) + Len(t)
        /\ \A i \in 1 .. Len(s) : st[i] = s[i]
        /\ \A i \in 1 .. Len(t) : st[Len(s) + i] = t[i]
    BY TwoParts
  <1> HIDE DEF st
  <1>2. Len(s) \in Nat /\ Len(t) \in Nat
    OBVIOUS
  <1>3. LiesAt(st, Len(s), t)
    BY <1>1, <1>2 DEF LiesAt
  <1>4. LiesAt(st, 0, s)
    <2>1. \A i \in 1 .. Len(s) : 0 + i = i
      BY <1>2
    <2>2. 0 \in Nat /\ 0 + Len(s) <= Len(st)
      BY <1>1, <1>2
    <2> QED
      BY ONLY <1>1, <2>1, <2>2, s \in Seq(Byte) DEF LiesAt
  <1>5. ASSUME NEW at, NEW field, LiesAt(s, at, field)
        PROVE  LiesAt(st, at, field)
    <2>1. /\ at \in Nat /\ field \in Seq(Byte) /\ Len(field) \in Nat
          /\ at + Len(field) <= Len(s)
          /\ \A i \in 1 .. Len(field) : s[at + i] = field[i]
      BY <1>5 DEF LiesAt
    <2>2. at + Len(field) <= Len(st)
      BY <1>1, <1>2, <2>1
    <2>3. ASSUME NEW i \in 1 .. Len(field) PROVE st[at + i] = field[i]
      <3>1. at + i \in 1 .. Len(s)
        BY <1>2, <2>1
      <3> QED
        BY <1>1, <2>1, <3>1
    <2> QED
      BY <2>1, <2>2, <2>3 DEF LiesAt
  <1> QED
    BY <1>3, <1>4, <1>5 DEF st

(***************************************************************************)
(* A field is read back from a part of the bytes that holds its start.     *)
(***************************************************************************)
LEMMA FieldRead ==
    ASSUME NEW bytes \in Seq(Byte), Len(bytes) <= MAX_PAYLOAD_SIZE,
           NEW k \in 0 .. Len(bytes),
           NEW at, NEW field, LiesAt(bytes, at, field),
           NEW n \in 0 .. Len(field), at + n <= k
    PROVE  /\ Slice(PayloadWith(SubSeq(bytes, 1, k)), at, n) = SubSeq(field, 1, n)
           /\ n = Len(field) => SubSeq(field, 1, n) = field
           /\ Len(SubSeq(field, 1, n)) = n
           /\ IsPrefixOf(SubSeq(field, 1, n), field)
  <1> DEFINE payload == PayloadWith(SubSeq(bytes, 1, k))
             part    == SubSeq(field, 1, n)
  <1>1. /\ at \in Nat /\ field \in Seq(Byte) /\ Len(field) \in Nat
        /\ n \in Nat /\ n <= Len(field) /\ k \in Nat
        /\ \A i \in 1 .. Len(field) : bytes[at + i] = field[i]
    BY DEF LiesAt
  <1>2. \A i \in 0 .. k - 1 : payload[i] = bytes[i + 1]
    BY CutFacts
  <1>3. n = Len(field) => part = field
    BY <1>1, SubSeqFull
  <1>4. /\ part \in Seq(Byte) /\ Len(part) = n
        /\ \A i \in 1 .. n : part[i] = field[i]
    <2>1. \A i \in 1 .. n : field[i] \in Byte
      <3>1. \A i \in 1 .. n : i \in 1 .. Len(field)
        BY <1>1
      <3> QED
        BY <1>1, <3>1, ElementOfSeq
    <2>2. /\ part \in Seq(Byte) /\ Len(part) = IF 1 <= n THEN n - 1 + 1 ELSE 0
          /\ \A i \in 1 .. n - 1 + 1 : part[i] = field[1 + i - 1]
      BY <1>1, <2>1, SubSeqProperties
    <2> HIDE DEF part
    <2> QED
      BY <1>1, <2>2
  <1> HIDE DEF payload, part
  <1>5. ASSUME NEW i \in 1 .. n PROVE payload[at + i - 1] = part[i]
    <2>1. at + i - 1 \in 0 .. k - 1 /\ at + i - 1 + 1 = at + i /\ i \in 1 .. Len(field)
      BY <1>1
    <2> QED
      BY <1>1, <1>2, <1>4, <2>1
  <1>6. Slice(payload, at, n) = [i \in 1 .. n |-> part[i]]
    BY <1>5 DEF Slice
  <1>7. Slice(payload, at, n) = part
    <2>1. part \in [1 .. n -> Byte]
      BY <1>4, LenProperties
    <2> QED
      BY <1>6, <2>1
  <1>8. IsPrefixOf(part, field)
    BY <1>1, <1>4 DEF IsPrefixOf, part
  <1> QED
    BY <1>3, <1>4, <1>7, <1>8 DEF payload, part

(***************************************************************************)
(* A name without a zero is all of it text.                                *)
(***************************************************************************)
LEMMA NameTextWhole ==
    ASSUME NEW name \in Seq(Byte \ {0})
    PROVE  name \in Seq(Byte) /\ NameText(name) = name
  <1>1. name \in Seq(Byte)
    OBVIOUS
  <1>2. PICK n \in 0 .. Len(name) : /\ NameText(name) = SubSeq(name, 1, n)
                                    /\ n = Len(name) \/ name[n + 1] = 0
    BY <1>1, NameTextEnds
  <1>3. n = Len(name)
    <2> SUFFICES ASSUME n # Len(name) PROVE FALSE
      OBVIOUS
    <2>1. n + 1 \in 1 .. Len(name)
      OBVIOUS
    <2>2. name[n + 1] \in Byte \ {0}
      BY <2>1, ElementOfSeq
    <2> QED
      BY <1>2, <2>2
  <1> QED
    BY <1>1, <1>2, <1>3, SubSeqFull

(***************************************************************************)
(* Where the fields of an advert lie, and that the flags name them.        *)
(***************************************************************************)
AdvertLaidOut(bytes, advert, flags) ==
    /\ bytes \in Seq(Byte) /\ flags \in Byte
    /\ flags % 16 = advert.role
    /\ HasPosition(flags) <=> advert.position # <<>>
    /\ HasExtra1(flags) <=> advert.extra1 # <<>>
    /\ HasExtra2(flags) <=> advert.extra2 # <<>>
    /\ HasName(flags) <=> advert.name_valid
    /\ LiesAt(bytes, 0, advert.identity) /\ Len(advert.identity) = IdentitySize
    /\ bytes[IdentitySize + 1] = flags
    /\ LiesAt(bytes, PositionAt, advert.position)
    /\ LiesAt(bytes, Extra1At(flags), advert.extra1)
    /\ LiesAt(bytes, Extra2At(flags), advert.extra2)
    /\ LiesAt(bytes, NameAt(flags), advert.name)
    /\ NameAt(flags) \in IdentitySize + 1 .. IdentitySize + 13
    /\ Len(bytes) = NameAt(flags) + Len(advert.name)
    /\ HasPosition(flags) => Len(advert.position) = 8 /\ PositionAt + 8 <= NameAt(flags)
    /\ HasExtra1(flags) => Len(advert.extra1) = 2 /\ Extra1At(flags) + 2 <= NameAt(flags)
    /\ HasExtra2(flags) => Len(advert.extra2) = 2 /\ Extra2At(flags) + 2 <= NameAt(flags)

(***************************************************************************)
(* An optional field is a run of bytes, of its length when it is there.    *)
(***************************************************************************)
LEMMA OptionalField ==
    ASSUME NEW n \in Nat \ {0}, NEW field \in Optional(n)
    PROVE  /\ field \in Seq(Byte)
           /\ Len(field) = IF field # <<>> THEN n ELSE 0
  <1>1. CASE field = <<>>
    BY <1>1
  <1>2. CASE field \in [1 .. n -> Byte]
    <2>1. field \in Seq(Byte) /\ Len(field) = n
      BY <1>2, ArrayIsSeq
    <2>2. field # <<>>
      BY <2>1
    <2> QED
      BY <2>1, <2>2
  <1> QED
    BY <1>1, <1>2 DEF Optional

(***************************************************************************)
(* meshcore_advert_serialize lays them out so.                             *)
(***************************************************************************)
LEMMA AdvertStores ==
    ASSUME NEW body \in Adverts, Len(body.name) <= MAX_NAME_SIZE,
           ~body.name_valid => body.name = <<>>
    PROVE  \E flags \in Byte : AdvertLaidOut(AdvertBytes(body), body, flags)
  <1> DEFINE flags == FlagsOf(body.role, body.position # <<>>, body.extra1 # <<>>,
                              body.extra2 # <<>>, body.name_valid)
             one   == <<flags>>
             p2    == body.identity \o one
             p3    == p2 \o body.position
             p4    == p3 \o body.extra1
             p5    == p4 \o body.extra2
             p6    == p5 \o body.name
  <1>1. /\ body.identity \in [1 .. IdentitySize -> Byte] /\ body.role \in 0 .. 15
        /\ body.position \in Optional(8) /\ body.extra1 \in Optional(2)
        /\ body.extra2 \in Optional(2) /\ body.name_valid \in BOOLEAN
        /\ body.name \in Seq(Byte \ {0})
    BY DEF Adverts
  <1>2. /\ body.identity \in Seq(Byte) /\ Len(body.identity) = IdentitySize
    <2>1. IdentitySize \in Nat /\ body.identity \in [1 .. IdentitySize -> Byte]
      BY <1>1, Sizes
    <2> QED
      BY ONLY <2>1, ArrayIsSeq
  <1>3. /\ body.position \in Seq(Byte)
        /\ Len(body.position) = IF body.position # <<>> THEN 8 ELSE 0
    BY <1>1, OptionalField
  <1>4. /\ body.extra1 \in Seq(Byte)
        /\ Len(body.extra1) = IF body.extra1 # <<>> THEN 2 ELSE 0
    BY <1>1, OptionalField
  <1>5. /\ body.extra2 \in Seq(Byte)
        /\ Len(body.extra2) = IF body.extra2 # <<>> THEN 2 ELSE 0
    BY <1>1, OptionalField
  <1>6. body.name \in Seq(Byte) /\ NameText(body.name) = body.name
    BY <1>1, NameTextWhole
  <1>7. /\ flags \in Byte /\ flags % 16 = body.role
        /\ HasPosition(flags) <=> body.position # <<>>
        /\ HasExtra1(flags) <=> body.extra1 # <<>>
        /\ HasExtra2(flags) <=> body.extra2 # <<>>
        /\ HasName(flags) <=> body.name_valid
    <2>0. 0 \in 0 .. 1 /\ 1 \in 0 .. 1 /\ 1 # 0 /\ 0 # 1
      OBVIOUS
    <2>1. /\ 16 * 0 = 0 /\ 16 * 1 = 16 /\ 32 * 0 = 0 /\ 32 * 1 = 32
          /\ 64 * 0 = 0 /\ 64 * 1 = 64 /\ 128 * 0 = 0 /\ 128 * 1 = 128
      OBVIOUS
    <2>6. PICK a \in 0 .. 1 : /\ Flag(body.position # <<>>, 16) = 16 * a
                              /\ body.position # <<>> <=> a = 1
      BY ONLY <2>0, <2>1, Zenon DEF Flag
    <2>7. PICK b \in 0 .. 1 : /\ Flag(body.extra1 # <<>>, 32) = 32 * b
                              /\ body.extra1 # <<>> <=> b = 1
      BY ONLY <2>0, <2>1, Zenon DEF Flag
    <2>8. PICK c \in 0 .. 1 : /\ Flag(body.extra2 # <<>>, 64) = 64 * c
                              /\ body.extra2 # <<>> <=> c = 1
      BY ONLY <2>0, <2>1, Zenon DEF Flag
    <2>9. PICK d \in 0 .. 1 : /\ Flag(body.name_valid, 128) = 128 * d
                              /\ body.name_valid <=> d = 1
      BY ONLY <2>0, <2>1, Zenon DEF Flag
    <2> PICK role \in 0 .. 15 : role = body.role
      BY <1>1
    <2> PICK f : f = flags
      OBVIOUS
    <2>2. f = role + 16 * a + 32 * b + 64 * c + 128 * d
      <3>1. f = FlagsOf(body.role, body.position # <<>>, body.extra1 # <<>>,
                        body.extra2 # <<>>, body.name_valid)
        OBVIOUS
      <3>2. f = body.role + Flag(body.position # <<>>, 16) + Flag(body.extra1 # <<>>, 32)
                  + Flag(body.extra2 # <<>>, 64) + Flag(body.name_valid, 128)
        BY ONLY <3>1, Zenon DEF FlagsOf
      <3>3. /\ Flag(body.position # <<>>, 16) = 16 * a
            /\ Flag(body.extra1 # <<>>, 32) = 32 * b
            /\ Flag(body.extra2 # <<>>, 64) = 64 * c
            /\ Flag(body.name_valid, 128) = 128 * d
        BY ONLY <2>6, <2>7, <2>8, <2>9, Zenon
      <3>4. f = body.role + 16 * a + 32 * b + 64 * c + 128 * d
        BY ONLY <3>2, <3>3, Zenon
      <3> QED
        BY ONLY <3>4, role = body.role
    <2>3. f \in Byte /\ f % 16 = role
      BY ONLY <2>2, role \in 0 .. 15, a \in 0 .. 1, b \in 0 .. 1, c \in 0 .. 1, d \in 0 .. 1
         DEF Byte, ByteSize
    <2>4. /\ (f \div 16) % 2 = a /\ (f \div 32) % 2 = b
          /\ (f \div 64) % 2 = c /\ (f \div 128) % 2 = d
      BY ONLY <2>2, role \in 0 .. 15, a \in 0 .. 1, b \in 0 .. 1, c \in 0 .. 1, d \in 0 .. 1
    <2>5. /\ HasPosition(f) <=> a = 1
          /\ HasExtra1(f) <=> b = 1
          /\ HasExtra2(f) <=> c = 1
          /\ HasName(f) <=> d = 1
      BY ONLY <2>4 DEF HasPosition, HasExtra1, HasExtra2, HasName
    <2> HIDE DEF flags
    <2> QED
      <3>1. HasPosition(flags) <=> body.position # <<>>
        BY ONLY <2>5, <2>6, f = flags, Zenon
      <3>2. HasExtra1(flags) <=> body.extra1 # <<>>
        BY ONLY <2>5, <2>7, f = flags, Zenon
      <3>3. HasExtra2(flags) <=> body.extra2 # <<>>
        BY ONLY <2>5, <2>8, f = flags, Zenon
      <3>4. HasName(flags) <=> body.name_valid
        BY ONLY <2>5, <2>9, f = flags, Zenon
      <3> QED
        BY <2>3, <3>1, <3>2, <3>3, <3>4
  <1>8. AdvertBytes(body) = p6
    <2>1. (IF body.name_valid THEN NameText(body.name) ELSE <<>>) = body.name
      BY <1>6
    <2> QED
      BY <2>1 DEF AdvertBytes, FlagsOf
  <1> HIDE DEF flags
  <1>9. one \in Seq(Byte) /\ Len(one) = 1 /\ one[1] = flags
    BY <1>7
  <1> HIDE DEF one
  <1>10. /\ p2 \in Seq(Byte) /\ Len(p2) = IdentitySize + 1
         /\ LiesAt(p2, 0, body.identity) /\ LiesAt(p2, IdentitySize, one)
    <2>1. /\ p2 \in Seq(Byte) /\ Len(p2) = Len(body.identity) + Len(one)
      BY ONLY <1>2, <1>9, TwoParts
    <2>2. /\ LiesAt(p2, 0, body.identity) /\ LiesAt(p2, Len(body.identity), one)
      BY ONLY <1>2, <1>9, PartsLie
    <2> HIDE DEF p2
    <2> QED
      BY ONLY <1>2, <1>9, <2>1, <2>2
  <1> HIDE DEF p2
  <1>11. /\ p3 \in Seq(Byte) /\ Len(p3) = IdentitySize + 1 + Len(body.position)
         /\ LiesAt(p3, 0, body.identity) /\ LiesAt(p3, IdentitySize, one)
         /\ LiesAt(p3, IdentitySize + 1, body.position)
    BY <1>3, <1>10, TwoParts, PartsLie
  <1> HIDE DEF p3
  <1>12. /\ p4 \in Seq(Byte)
         /\ Len(p4) = IdentitySize + 1 + Len(body.position) + Len(body.extra1)
         /\ LiesAt(p4, 0, body.identity) /\ LiesAt(p4, IdentitySize, one)
         /\ LiesAt(p4, IdentitySize + 1, body.position)
         /\ LiesAt(p4, IdentitySize + 1 + Len(body.position), body.extra1)
    BY <1>4, <1>11, TwoParts, PartsLie
  <1> HIDE DEF p4
  <1>13. /\ p5 \in Seq(Byte)
         /\ Len(p5) = IdentitySize + 1 + Len(body.position) + Len(body.extra1)
                        + Len(body.extra2)
         /\ LiesAt(p5, 0, body.identity) /\ LiesAt(p5, IdentitySize, one)
         /\ LiesAt(p5, IdentitySize + 1, body.position)
         /\ LiesAt(p5, IdentitySize + 1 + Len(body.position), body.extra1)
         /\ LiesAt(p5, IdentitySize + 1 + Len(body.position) + Len(body.extra1), body.extra2)
    BY <1>5, <1>12, TwoParts, PartsLie
  <1> HIDE DEF p5
  <1>14. /\ p6 \in Seq(Byte) /\ Len(p6) = Len(p5) + Len(body.name)
         /\ LiesAt(p6, 0, body.identity) /\ LiesAt(p6, IdentitySize, one)
         /\ LiesAt(p6, IdentitySize + 1, body.position)
         /\ LiesAt(p6, IdentitySize + 1 + Len(body.position), body.extra1)
         /\ LiesAt(p6, IdentitySize + 1 + Len(body.position) + Len(body.extra1), body.extra2)
         /\ LiesAt(p6, Len(p5), body.name)
    BY <1>6, <1>13, TwoParts, PartsLie
  <1> HIDE DEF p6
  <1>15. p6[IdentitySize + 1] = flags
    <2>1. 1 \in 1 .. Len(one)
      BY <1>9
    <2> QED
      BY <1>9, <1>14, <2>1 DEF LiesAt
  <1> PICK a \in {0, 8}, b \in {0, 2}, c \in {0, 2} :
         a = Len(body.position) /\ b = Len(body.extra1) /\ c = Len(body.extra2)
    BY <1>3, <1>4, <1>5
  <1>16. /\ PositionAt = IdentitySize + 1
         /\ Extra1At(flags) = IdentitySize + 1 + a
         /\ Extra2At(flags) = IdentitySize + 1 + a + b
         /\ NameAt(flags) = IdentitySize + 1 + a + b + c
    <2>1. PositionAt = IdentitySize + 1
      BY DEF PositionAt
    <2>2. Extra1At(flags) = IdentitySize + 1 + a
      BY <1>3, <1>7, <2>1 DEF Extra1At
    <2>3. Extra2At(flags) = IdentitySize + 1 + a + b
      BY <1>4, <1>7, <2>2 DEF Extra2At
    <2>4. NameAt(flags) = IdentitySize + 1 + a + b + c
      BY <1>5, <1>7, <2>3 DEF NameAt
    <2> QED
      BY <2>1, <2>2, <2>3, <2>4
  <1>17. /\ NameAt(flags) \in IdentitySize + 1 .. IdentitySize + 13
         /\ a = 8 => PositionAt + 8 <= NameAt(flags)
         /\ b = 2 => Extra1At(flags) + 2 <= NameAt(flags)
         /\ c = 2 => Extra2At(flags) + 2 <= NameAt(flags)
    BY ONLY <1>16, Sizes, a \in {0, 8}, b \in {0, 2}, c \in {0, 2}
  <1>18. /\ HasPosition(flags) => a = 8
         /\ HasExtra1(flags) => b = 2
         /\ HasExtra2(flags) => c = 2
    BY <1>3, <1>4, <1>5, <1>7
  <1>19. /\ LiesAt(p6, PositionAt, body.position)
         /\ LiesAt(p6, Extra1At(flags), body.extra1)
         /\ LiesAt(p6, Extra2At(flags), body.extra2)
         /\ LiesAt(p6, NameAt(flags), body.name)
         /\ Len(p6) = NameAt(flags) + Len(body.name)
    BY <1>13, <1>14, <1>16
  <1>20. AdvertLaidOut(p6, body, flags)
    BY <1>2, <1>7, <1>14, <1>15, <1>17, <1>18, <1>19 DEF AdvertLaidOut
  <1> QED
    BY <1>7, <1>8, <1>20

(***************************************************************************)
(* What the decoder reads from the first k bytes of an advert.             *)
(***************************************************************************)
AdvertRead(payload, k, flags) ==
    [identity   |-> Slice(payload, 0, IdentitySize),
     role       |-> flags % 16,
     position   |-> IF HasPosition(flags) THEN Slice(payload, PositionAt, 8) ELSE <<>>,
     extra1     |-> IF HasExtra1(flags) THEN Slice(payload, Extra1At(flags), 2) ELSE <<>>,
     extra2     |-> IF HasExtra2(flags) THEN Slice(payload, Extra2At(flags), 2) ELSE <<>>,
     name_valid |-> HasName(flags),
     name       |-> IF HasName(flags)
                    THEN Slice(payload, NameAt(flags), NameLength(k, flags)) ELSE <<>>]

(***************************************************************************)
(* An advert cut off inside its identity is taken for one without flags.   *)
(***************************************************************************)
LEMMA AdvertCutShort ==
    ASSUME NEW bytes \in Seq(Byte), Len(bytes) <= MAX_PAYLOAD_SIZE,
           NEW identity, LiesAt(bytes, 0, identity), Len(identity) = IdentitySize,
           NEW k \in 0 .. IdentitySize, k <= Len(bytes),
           NEW payload, payload = PayloadWith(SubSeq(bytes, 1, k))
    PROVE  AdvertDeserialize(payload, k)
              = [result |-> 0,
                 advert |-> [identity   |-> ClearedBehind(identity, k),
                             role       |-> 0,
                             position   |-> <<>>, extra1 |-> <<>>, extra2 |-> <<>>,
                             name_valid |-> FALSE,
                             name       |-> <<>>]]
  <1>1. /\ Len(bytes) \in Nat /\ k \in Nat /\ k \in 0 .. Len(bytes)
        /\ IdentitySize \in Nat /\ IdentitySize < MAX_PAYLOAD_SIZE /\ MAX_PAYLOAD_SIZE \in Nat
    BY Sizes
  <1>2. /\ SubSeq(bytes, 1, k) \in Seq(Byte) /\ Len(SubSeq(bytes, 1, k)) = k
        /\ k <= MAX_PAYLOAD_SIZE
        /\ \A i \in 0 .. k - 1 : payload[i] = bytes[i + 1]
        /\ \A i \in k .. MAX_PAYLOAD_SIZE - 1 : payload[i] = 0
    <2>1. k \in 0 .. MAX_PAYLOAD_SIZE => k <= MAX_PAYLOAD_SIZE
      BY <1>1
    <2> QED
      BY <1>1, <2>1, CutFacts
  <1>3. (IF (k - IdentitySize) % ByteSize > 0 THEN payload[IdentitySize] ELSE 0) = 0
    <2> DEFINE cut == SubSeq(bytes, 1, k)
    <2>1. cut \in Seq(Byte) /\ Len(cut) <= MAX_PAYLOAD_SIZE /\ Len(cut) = k
          /\ payload = PayloadWith(cut) /\ ~(k > IdentitySize)
      BY <1>1, <1>2
    <2> HIDE DEF cut
    <2>2. (IF (Len(cut) - IdentitySize) % ByteSize > 0
           THEN PayloadWith(cut)[IdentitySize] ELSE 0)
             = IF Len(cut) > IdentitySize THEN cut[IdentitySize + 1] ELSE 0
      BY ONLY <2>1, AdvertFlags
    <2> QED
      BY <2>1, <2>2
  <1>4. /\ ~HasPosition(0) /\ ~HasExtra1(0) /\ ~HasExtra2(0) /\ ~HasName(0)
        /\ HasName(0) = FALSE /\ 0 % 16 = 0
    BY DEF HasPosition, HasExtra1, HasExtra2, HasName
  <1>5. AcceptsAdvert(k, 0)
    BY <1>4 DEF AcceptsAdvert
  <1>6. AdvertDeserialize(payload, k) = [result |-> 0, advert |-> AdvertRead(payload, k, 0)]
    BY <1>3, <1>5 DEF AdvertDeserialize, AdvertRead
  <1>7. AdvertRead(payload, k, 0)
           = [identity |-> Slice(payload, 0, IdentitySize), role |-> 0,
              position |-> <<>>, extra1 |-> <<>>, extra2 |-> <<>>,
              name_valid |-> FALSE, name |-> <<>>]
    BY <1>4 DEF AdvertRead
  <1>8. Slice(payload, 0, IdentitySize) = ClearedBehind(identity, k)
    <2>1. /\ identity \in Seq(Byte)
          /\ \A i \in 1 .. IdentitySize : bytes[0 + i] = identity[i]
      BY DEF LiesAt
    <2>2. DOMAIN identity = 1 .. IdentitySize
      BY <2>1, LenProperties
    <2>3. ASSUME NEW i \in 1 .. IdentitySize
          PROVE  payload[0 + i - 1] = IF i <= k THEN identity[i] ELSE 0
      <3>1. CASE i <= k
        <4>1. 0 + i - 1 \in 0 .. k - 1 /\ 0 + i - 1 + 1 = i /\ 0 + i = i
          BY <1>1, <3>1
        <4> QED
          BY <1>2, <2>1, <3>1, <4>1
      <3>2. CASE ~(i <= k)
        <4>1. 0 + i - 1 \in k .. MAX_PAYLOAD_SIZE - 1
          BY <1>1, <3>2
        <4> QED
          BY <1>2, <3>2, <4>1
      <3> QED
        BY <3>1, <3>2
    <2> QED
      BY <2>2, <2>3 DEF Slice, ClearedBehind
  <1> QED
    BY <1>6, <1>7, <1>8

(***************************************************************************)
(* The encoding of an advert, cut off behind its flags.                    *)
(***************************************************************************)
CutBehindFlags(bytes, advert, flags, k) ==
    /\ advert \in Adverts /\ Len(advert.name) <= MAX_NAME_SIZE
    /\ ~advert.name_valid => advert.name = <<>>
    /\ AdvertLaidOut(bytes, advert, flags)
    /\ k \in IdentitySize + 1 .. Len(bytes)

(***************************************************************************)
(* It loses a part of its name, or is rejected for the field that is not   *)
(* there.                                                                  *)
(***************************************************************************)
NameCut(bytes, advert, flags, k, n) ==
    LET d == AdvertDeserialize(PayloadWith(SubSeq(bytes, 1, k)), k)
    IN  /\ k < NameAt(flags) => d = Rejected
        /\ k >= NameAt(flags) =>
              /\ d = [result |-> 0,
                      advert |-> [identity   |-> advert.identity,
                                  role       |-> advert.role,
                                  position   |-> advert.position,
                                  extra1     |-> advert.extra1,
                                  extra2     |-> advert.extra2,
                                  name_valid |-> advert.name_valid,
                                  name       |-> SubSeq(advert.name, 1, n)]]
              /\ n \in 0 .. Len(advert.name)
              /\ Len(SubSeq(advert.name, 1, n)) = n
              /\ IsPrefixOf(SubSeq(advert.name, 1, n), advert.name)
              /\ n = Len(advert.name) => SubSeq(advert.name, 1, n) = advert.name

(***************************************************************************)
(* What is left of an advert cut off behind its flags.                     *)
(***************************************************************************)
LEMMA AdvertCutBehindFlags ==
    ASSUME NEW advert, NEW bytes, NEW flags, NEW k, CutBehindFlags(bytes, advert, flags, k)
    PROVE  NameCut(bytes, advert, flags, k, k - NameAt(flags))
  <1> SUFFICES ASSUME advert \in Adverts, Len(advert.name) <= MAX_NAME_SIZE,
                      ~advert.name_valid => advert.name = <<>>,
                      AdvertLaidOut(bytes, advert, flags),
                      k \in IdentitySize + 1 .. Len(bytes),
                      NEW payload, payload = PayloadWith(SubSeq(bytes, 1, k)),
                      NEW n, n = k - NameAt(flags)
               PROVE  /\ k < NameAt(flags) => AdvertDeserialize(payload, k) = Rejected
                      /\ k >= NameAt(flags) =>
                            /\ AdvertDeserialize(payload, k)
                                  = [result |-> 0,
                                     advert |-> [identity   |-> advert.identity,
                                                 role       |-> advert.role,
                                                 position   |-> advert.position,
                                                 extra1     |-> advert.extra1,
                                                 extra2     |-> advert.extra2,
                                                 name_valid |-> advert.name_valid,
                                                 name       |-> SubSeq(advert.name, 1, n)]]
                            /\ n \in 0 .. Len(advert.name)
                            /\ Len(SubSeq(advert.name, 1, n)) = n
                            /\ IsPrefixOf(SubSeq(advert.name, 1, n), advert.name)
                            /\ n = Len(advert.name) => SubSeq(advert.name, 1, n) = advert.name
    BY DEF CutBehindFlags, NameCut
  <1>1. /\ advert.name \in Seq(Byte) /\ Len(advert.name) \in Nat
        /\ advert.name_valid \in BOOLEAN
    <2>1. advert.name \in Seq(Byte \ {0}) /\ advert.name_valid \in BOOLEAN
      BY DEF Adverts
    <2>2. advert.name \in Seq(Byte)
      BY <2>1, NameTextWhole
    <2> QED
      BY <2>1, <2>2, LenProperties
  <1>2. /\ bytes \in Seq(Byte) /\ Len(bytes) \in Nat /\ flags \in Byte
        /\ NameAt(flags) \in IdentitySize + 1 .. IdentitySize + 13
        /\ Len(bytes) = NameAt(flags) + Len(advert.name)
        /\ bytes[IdentitySize + 1] = flags
    BY DEF AdvertLaidOut
  <1>3. /\ Len(bytes) <= MAX_PAYLOAD_SIZE /\ k \in 0 .. Len(bytes)
        /\ k \in IdentitySize + 1 .. MAX_PAYLOAD_SIZE /\ k > IdentitySize
        /\ NameAt(flags) \in Nat
    <2> PICK i \in Nat, m \in Nat, l \in Nat :
           i = IdentitySize /\ m = MAX_PAYLOAD_SIZE /\ l = Len(advert.name)
      BY ONLY <1>1, Sizes
    <2>4. NameAt(flags) \in i + 1 .. i + 13
      BY <1>2
    <2> PICK at \in Nat : at = NameAt(flags)
      BY ONLY <2>4, i \in Nat
    <2>5. i + 13 + MAX_NAME_SIZE <= m /\ l <= MAX_NAME_SIZE /\ MAX_NAME_SIZE \in Nat
      BY Sizes
    <2>1. at + l <= m
      BY ONLY <2>4, <2>5, at = NameAt(flags), at \in Nat, l \in Nat, i \in Nat, m \in Nat
    <2>2. Len(bytes) = at + l /\ k \in i + 1 .. at + l
      BY <1>2
    <2>3. k \in 0 .. at + l /\ k \in i + 1 .. m /\ k > i
      BY ONLY <2>1, <2>2, at \in Nat, l \in Nat, i \in Nat, m \in Nat
    <2> QED
      BY ONLY <2>1, <2>2, <2>3, at \in Nat, at = NameAt(flags), i = IdentitySize,
              m = MAX_PAYLOAD_SIZE
  <1>4. (IF (k - IdentitySize) % ByteSize > 0 THEN payload[IdentitySize] ELSE 0) = flags
    <2> DEFINE cut == SubSeq(bytes, 1, k)
    <2>1. /\ cut \in Seq(Byte) /\ Len(cut) = k /\ \A i \in 1 .. k : cut[i] = bytes[i]
      BY <1>2, <1>3, CutFacts
    <2>2. Len(cut) <= MAX_PAYLOAD_SIZE /\ payload = PayloadWith(cut)
      BY <1>3, <2>1, Sizes
    <2>3. IdentitySize + 1 \in 1 .. k
      BY <1>3, Sizes
    <2>4. cut[IdentitySize + 1] = flags
      BY <1>2, <2>1, <2>3
    <2> HIDE DEF cut
    <2>5. (IF (Len(cut) - IdentitySize) % ByteSize > 0
           THEN PayloadWith(cut)[IdentitySize] ELSE 0)
             = IF Len(cut) > IdentitySize THEN cut[IdentitySize + 1] ELSE 0
      BY ONLY <2>1, <2>2, AdvertFlags
    <2> QED
      BY <1>3, <2>1, <2>2, <2>4, <2>5
  <1>5. /\ AcceptsAdvert(k, flags) <=>
              /\ NameAt(flags) <= k
              /\ HasName(flags) => k - NameAt(flags) <= MAX_NAME_SIZE
        /\ NameAt(flags) <= k => NameLength(k, flags) = k - NameAt(flags)
    BY <1>2, <1>3, AdvertAccepted
  <1>6. CASE k < NameAt(flags)
    <2>1. ~AcceptsAdvert(k, flags)
      BY <1>3, <1>5, <1>6
    <2>2. AdvertDeserialize(payload, k) = Rejected
      BY <1>4, <2>1 DEF AdvertDeserialize
    <2> QED
      BY <1>3, <1>6, <2>2
  <1>7. CASE k >= NameAt(flags)
    <2>1. n \in 0 .. Len(advert.name) /\ n <= MAX_NAME_SIZE /\ NameAt(flags) + n <= k
      <3> PICK at \in Nat, l \in Nat, m \in Nat :
             at = NameAt(flags) /\ l = Len(advert.name) /\ m = MAX_NAME_SIZE
        BY ONLY <1>1, <1>3, Sizes
      <3>2. k \in 0 .. at + l /\ at <= k
        BY ONLY <1>2, <1>3, <1>7, at = NameAt(flags), l = Len(advert.name)
      <3>3. l <= m /\ n = k - at
        OBVIOUS
      <3>1. k \in Nat /\ k <= at + l /\ at <= k /\ l <= m /\ n = k - at
        BY ONLY <3>2, <3>3, at \in Nat, l \in Nat
      <3>4. n \in 0 .. l /\ n <= m /\ at + n <= k
        BY ONLY <3>1, at \in Nat, l \in Nat, m \in Nat
      <3> QED
        BY ONLY <3>4, at = NameAt(flags), l = Len(advert.name), m = MAX_NAME_SIZE
    <2>2. AcceptsAdvert(k, flags) /\ NameLength(k, flags) = n
      BY <1>3, <1>5, <1>7, <2>1
    <2>3. AdvertDeserialize(payload, k)
             = [result |-> 0, advert |-> AdvertRead(payload, k, flags)]
      BY <1>4, <2>2 DEF AdvertDeserialize, AdvertRead
    <2>4. ASSUME NEW at, NEW field, LiesAt(bytes, at, field), at + Len(field) <= NameAt(flags)
          PROVE  Slice(payload, at, Len(field)) = field
      <3>1. at \in Nat /\ field \in Seq(Byte) /\ Len(field) \in 0 .. Len(field)
        BY <2>4 DEF LiesAt
      <3>2. at + Len(field) <= k
        BY <1>3, <1>7, <2>4, <3>1
      <3>4. \A x \in 0 .. Len(field) : at + x <= k =>
               Slice(PayloadWith(SubSeq(bytes, 1, k)), at, x) = SubSeq(field, 1, x)
        BY ONLY <1>2, <1>3, <2>4, FieldRead
      <3>3. Slice(payload, at, Len(field)) = SubSeq(field, 1, Len(field))
        BY ONLY <3>1, <3>2, <3>4, payload = PayloadWith(SubSeq(bytes, 1, k))
      <3> QED
        BY <3>1, <3>3, SubSeqFull
    <2>5. Slice(payload, 0, IdentitySize) = advert.identity
      <3>1. LiesAt(bytes, 0, advert.identity) /\ Len(advert.identity) = IdentitySize
        BY DEF AdvertLaidOut
      <3> PICK i \in Nat : i = IdentitySize
        BY Sizes
      <3>3. NameAt(flags) \in i + 1 .. i + 13
        BY <1>2
      <3>2. 0 + IdentitySize <= NameAt(flags)
        BY ONLY <3>3, i \in Nat, i = IdentitySize
      <3>4. 0 + Len(advert.identity) <= NameAt(flags)
        BY ONLY <3>1, <3>2
      <3>5. Slice(payload, 0, Len(advert.identity)) = advert.identity
        BY ONLY <2>4, <3>1, <3>4
      <3> QED
        BY ONLY <3>1, <3>5
    <2>6. (IF HasPosition(flags) THEN Slice(payload, PositionAt, 8) ELSE <<>>)
             = advert.position
      <3>1. CASE HasPosition(flags)
        <4>1. /\ LiesAt(bytes, PositionAt, advert.position) /\ Len(advert.position) = 8
              /\ PositionAt + Len(advert.position) <= NameAt(flags)
          BY <3>1 DEF AdvertLaidOut
        <4> QED
          BY <2>4, <3>1, <4>1
      <3>2. CASE ~HasPosition(flags)
        BY <3>2 DEF AdvertLaidOut
      <3> QED
        BY <3>1, <3>2
    <2>7. (IF HasExtra1(flags) THEN Slice(payload, Extra1At(flags), 2) ELSE <<>>)
             = advert.extra1
      <3>1. CASE HasExtra1(flags)
        <4>1. /\ LiesAt(bytes, Extra1At(flags), advert.extra1) /\ Len(advert.extra1) = 2
              /\ Extra1At(flags) + Len(advert.extra1) <= NameAt(flags)
          BY <3>1 DEF AdvertLaidOut
        <4> QED
          BY <2>4, <3>1, <4>1
      <3>2. CASE ~HasExtra1(flags)
        BY <3>2 DEF AdvertLaidOut
      <3> QED
        BY <3>1, <3>2
    <2>8. (IF HasExtra2(flags) THEN Slice(payload, Extra2At(flags), 2) ELSE <<>>)
             = advert.extra2
      <3>1. CASE HasExtra2(flags)
        <4>1. /\ LiesAt(bytes, Extra2At(flags), advert.extra2) /\ Len(advert.extra2) = 2
              /\ Extra2At(flags) + Len(advert.extra2) <= NameAt(flags)
          BY <3>1 DEF AdvertLaidOut
        <4> QED
          BY <2>4, <3>1, <4>1
      <3>2. CASE ~HasExtra2(flags)
        BY <3>2 DEF AdvertLaidOut
      <3> QED
        BY <3>1, <3>2
    <2>9. /\ Slice(payload, NameAt(flags), n) = SubSeq(advert.name, 1, n)
          /\ n = Len(advert.name) => SubSeq(advert.name, 1, n) = advert.name
          /\ Len(SubSeq(advert.name, 1, n)) = n
          /\ IsPrefixOf(SubSeq(advert.name, 1, n), advert.name)
      <3>1. LiesAt(bytes, NameAt(flags), advert.name)
        BY DEF AdvertLaidOut
      <3> QED
        BY ONLY <1>2, <1>3, <2>1, <3>1, payload = PayloadWith(SubSeq(bytes, 1, k)), FieldRead
    <2>10. (IF HasName(flags) THEN Slice(payload, NameAt(flags), n) ELSE <<>>)
              = SubSeq(advert.name, 1, n)
      <3>1. CASE HasName(flags)
        BY <2>9, <3>1
      <3>2. CASE ~HasName(flags)
        <4>1. advert.name = <<>>
          BY <3>2 DEF AdvertLaidOut
        <4>2. n = Len(advert.name)
          BY <2>1, <4>1
        <4> QED
          BY <2>9, <3>2, <4>1, <4>2
      <3> QED
        BY <3>1, <3>2
    <2>11. flags % 16 = advert.role /\ HasName(flags) = advert.name_valid
      BY <1>1 DEF AdvertLaidOut, HasName
    <2> DEFINE cut == SubSeq(advert.name, 1, n)
    <2>12. AdvertRead(payload, k, flags)
             = [identity |-> advert.identity, role |-> advert.role,
                position |-> advert.position, extra1 |-> advert.extra1,
                extra2 |-> advert.extra2, name_valid |-> advert.name_valid,
                name |-> cut]
      BY <2>2, <2>5, <2>6, <2>7, <2>8, <2>10, <2>11 DEF AdvertRead
    <2>13. AdvertDeserialize(payload, k)
              = [result |-> 0,
                 advert |-> [identity |-> advert.identity, role |-> advert.role,
                             position |-> advert.position, extra1 |-> advert.extra1,
                             extra2 |-> advert.extra2, name_valid |-> advert.name_valid,
                             name |-> SubSeq(advert.name, 1, n)]]
      BY ONLY <2>3, <2>12
    <2>14. ~(k < NameAt(flags))
      <3> PICK at \in Nat : at = NameAt(flags)
        BY <1>3
      <3>1. k \in Nat /\ k >= at
        BY <1>3, <1>7
      <3> QED
        BY ONLY <3>1, at \in Nat, at = NameAt(flags)
    <2> QED
      BY ONLY <2>1, <2>9, <2>13, <2>14
  <1> QED
    BY <1>3, <1>6, <1>7

(***************************************************************************)
(* Both together: what is left of an advert that was cut off.              *)
(***************************************************************************)
LEMMA AdvertCut ==
    ASSUME NEW body \in Adverts, Len(body.name) <= MAX_NAME_SIZE,
           ~body.name_valid => body.name = <<>>,
           NEW bytes, bytes = AdvertBytes(body)
    PROVE  /\ bytes \in Seq(Byte) /\ Len(bytes) <= MAX_PAYLOAD_SIZE
           /\ \A k \in 0 .. Len(bytes) :
                 \A d : d = AdvertDeserialize(PayloadWith(SubSeq(bytes, 1, k)), k) =>
                    /\ k = Len(bytes) => d = [result |-> 0, advert |-> body]
                    /\ d.result >= 0 => CutBody(ADVERT, d.advert, body, Len(bytes) - k)
  <1>1. PICK flags \in Byte : AdvertLaidOut(bytes, body, flags)
    BY AdvertStores
  <1>2. body = [identity   |-> body.identity,
                role       |-> body.role,
                position   |-> body.position,
                extra1     |-> body.extra1,
                extra2     |-> body.extra2,
                name_valid |-> body.name_valid,
                name       |-> body.name]
    BY DEF Adverts
  <1>3. /\ bytes \in Seq(Byte) /\ Len(bytes) \in Nat
        /\ NameAt(flags) \in IdentitySize + 1 .. IdentitySize + 13
        /\ Len(bytes) = NameAt(flags) + Len(body.name)
        /\ LiesAt(bytes, 0, body.identity) /\ Len(body.identity) = IdentitySize
    BY <1>1 DEF AdvertLaidOut
  <1>4. Len(body.name) \in Nat
    <2>1. body.name \in Seq(Byte \ {0})
      BY DEF Adverts
    <2> QED
      BY <2>1, LenProperties
  <1> PICK i \in Nat, m \in Nat, l \in Nat :
         i = IdentitySize /\ m = MAX_PAYLOAD_SIZE /\ l = Len(body.name)
    BY ONLY <1>4, Sizes
  <1>5. NameAt(flags) \in i + 1 .. i + 13
    BY <1>3
  <1> PICK at \in Nat : at = NameAt(flags)
    BY ONLY <1>5, i \in Nat
  <1>6. Len(bytes) = at + l /\ at + l <= m /\ at >= i + 1
    <2>1. /\ IdentitySize + 13 + MAX_NAME_SIZE <= MAX_PAYLOAD_SIZE /\ MAX_NAME_SIZE \in Nat
          /\ l <= MAX_NAME_SIZE
      BY Sizes
    <2>2. i + 13 + l <= m
      BY ONLY <2>1, i = IdentitySize, m = MAX_PAYLOAD_SIZE, i \in Nat, m \in Nat, l \in Nat
    <2>3. Len(bytes) = at + l /\ at \in i + 1 .. i + 13
      BY <1>3, <1>5
    <2> QED
      BY ONLY <2>2, <2>3, i \in Nat, m \in Nat, l \in Nat, at \in Nat
  <1>7. ASSUME NEW k \in 0 .. Len(bytes), NEW d,
               d = AdvertDeserialize(PayloadWith(SubSeq(bytes, 1, k)), k)
        PROVE  /\ k = Len(bytes) => d = [result |-> 0, advert |-> body]
               /\ d.result >= 0 => CutBody(ADVERT, d.advert, body, Len(bytes) - k)
    <2>0. k \in 0 .. at + l
      BY <1>6
    <2>1. CASE k <= i
      <3> DEFINE got == [identity   |-> ClearedBehind(body.identity, k),
                         role       |-> 0,
                         position   |-> <<>>, extra1 |-> <<>>, extra2 |-> <<>>,
                         name_valid |-> FALSE,
                         name       |-> <<>>]
      <3>1. d = [result |-> 0, advert |-> got]
        <4>1. k \in 0 .. IdentitySize /\ k <= Len(bytes) /\ Len(bytes) <= MAX_PAYLOAD_SIZE
          BY <1>6, <2>0, <2>1
        <4> QED
          BY ONLY <1>3, <1>7, <4>1, AdvertCutShort
      <3>2. k # Len(bytes)
        <4>1. k # at + l
          BY ONLY <1>6, <2>0, <2>1, i \in Nat, at \in Nat, l \in Nat
        <4> QED
          BY ONLY <1>6, <4>1
      <3>3. CutBody(ADVERT, got, body, Len(bytes) - k)
        <4>1. k \in 0 .. IdentitySize
          BY <2>0, <2>1
        <4>2. /\ \E n \in 0 .. IdentitySize : got.identity = ClearedBehind(body.identity, n)
              /\ <<got.role, got.position, got.extra1, got.extra2, got.name_valid>>
                    = <<0, <<>>, <<>>, <<>>, FALSE>>
          BY <4>1
        <4> HIDE DEF got
        <4> QED
          BY ONLY <4>2 DEF CutBody, REQ, ACK, ADVERT, GRP_TXT
      <3> HIDE DEF got
      <3>4. d.advert = got
        BY ONLY <3>1
      <3> QED
        BY ONLY <3>2, <3>3, <3>4
    <2>2. CASE k > i
      <3> DEFINE n   == k - NameAt(flags)
                 got == [identity   |-> body.identity,
                         role       |-> body.role,
                         position   |-> body.position,
                         extra1     |-> body.extra1,
                         extra2     |-> body.extra2,
                         name_valid |-> body.name_valid,
                         name       |-> SubSeq(body.name, 1, n)]
      <3>1. k \in IdentitySize + 1 .. Len(bytes)
        <4>1. k \in i + 1 .. at + l
          BY ONLY <2>0, <2>2, i \in Nat, at \in Nat, l \in Nat
        <4> QED
          BY <1>6, <4>1
      <3>2. /\ k < NameAt(flags) => d = Rejected
            /\ k >= NameAt(flags) =>
                  /\ d = [result |-> 0, advert |-> got]
                  /\ n \in 0 .. Len(body.name)
                  /\ Len(SubSeq(body.name, 1, n)) = n
                  /\ IsPrefixOf(SubSeq(body.name, 1, n), body.name)
                  /\ n = Len(body.name) => SubSeq(body.name, 1, n) = body.name
        <4>1. CutBehindFlags(bytes, body, flags, k)
          BY <1>1, <3>1 DEF CutBehindFlags
        <4>2. NameCut(bytes, body, flags, k, n)
          BY <4>1, AdvertCutBehindFlags
        <4> QED
          BY <1>7, <4>2 DEF NameCut
      <3>3. CASE k < at
        <4>1. k # Len(bytes) /\ d = Rejected
          <5>1. k # at + l
            BY ONLY <2>0, <3>3, at \in Nat, l \in Nat
          <5> QED
            BY <1>6, <3>2, <3>3, <5>1
        <4>2. ~(d.result >= 0)
          BY ONLY <4>1 DEF Rejected
        <4> QED
          BY ONLY <4>1, <4>2
      <3>4. CASE k >= at
        <4>1. /\ d = [result |-> 0, advert |-> got]
              /\ Len(SubSeq(body.name, 1, n)) = n
              /\ IsPrefixOf(SubSeq(body.name, 1, n), body.name)
              /\ n = Len(body.name) => SubSeq(body.name, 1, n) = body.name
          BY <3>2, <3>4
        <4>2. ASSUME k = Len(bytes) PROVE d = [result |-> 0, advert |-> body]
          <5>1. n = Len(body.name)
            <6>1. k - at = l
              BY ONLY <1>6, <4>2, at \in Nat, l \in Nat
            <6> QED
              BY ONLY <6>1, at = NameAt(flags), l = Len(body.name)
          <5>2. got = body
            BY ONLY <1>2, <4>1, <5>1
          <5> QED
            BY <4>1, <5>2
        <4>3. CutBody(ADVERT, got, body, Len(bytes) - k)
          <5>1. n = Len(body.name) - (Len(bytes) - k)
            <6>1. k - at = l - ((at + l) - k)
              BY ONLY <2>0, at \in Nat, l \in Nat
            <6> QED
              BY ONLY <1>6, <6>1, at = NameAt(flags), l = Len(body.name)
          <5> DEFINE cut == SubSeq(body.name, 1, n)
          <5>2. got.name = cut
            OBVIOUS
          <5>3. [got EXCEPT !.name = <<>>] = [body EXCEPT !.name = <<>>]
            BY ONLY <1>2
          <5> HIDE DEF got, n
          <5>4. Len(got.name) = Len(body.name) - (Len(bytes) - k)
            BY ONLY <4>1, <5>1, <5>2
          <5>5. IsPrefixOf(got.name, body.name)
            BY ONLY <4>1, <5>2
          <5> QED
            BY ONLY <5>3, <5>4, <5>5 DEF CutBody, REQ, ACK, ADVERT, GRP_TXT
        <4> HIDE DEF got
        <4>4. d.advert = got
          BY ONLY <4>1
        <4> QED
          BY ONLY <4>2, <4>3, <4>4
      <3> QED
        BY ONLY <2>0, <3>3, <3>4, at \in Nat, l \in Nat
    <2> QED
      BY ONLY <2>0, <2>1, <2>2, i \in Nat, at \in Nat, l \in Nat
  <1> QED
    BY <1>3, <1>6, <1>7

-----------------------------------------------------------------------------

(***************************************************************************)
(* What a payload codec does with the first k bytes of what it encoded.    *)
(***************************************************************************)
CutDecoded(type, body, bytes) ==
    /\ bytes \in Seq(Byte) /\ Len(bytes) <= MAX_PAYLOAD_SIZE
    /\ type = GRP_TXT => GrpTxtCopyFits(Len(bytes))
    /\ \A k \in 0 .. Len(bytes) : \A message :
          (/\ message.type = type /\ message.payload_length = k
           /\ message.payload = PayloadWith(SubSeq(bytes, 1, k))
           /\ type = GRP_TXT => GrpTxtCopyFits(k)) =>
             LET d == DeserializePayload(message)
             IN  /\ k = Len(bytes) => d = [result |-> 0, body |-> body]
                 /\ d.result >= 0 => CutBody(type, d.body, body, Len(bytes) - k)

(***************************************************************************)
(* Each codec decodes what it encoded, and only what is missing is cut.    *)
(***************************************************************************)
LEMMA PayloadCut ==
    ASSUME NEW type, NEW body, BodyFits(type, body),
           SerializePayload(type, body).result >= 0,
           NEW bytes, bytes = SerializePayload(type, body).bytes
    PROVE  CutDecoded(type, body, bytes)
  <1>1. CASE type = REQ
    <2>1. /\ body \in Requests /\ ClearedFrom(body.ciphertext, body.ciphertext_length)
          /\ RequestSerialize(body).result >= 0 /\ bytes = RequestSerialize(body).bytes
      BY <1>1 DEF BodyFits, SerializePayload, REQ, ACK, ADVERT, GRP_TXT
    <2>2. /\ bytes \in Seq(Byte) /\ Len(bytes) <= MAX_PAYLOAD_SIZE
          /\ \A k \in 0 .. Len(bytes) :
                \A d : d = RequestDeserialize(PayloadWith(SubSeq(bytes, 1, k)), k) =>
                   /\ k = Len(bytes) => d = [result |-> 0, request |-> body]
                   /\ d.result >= 0 => CutBody(REQ, d.request, body, Len(bytes) - k)
      BY ONLY <2>1, RequestCut
    <2>3. ASSUME NEW k \in 0 .. Len(bytes), NEW message,
                 message.type = type, message.payload_length = k,
                 message.payload = PayloadWith(SubSeq(bytes, 1, k)),
                 NEW d, d = DeserializePayload(message)
          PROVE  /\ k = Len(bytes) => d = [result |-> 0, body |-> body]
                 /\ d.result >= 0 => CutBody(type, d.body, body, Len(bytes) - k)
      <3> PICK r : r = RequestDeserialize(PayloadWith(SubSeq(bytes, 1, k)), k)
        OBVIOUS
      <3>1. /\ k = Len(bytes) => r = [result |-> 0, request |-> body]
            /\ r.result >= 0 => CutBody(REQ, r.request, body, Len(bytes) - k)
        BY <2>2
      <3>2. d = IF r.result < 0 THEN Rejected ELSE [result |-> 0, body |-> r.request]
        BY ONLY <1>1, <2>3, r = RequestDeserialize(PayloadWith(SubSeq(bytes, 1, k)), k)
           DEF DeserializePayload, REQ, ACK, ADVERT, GRP_TXT
      <3>3. r = Rejected \/ r.result = 0
        BY r = RequestDeserialize(PayloadWith(SubSeq(bytes, 1, k)), k) DEF RequestDeserialize
      <3>4. CASE r = Rejected
        <4>1. r.result = -1 /\ ~(r.result >= 0) /\ r.result < 0
          BY <3>4 DEF Rejected
        <4>2. ~(d.result >= 0)
          BY ONLY <3>2, <4>1 DEF Rejected
        <4>3. k # Len(bytes)
          BY <3>1, <4>1
        <4> QED
          BY ONLY <4>2, <4>3
      <3>5. CASE r.result = 0
        <4>1. ~(r.result < 0) /\ r.result >= 0
          BY <3>5
        <4>2. d = [result |-> 0, body |-> r.request] /\ d.body = r.request
          BY ONLY <3>2, <4>1
        <4>3. k = Len(bytes) => r.request = body
          BY ONLY <3>1
        <4> QED
          BY ONLY <1>1, <3>1, <4>1, <4>2, <4>3
      <3> QED
        BY ONLY <3>3, <3>4, <3>5
    <2>4. ~(type = GRP_TXT)
      BY <1>1 DEF REQ, GRP_TXT
    <2> QED
      BY ONLY <2>2, <2>3, <2>4 DEF CutDecoded
  <1>2. CASE type = ACK
    <2>1. body \in [crc : [1 .. 4 -> Byte]] /\ bytes = AckBytes(body)
      BY <1>2 DEF BodyFits, SerializePayload, Encoded, REQ, ACK, ADVERT, GRP_TXT
    <2>2. /\ bytes \in Seq(Byte) /\ Len(bytes) = 4
          /\ \A k \in 0 .. 4 :
                \A got : got = AckDeserialize(PayloadWith(SubSeq(bytes, 1, k)), k) =>
                   /\ k = 4 => got = body
                   /\ CutBody(ACK, got, body, 4 - k)
      BY ONLY <2>1, AckCut
    <2>3. ASSUME NEW k \in 0 .. Len(bytes), NEW message,
                 message.type = type, message.payload_length = k,
                 message.payload = PayloadWith(SubSeq(bytes, 1, k)),
                 NEW d, d = DeserializePayload(message)
          PROVE  /\ k = Len(bytes) => d = [result |-> 0, body |-> body]
                 /\ d.result >= 0 => CutBody(type, d.body, body, Len(bytes) - k)
      <3> PICK got : got = AckDeserialize(PayloadWith(SubSeq(bytes, 1, k)), k)
        OBVIOUS
      <3>1. d = [result |-> 0, body |-> got] /\ d.body = got
        BY <1>2, <2>3 DEF DeserializePayload, REQ, ACK, ADVERT, GRP_TXT
      <3>2. /\ k = 4 => got = body
            /\ CutBody(ACK, got, body, 4 - k)
        BY <2>2
      <3> QED
        BY ONLY <1>2, <2>2, <3>1, <3>2
    <2>4. ~(type = GRP_TXT) /\ Len(bytes) <= MAX_PAYLOAD_SIZE
      BY ONLY <1>2, <2>2, Sizes DEF ACK, GRP_TXT
    <2> QED
      BY ONLY <2>2, <2>3, <2>4 DEF CutDecoded
  <1>3. CASE type = ADVERT
    <2>1. /\ body \in Adverts /\ Len(body.name) <= MAX_NAME_SIZE
          /\ ~body.name_valid => body.name = <<>>
          /\ bytes = AdvertBytes(body)
      BY <1>3 DEF BodyFits, SerializePayload, Encoded, REQ, ACK, ADVERT, GRP_TXT
    <2>2. /\ bytes \in Seq(Byte) /\ Len(bytes) <= MAX_PAYLOAD_SIZE
          /\ \A k \in 0 .. Len(bytes) :
                \A d : d = AdvertDeserialize(PayloadWith(SubSeq(bytes, 1, k)), k) =>
                   /\ k = Len(bytes) => d = [result |-> 0, advert |-> body]
                   /\ d.result >= 0 => CutBody(ADVERT, d.advert, body, Len(bytes) - k)
      BY ONLY <2>1, AdvertCut
    <2>3. ASSUME NEW k \in 0 .. Len(bytes), NEW message,
                 message.type = type, message.payload_length = k,
                 message.payload = PayloadWith(SubSeq(bytes, 1, k)),
                 NEW d, d = DeserializePayload(message)
          PROVE  /\ k = Len(bytes) => d = [result |-> 0, body |-> body]
                 /\ d.result >= 0 => CutBody(type, d.body, body, Len(bytes) - k)
      <3> PICK r : r = AdvertDeserialize(PayloadWith(SubSeq(bytes, 1, k)), k)
        OBVIOUS
      <3>1. /\ k = Len(bytes) => r = [result |-> 0, advert |-> body]
            /\ r.result >= 0 => CutBody(ADVERT, r.advert, body, Len(bytes) - k)
        BY <2>2
      <3>2. d = IF r.result < 0 THEN Rejected ELSE [result |-> 0, body |-> r.advert]
        BY ONLY <1>3, <2>3, r = AdvertDeserialize(PayloadWith(SubSeq(bytes, 1, k)), k)
           DEF DeserializePayload, REQ, ACK, ADVERT, GRP_TXT
      <3>3. r = Rejected \/ r.result = 0
        BY r = AdvertDeserialize(PayloadWith(SubSeq(bytes, 1, k)), k) DEF AdvertDeserialize
      <3>4. CASE r = Rejected
        <4>1. r.result = -1 /\ ~(r.result >= 0) /\ r.result < 0
          BY <3>4 DEF Rejected
        <4>2. ~(d.result >= 0)
          BY ONLY <3>2, <4>1 DEF Rejected
        <4>3. k # Len(bytes)
          BY <3>1, <4>1
        <4> QED
          BY ONLY <4>2, <4>3
      <3>5. CASE r.result = 0
        <4>1. ~(r.result < 0) /\ r.result >= 0
          BY <3>5
        <4>2. d = [result |-> 0, body |-> r.advert] /\ d.body = r.advert
          BY ONLY <3>2, <4>1
        <4>3. k = Len(bytes) => r.advert = body
          BY ONLY <3>1
        <4> QED
          BY ONLY <1>3, <3>1, <4>1, <4>2, <4>3
      <3> QED
        BY ONLY <3>3, <3>4, <3>5
    <2>4. ~(type = GRP_TXT)
      BY <1>3 DEF ADVERT, GRP_TXT
    <2> QED
      BY ONLY <2>2, <2>3, <2>4 DEF CutDecoded
  <1>4. CASE type = GRP_TXT
    <2>1. /\ body \in GrpTxts /\ ClearedFrom(body.data, body.data_length)
          /\ bytes = GrpTxtBytes(body)
      BY <1>4 DEF BodyFits, SerializePayload, Encoded, REQ, ACK, ADVERT, GRP_TXT
    <2>2. /\ bytes \in Seq(Byte) /\ Len(bytes) <= MAX_PAYLOAD_SIZE
          /\ GrpTxtCopyFits(Len(bytes))
          /\ \A k \in 0 .. Len(bytes) :
                \A got : (/\ GrpTxtCopyFits(k)
                          /\ got = GrpTxtDeserialize(PayloadWith(SubSeq(bytes, 1, k)), k)) =>
                   /\ k = Len(bytes) => got = body
                   /\ CutBody(GRP_TXT, got, body, Len(bytes) - k)
      BY ONLY <2>1, GrpTxtCut
    <2>3. ASSUME NEW k \in 0 .. Len(bytes), NEW message,
                 message.type = type, message.payload_length = k,
                 message.payload = PayloadWith(SubSeq(bytes, 1, k)),
                 GrpTxtCopyFits(k),
                 NEW d, d = DeserializePayload(message)
          PROVE  /\ k = Len(bytes) => d = [result |-> 0, body |-> body]
                 /\ d.result >= 0 => CutBody(type, d.body, body, Len(bytes) - k)
      <3> PICK got : got = GrpTxtDeserialize(PayloadWith(SubSeq(bytes, 1, k)), k)
        OBVIOUS
      <3>1. d = [result |-> 0, body |-> got] /\ d.body = got
        BY <1>4, <2>3 DEF DeserializePayload, REQ, ACK, ADVERT, GRP_TXT
      <3>2. /\ k = Len(bytes) => got = body
            /\ CutBody(GRP_TXT, got, body, Len(bytes) - k)
        BY <2>2, <2>3
      <3> QED
        BY ONLY <1>4, <3>1, <3>2
    <2> QED
      BY ONLY <1>4, <2>2, <2>3 DEF CutDecoded
  <1>5. CASE type \notin {REQ, ACK, ADVERT, GRP_TXT}
    <2>1. body \in Seq(Byte) /\ Len(body) <= MAX_PAYLOAD_SIZE /\ bytes = body
      BY <1>5 DEF BodyFits, SerializePayload, Encoded
    <2>2. ASSUME NEW k \in 0 .. Len(bytes), NEW message,
                 message.type = type, message.payload_length = k,
                 message.payload = PayloadWith(SubSeq(bytes, 1, k)),
                 NEW d, d = DeserializePayload(message)
          PROVE  /\ k = Len(bytes) => d = [result |-> 0, body |-> body]
                 /\ d.result >= 0 => CutBody(type, d.body, body, Len(bytes) - k)
      <3> PICK got : got = Slice(PayloadWith(SubSeq(bytes, 1, k)), 0, k)
        OBVIOUS
      <3>1. d = [result |-> 0, body |-> got] /\ d.body = got
        BY <1>5, <2>2 DEF DeserializePayload
      <3>2. /\ k = Len(bytes) => got = bytes
            /\ CutBody(type, got, bytes, Len(bytes) - k)
        BY <1>5, <2>1, BytesCut
      <3> QED
        BY ONLY <2>1, <3>1, <3>2
    <2> QED
      BY ONLY <1>5, <2>1, <2>2 DEF CutDecoded
  <1> QED
    BY <1>1, <1>2, <1>3, <1>4, <1>5

-----------------------------------------------------------------------------

(***************************************************************************)
(* Where the payload of a content begins.                                  *)
(***************************************************************************)
StartOf(content) == PathAt(content.route) + Len(content.path)

(***************************************************************************)
(* What may be sent, field by field.                                       *)
(***************************************************************************)
LEMMA SendableFields ==
    ASSUME NEW content, Sendable(content)
    PROVE  /\ content = [type            |-> content.type,
                         route           |-> content.route,
                         version         |-> content.version,
                         transport_codes |-> content.transport_codes,
                         path            |-> content.path,
                         body            |-> content.body]
           /\ content.type \in 0 .. 15 /\ content.route \in 0 .. 3
           /\ content.version \in 0 .. 3
           /\ content.transport_codes = [i \in 0 .. 3 |-> 0]
           /\ content.path \in Seq(Byte) /\ Len(content.path) \in 0 .. MAX_PATH_SIZE
           /\ PathAt(content.route) \in {2, 4}
           /\ PathAt(content.route) = PathLengthAt(content.route) + 1
           /\ HasTransportCodes(content.route) <=> PathAt(content.route) = 4
           /\ BodyFits(content.type, content.body)
  <1>1. /\ content \in [type : 0 .. 15, route : 0 .. 3, version : 0 .. 3,
                        transport_codes : {[i \in 0 .. 3 |-> 0]},
                        path : Seq(Byte), body : {content.body}]
        /\ Len(content.path) <= MAX_PATH_SIZE
        /\ BodyFits(content.type, content.body)
    BY DEF Sendable
  <1>2. /\ content.type \in 0 .. 15 /\ content.route \in 0 .. 3
        /\ content.version \in 0 .. 3
        /\ content.transport_codes = [i \in 0 .. 3 |-> 0]
        /\ content.path \in Seq(Byte)
    BY ONLY <1>1
  <1>3. content = [type            |-> content.type,
                   route           |-> content.route,
                   version         |-> content.version,
                   transport_codes |-> content.transport_codes,
                   path            |-> content.path,
                   body            |-> content.body]
    BY ONLY <1>1
  <1>4. Len(content.path) \in 0 .. MAX_PATH_SIZE
    <2>1. Len(content.path) \in Nat
      BY <1>2, LenProperties
    <2> QED
      BY ONLY <1>1, <2>1, Sizes
  <1>5. /\ PathAt(content.route) \in {2, 4}
        /\ PathAt(content.route) = PathLengthAt(content.route) + 1
        /\ HasTransportCodes(content.route) <=> PathAt(content.route) = 4
    BY DEF PathAt, PathLengthAt
  <1> QED
    BY ONLY <1>1, <1>2, <1>3, <1>4, <1>5

(***************************************************************************)
(* The message that is serialized: what the encoder is given, and cleared  *)
(***************************************************************************)
MessageIs(m, content, bytes) ==
    /\ m \in Messages
    /\ m.route = content.route
    /\ m.path_length = Len(content.path) /\ m.path_length <= MAX_PATH_SIZE
    /\ m.payload_length = Len(bytes) /\ m.payload_length <= MAX_PAYLOAD_SIZE
    /\ Header(m) = content.route + 4 * content.type + 64 * content.version
    /\ m.path = [i \in 0 .. MAX_PATH_SIZE - 1 |->
                   IF i < Len(content.path) THEN content.path[i + 1] ELSE 0]
    /\ m.payload = PayloadWith(bytes)

(***************************************************************************)
(* It is one of the messages, with the content's fields.                   *)
(***************************************************************************)
LEMMA MessageOfTyped ==
    ASSUME NEW content, Sendable(content),
           NEW bytes \in Seq(Byte), Len(bytes) <= MAX_PAYLOAD_SIZE
    PROVE  MessageIs(MessageOf(content, bytes), content, bytes)
  <1> PICK m : m = MessageOf(content, bytes)
    OBVIOUS
  <1> DEFINE path == [i \in 0 .. MAX_PATH_SIZE - 1 |->
                        IF i < Len(content.path) THEN content.path[i + 1] ELSE 0]
  <1>1. /\ content.type \in 0 .. 15 /\ content.route \in 0 .. 3
        /\ content.version \in 0 .. 3
        /\ content.transport_codes = [i \in 0 .. 3 |-> 0]
        /\ content.path \in Seq(Byte) /\ Len(content.path) \in 0 .. MAX_PATH_SIZE
    BY SendableFields
  <1>2. Len(bytes) \in 0 .. MAX_PAYLOAD_SIZE /\ Len(bytes) \in 0 .. 255
    <2>1. Len(bytes) \in Nat /\ Len(bytes) <= MAX_PAYLOAD_SIZE
      BY LenProperties
    <2> PICK n \in Nat : n = Len(bytes)
      BY <2>1
    <2>2. n <= MAX_PAYLOAD_SIZE
      BY <2>1
    <2>3. n \in 0 .. MAX_PAYLOAD_SIZE /\ n \in 0 .. 255
      BY ONLY <2>2, n \in Nat, Sizes
    <2> QED
      BY <2>3
  <1>3. Len(bytes) % ByteSize = Len(bytes)
    <2> PICK n \in 0 .. 255 : n = Len(bytes)
      BY <1>2
    <2>1. n % 256 = n
      BY ONLY n \in 0 .. 255
    <2> QED
      BY <2>1 DEF ByteSize
  <1>4. m = [type            |-> content.type,
             route           |-> content.route,
             version         |-> content.version,
             transport_codes |-> content.transport_codes,
             path_length     |-> Len(content.path),
             path            |-> path,
             payload_length  |-> Len(bytes),
             payload         |-> PayloadWith(bytes)]
    BY <1>3 DEF MessageOf
  <1>5. PayloadWith(bytes) \in Payloads
    BY PayloadWithFacts
  <1>6. path \in Paths
    <2>1. ASSUME NEW i \in 0 .. MAX_PATH_SIZE - 1, i < Len(content.path)
          PROVE  content.path[i + 1] \in Byte
      <3>1. i + 1 \in 1 .. Len(content.path)
        BY ONLY <1>1, <2>1, Sizes, i \in 0 .. MAX_PATH_SIZE - 1
      <3> QED
        BY <1>1, <3>1, ElementOfSeq
    <2> QED
      BY <2>1, Bytes DEF Paths
  <1> HIDE DEF path
  <1>7. content.transport_codes \in [0 .. 3 -> Byte]
    BY <1>1, Bytes
  <1>8. Len(content.path) \in Byte /\ Len(bytes) \in Byte
    <2>1. \A x \in 0 .. MAX_PATH_SIZE : x \in 0 .. 255
      BY ONLY Sizes
    <2> QED
      BY ONLY <1>1, <1>2, <2>1, Bytes
  <1>9. m \in Messages
    BY ONLY <1>1, <1>4, <1>5, <1>6, <1>7, <1>8 DEF Messages
  <1>10. /\ m.route = content.route
         /\ m.path_length = Len(content.path) /\ m.path = path
         /\ m.payload_length = Len(bytes) /\ m.payload = PayloadWith(bytes)
         /\ Header(m) = content.route + 4 * content.type + 64 * content.version
    BY ONLY <1>4 DEF Header
  <1>11. Len(content.path) <= MAX_PATH_SIZE
    BY <1>1
  <1> QED
    BY ONLY <1>9, <1>10, <1>11, m = MessageOf(content, bytes), Len(bytes) <= MAX_PAYLOAD_SIZE
       DEF path, MessageIs

(***************************************************************************)
(* A buffer that holds the first `size' bytes of a packet.                 *)
(***************************************************************************)
HoldsStart(data, size, encoded) ==
    /\ data \in Buffers /\ size \in 0 .. encoded.size
    /\ \A i \in 0 .. size - 1 : data[i] = encoded.data[i]

(***************************************************************************)
(* What becomes of a packet whose end is missing.                          *)
(***************************************************************************)
PacketCutAt(content, bytes, data, size) ==
    /\ size < StartOf(content) => ~Accepts(data, size)
    /\ size >= StartOf(content) =>
          /\ Accepts(data, size)
          /\ MessageIn(data, size) = MessageOf(content, SubSeq(bytes, 1, size - StartOf(content)))

(***************************************************************************)
(* A packet cut off in front of its payload is rejected; cut off behind    *)
(* it, it is the message with the rest of the payload.                     *)
(***************************************************************************)
LEMMA PacketCut ==
    ASSUME NEW content, Sendable(content),
           NEW bytes \in Seq(Byte), Len(bytes) <= MAX_PAYLOAD_SIZE,
           NEW encoded, encoded = Serialize(MessageOf(content, bytes))
    PROVE  /\ encoded.data \in Buffers
           /\ encoded.size = StartOf(content) + Len(bytes)
           /\ encoded.size \in 0 .. MAX_TRANS_UNIT /\ StartOf(content) \in Nat
           /\ \A data, size : HoldsStart(data, size, encoded) =>
                 PacketCutAt(content, bytes, data, size)
  <1> PICK m : m = MessageOf(content, bytes)
    OBVIOUS
  <1>1. /\ m \in Messages
        /\ m.route = content.route
        /\ m.path_length = Len(content.path) /\ m.path_length <= MAX_PATH_SIZE
        /\ m.payload_length = Len(bytes) /\ m.payload_length <= MAX_PAYLOAD_SIZE
        /\ Header(m) = content.route + 4 * content.type + 64 * content.version
        /\ m.path = [i \in 0 .. MAX_PATH_SIZE - 1 |->
                       IF i < Len(content.path) THEN content.path[i + 1] ELSE 0]
        /\ m.payload = PayloadWith(bytes)
    <2>1. MessageIs(m, content, bytes)
      BY MessageOfTyped
    <2> QED
      BY <2>1 DEF MessageIs
  <1>2. Carries(encoded, m)
    BY <1>1, SerializeStores
  <1>3. /\ content.type \in 0 .. 15 /\ content.route \in 0 .. 3
        /\ content.version \in 0 .. 3
        /\ content.transport_codes = [i \in 0 .. 3 |-> 0]
        /\ content.path \in Seq(Byte) /\ Len(content.path) \in 0 .. MAX_PATH_SIZE
        /\ PathAt(content.route) \in {2, 4}
        /\ PathAt(content.route) = PathLengthAt(content.route) + 1
        /\ HasTransportCodes(content.route) <=> PathAt(content.route) = 4
    BY SendableFields
  <1>4. Len(bytes) \in Nat
    BY LenProperties
  <1> PICK P \in {2, 4}, p \in 0 .. MAX_PATH_SIZE, n \in 0 .. MAX_PAYLOAD_SIZE :
         P = PathAt(content.route) /\ p = Len(content.path) /\ n = Len(bytes)
    BY <1>3, <1>4
  <1>5. P \in Nat /\ p \in Nat /\ n \in Nat /\ n <= MAX_PAYLOAD_SIZE /\ p <= MAX_PATH_SIZE
    BY Sizes
  <1>6. StartOf(content) = P + p /\ PayloadAt(m) = P + p
    BY <1>1 DEF StartOf, PayloadAt
  <1>7. PathLengthAt(content.route) = P - 1
    BY ONLY P = PathAt(content.route), P \in {2, 4} DEF PathAt, PathLengthAt
  <1>8. /\ encoded.data \in Buffers
        /\ encoded.size = P + p + n /\ encoded.size \in P + p .. MAX_TRANS_UNIT
        /\ encoded.data[0] = content.route + 4 * content.type + 64 * content.version
        /\ encoded.data[P - 1] = p
        /\ \A i \in P .. P + p - 1 : encoded.data[i] = m.path[i - P]
        /\ \A i \in P + p .. P + p + n - 1 : encoded.data[i] = PayloadWith(bytes)[i - (P + p)]
        /\ P = 4 => encoded.data[1] = 0 /\ encoded.data[2] = 0
    <2> PICK payload : payload = PayloadWith(bytes)
      OBVIOUS
    <2>1. /\ encoded.data \in Buffers
          /\ encoded.size = PayloadAt(m) + m.payload_length
          /\ encoded.size \in PayloadAt(m) .. MAX_TRANS_UNIT
          /\ encoded.data[0] = Header(m)
          /\ encoded.data[PathLengthAt(m.route)] = m.path_length
          /\ \A i \in PathAt(m.route) .. PayloadAt(m) - 1 :
                encoded.data[i] = m.path[i - PathAt(m.route)]
          /\ \A i \in PayloadAt(m) .. encoded.size - 1 :
                encoded.data[i] = m.payload[i - PayloadAt(m)]
          /\ HasTransportCodes(m.route) => encoded.data[1] = 0 /\ encoded.data[2] = 0
      BY ONLY <1>2 DEF Carries
    <2>2. /\ PayloadAt(m) = P + p /\ m.payload_length = n /\ m.path_length = p
          /\ PathLengthAt(m.route) = P - 1 /\ PathAt(m.route) = P
          /\ m.payload = PayloadWith(bytes)
          /\ P = 4 => HasTransportCodes(m.route)
      BY <1>1, <1>3, <1>6, <1>7
    <2>3. encoded.size = P + p + n
      BY ONLY <2>1, <2>2
    <2>4. Header(m) = content.route + 4 * content.type + 64 * content.version
      BY ONLY <1>1
    <2> QED
      BY ONLY <2>1, <2>2, <2>3, <2>4
  <1>9. \A i \in 0 .. n - 1 : PayloadWith(bytes)[i] = bytes[i + 1]
    BY PayloadWithFacts
  <1>10. ASSUME NEW data, NEW size, HoldsStart(data, size, encoded)
         PROVE  PacketCutAt(content, bytes, data, size)
    <2>1. /\ data \in Buffers /\ size \in 0 .. P + p + n /\ size \in 0 .. MAX_TRANS_UNIT
          /\ \A i \in 0 .. size - 1 : data[i] = encoded.data[i]
      <3>1. /\ data \in Buffers /\ size \in 0 .. encoded.size
            /\ \A i \in 0 .. size - 1 : data[i] = encoded.data[i]
        BY <1>10 DEF HoldsStart
      <3> QED
        BY <1>5, <1>8, <3>1, Sizes
    <2>2. CASE size = 0
      <3>1. ~Accepts(data, size)
        BY <2>2 DEF Accepts
      <3>2. ~(size >= P + p)
        BY <1>5, <2>2
      <3> QED
        BY <1>6, <3>1, <3>2 DEF PacketCutAt
    <2>3. CASE size > 0
      <3>1. data[0] = content.route + 4 * content.type + 64 * content.version
        <4>1. 0 \in 0 .. size - 1
          BY <2>1, <2>3
        <4> QED
          BY <1>8, <2>1, <4>1
      <3>2. /\ Route(data[0]) = content.route /\ Type(data[0]) = content.type
            /\ Version(data[0]) = content.version
        <4> PICK route \in 0 .. 3, type \in 0 .. 15, version \in 0 .. 3 :
               /\ route = content.route /\ type = content.type /\ version = content.version
          BY <1>3
        <4> PICK b : b = data[0]
          OBVIOUS
        <4>1. /\ b = 4 * (type + 16 * version) + route
              /\ b = 64 * version + (route + 4 * type)
          <5>1. b = route + 4 * type + 64 * version
            BY ONLY <3>1, b = data[0], route = content.route, type = content.type,
                    version = content.version
          <5> QED
            BY ONLY <5>1, route \in 0 .. 3, type \in 0 .. 15, version \in 0 .. 3
        <4>2. b \div 4 = type + 16 * version /\ b % 4 = route
          BY ONLY <4>1, route \in 0 .. 3, type \in 0 .. 15, version \in 0 .. 3
        <4>3. (type + 16 * version) % 16 = type
          BY ONLY type \in 0 .. 15, version \in 0 .. 3
        <4>4. b \div 64 = version /\ version % 4 = version
          BY ONLY <4>1, route \in 0 .. 3, type \in 0 .. 15, version \in 0 .. 3
        <4> QED
          BY <4>2, <4>3, <4>4 DEF Route, Type, Version
      <3>3. /\ PathAt(Route(data[0])) = P /\ PathLengthAt(Route(data[0])) = P - 1
            /\ PathLengthIn(data) = data[P - 1]
            /\ HasTransportCodes(Route(data[0])) <=> P = 4
        BY <1>3, <1>7, <3>2 DEF PathLengthIn
      <3>4. CASE size < P
        <4>1. ~(size - (P - 1) >= 1) /\ ~(size >= P + p) /\ size < P + p
          BY <1>5, <2>1, <3>4
        <4>2. ~Accepts(data, size)
          BY <3>3, <4>1 DEF Accepts
        <4> QED
          BY <1>6, <4>1, <4>2 DEF PacketCutAt
      <3>5. CASE size >= P
        <4>1. PathLengthIn(data) = p
          <5>1. P - 1 \in 0 .. size - 1
            BY <2>1, <3>5
          <5> QED
            BY <1>8, <2>1, <3>3, <5>1
        <4>2. /\ (P + p) % ByteSize = P + p
              /\ (size - (P + p)) % ByteSize <= MAX_PAYLOAD_SIZE
                   <=> size - P - p \in 0 .. MAX_PAYLOAD_SIZE
              /\ size - P - p >= 0 => (size - (P + p)) % ByteSize = size - P - p
          BY ONLY <2>1, <3>5, P \in {2, 4}, p \in 0 .. MAX_PATH_SIZE, WrapRejects
        <4>3. /\ PayloadStart(data) = P + p
              /\ PayloadLengthIn(data, size) = (size - (P + p)) % ByteSize
          BY <3>3, <4>1, <4>2 DEF PayloadStart, PayloadLengthIn
        <4>4. CASE size < P + p
          <5>1. ~(size - P - p \in 0 .. MAX_PAYLOAD_SIZE) /\ ~(size >= P + p)
            BY <1>5, <2>1, <4>4
          <5>2. ~Accepts(data, size)
            BY <4>2, <4>3, <5>1 DEF Accepts
          <5> QED
            BY <1>6, <5>1, <5>2 DEF PacketCutAt
        <4>5. CASE size >= P + p
          <5> PICK k \in 0 .. n : k = size - (P + p)
            BY <1>5, <2>1, <4>5
          <5>0. k \in Nat /\ k <= n /\ size = P + p + k /\ size - P - p = k
            BY ONLY <1>5, <2>1, k = size - (P + p), k \in 0 .. n
          <5>1. PayloadLengthIn(data, size) = k /\ k <= MAX_PAYLOAD_SIZE
            <6>1. size - P - p >= 0 /\ k <= MAX_PAYLOAD_SIZE
              BY ONLY <1>5, <5>0, Sizes
            <6> QED
              BY ONLY <4>2, <4>3, <5>0, <6>1
          <5>2. Accepts(data, size)
            <6>1. size >= 1 /\ size <= MAX_TRANS_UNIT
              BY <2>1, <2>3, Sizes
            <6>2. P = 4 => size - 1 >= 2
              BY <2>1, <3>5
            <6>3. size - (P - 1) >= 1 /\ p <= MAX_PATH_SIZE
              BY <1>5, <2>1, <3>5
            <6> QED
              BY <3>3, <4>1, <5>1, <6>1, <6>2, <6>3 DEF Accepts
          <5>3. Copied(data, 1, IF P = 4 THEN 2 ELSE 0, 4) = [i \in 0 .. 3 |-> 0]
            <6>1. CASE P = 4
              <7>1. 1 \in 0 .. size - 1 /\ 2 \in 0 .. size - 1
                BY <2>1, <3>5, <6>1
              <7>2. data[1] = 0 /\ data[2] = 0
                BY <1>8, <2>1, <6>1, <7>1
              <7>3. ASSUME NEW i \in 0 .. 3
                    PROVE  (IF i < 2 THEN data[1 + i] ELSE 0) = 0
                <8>1. i = 0 \/ i = 1 \/ ~(i < 2)
                  OBVIOUS
                <8>2. 1 + 0 = 1 /\ 1 + 1 = 2
                  OBVIOUS
                <8> QED
                  BY <7>2, <8>1, <8>2
              <7>4. Copied(data, 1, 2, 4) = [i \in 0 .. 4 - 1 |-> IF i < 2 THEN data[1 + i] ELSE 0]
                BY DEF Copied
              <7>5. 4 - 1 = 3
                OBVIOUS
              <7> QED
                BY <6>1, <7>3, <7>4, <7>5
            <6>2. CASE P # 4
              <7>1. Copied(data, 1, 0, 4) = [i \in 0 .. 4 - 1 |-> IF i < 0 THEN data[1 + i] ELSE 0]
                BY DEF Copied
              <7>2. 4 - 1 = 3 /\ \A i \in 0 .. 3 : ~(i < 0)
                OBVIOUS
              <7> QED
                BY <6>2, <7>1, <7>2
            <6> QED
              BY <6>1, <6>2
          <5>4. Copied(data, P, p, MAX_PATH_SIZE)
                   = [i \in 0 .. MAX_PATH_SIZE - 1 |-> IF i < p THEN content.path[i + 1] ELSE 0]
            <6>1. ASSUME NEW i \in 0 .. MAX_PATH_SIZE - 1, i < p
                  PROVE  data[P + i] = content.path[i + 1]
              <7>1. /\ P + i \in 0 .. size - 1 /\ P + i \in P .. P + p - 1
                    /\ (P + i) - P = i
                BY ONLY <1>5, <5>0, <6>1, Sizes, i \in 0 .. MAX_PATH_SIZE - 1
              <7>2. m.path[i] = content.path[i + 1]
                BY <1>1, <6>1
              <7> QED
                BY ONLY <1>8, <2>1, <7>1, <7>2
            <6> QED
              BY <6>1 DEF Copied
          <5>5. /\ SubSeq(bytes, 1, k) \in Seq(Byte) /\ Len(SubSeq(bytes, 1, k)) = k
                /\ \A i \in 0 .. k - 1 : PayloadWith(SubSeq(bytes, 1, k))[i] = bytes[i + 1]
            BY CutFacts
          <5>6. Copied(data, P + p, k, MAX_PAYLOAD_SIZE) = PayloadWith(SubSeq(bytes, 1, k))
            <6> DEFINE cut == SubSeq(bytes, 1, k)
            <6>1. ASSUME NEW i \in 0 .. MAX_PAYLOAD_SIZE - 1, i < k
                  PROVE  data[P + p + i] = cut[i + 1]
              <7>1. /\ P + p + i \in 0 .. size - 1
                    /\ P + p + i \in P + p .. P + p + n - 1
                    /\ (P + p + i) - (P + p) = i
                    /\ i \in 0 .. n - 1 /\ i \in 0 .. k - 1
                BY ONLY <1>5, <5>0, <6>1, Sizes, i \in 0 .. MAX_PAYLOAD_SIZE - 1
              <7>2. data[P + p + i] = bytes[i + 1]
                <8>1. data[P + p + i] = encoded.data[P + p + i]
                  BY ONLY <2>1, <7>1
                <8>2. encoded.data[P + p + i] = PayloadWith(bytes)[i]
                  BY ONLY <1>8, <7>1
                <8> QED
                  BY ONLY <1>9, <7>1, <8>1, <8>2
              <7>3. PayloadWith(cut)[i] = bytes[i + 1]
                BY <5>5, <7>1
              <7>4. PayloadWith(cut)[i] = cut[i + 1]
                BY <5>5, <6>1 DEF PayloadWith
              <7> QED
                BY ONLY <7>2, <7>3, <7>4
            <6>2. Len(cut) = k
              BY <5>5
            <6> HIDE DEF cut
            <6>3. PayloadWith(cut) = [i \in 0 .. MAX_PAYLOAD_SIZE - 1 |->
                                        IF i < k THEN cut[i + 1] ELSE 0]
              BY <6>2 DEF PayloadWith
            <6>4. Copied(data, P + p, k, MAX_PAYLOAD_SIZE)
                     = [i \in 0 .. MAX_PAYLOAD_SIZE - 1 |->
                          IF i < k THEN data[P + p + i] ELSE 0]
              BY DEF Copied
            <6>5. Copied(data, P + p, k, MAX_PAYLOAD_SIZE) = PayloadWith(cut)
              BY ONLY <6>1, <6>3, <6>4
            <6> QED
              BY ONLY <6>5 DEF cut
          <5>7. k % ByteSize = k
            <6>1. k \in 0 .. 255
              BY ONLY <5>0, <5>1, Sizes
            <6>2. k % 256 = k
              BY ONLY <6>1
            <6> QED
              BY <6>2 DEF ByteSize
          <5> DEFINE cut == SubSeq(bytes, 1, k)
          <5>8. MessageIn(data, size)
                  = [type            |-> content.type,
                     route           |-> content.route,
                     version         |-> content.version,
                     transport_codes |-> content.transport_codes,
                     path_length     |-> Len(content.path),
                     path            |-> [i \in 0 .. MAX_PATH_SIZE - 1 |->
                                            IF i < Len(content.path)
                                            THEN content.path[i + 1] ELSE 0],
                     payload_length  |-> Len(cut) % ByteSize,
                     payload         |-> PayloadWith(cut)]
            <6>1. MessageIn(data, size)
                    = [type            |-> Type(data[0]),
                       route           |-> Route(data[0]),
                       version         |-> Version(data[0]),
                       transport_codes |->
                          Copied(data, 1,
                                 IF HasTransportCodes(Route(data[0])) THEN 2 ELSE 0, 4),
                       path_length     |-> PathLengthIn(data),
                       path            |-> Copied(data, PathAt(Route(data[0])),
                                                  PathLengthIn(data), MAX_PATH_SIZE),
                       payload_length  |-> PayloadLengthIn(data, size),
                       payload         |-> Copied(data, PayloadStart(data),
                                                  PayloadLengthIn(data, size),
                                                  MAX_PAYLOAD_SIZE)]
              BY DEF MessageIn
            <6>2. (IF HasTransportCodes(Route(data[0])) THEN 2 ELSE 0)
                     = IF P = 4 THEN 2 ELSE 0
              BY <3>3
            <6>3. Len(cut) % ByteSize = k
              BY <5>5, <5>7
            <6>4. p = Len(content.path) /\ PathAt(Route(data[0])) = P
              BY <3>3
            <6> HIDE DEF cut
            <6>5. PayloadWith(cut) = Copied(data, P + p, k, MAX_PAYLOAD_SIZE)
              BY <5>6 DEF cut
            <6>6. content.transport_codes = [i \in 0 .. 3 |-> 0]
              BY <1>3
            <6>7. [i \in 0 .. MAX_PATH_SIZE - 1 |->
                     IF i < Len(content.path) THEN content.path[i + 1] ELSE 0]
                    = Copied(data, P, p, MAX_PATH_SIZE)
              BY ONLY <5>4, <6>4
            <6> QED
              BY ONLY <3>2, <4>1, <4>3, <5>1, <5>3, <6>1, <6>2, <6>3, <6>4, <6>5, <6>6, <6>7
          <5>9. MessageIn(data, size) = MessageOf(content, cut)
            BY ONLY <5>8 DEF MessageOf
          <5>10. ~(size < StartOf(content)) /\ size - StartOf(content) = k
            BY <1>5, <1>6, <2>1, <4>5
          <5> QED
            BY ONLY <5>2, <5>9, <5>10 DEF PacketCutAt
        <4> QED
          BY ONLY <1>5, <2>1, <4>4, <4>5
      <3> QED
        BY ONLY <1>5, <2>1, <3>4, <3>5
    <2> QED
      BY ONLY <2>1, <2>2, <2>3, <1>5
  <1>11. encoded.size \in 0 .. MAX_TRANS_UNIT /\ P + p \in Nat
    <2>1. MAX_TRANS_UNIT \in Nat
      BY Sizes
    <2>2. P + p \in Nat
      BY ONLY <1>5
    <2>3. encoded.size \in P + p .. MAX_TRANS_UNIT
      BY ONLY <1>8
    <2> QED
      BY ONLY <2>1, <2>2, <2>3
  <1> QED
    BY <1>6, <1>8, <1>10, <1>11

-----------------------------------------------------------------------------

(***************************************************************************)
(* The size of a payload that was serialized fits a payload.               *)
(***************************************************************************)
Encodes(content, bytes) ==
    /\ Sendable(content)
    /\ SerializePayload(content.type, content.body).result >= 0
    /\ bytes = SerializePayload(content.type, content.body).bytes

(***************************************************************************)
(* What the receiver can make of a buffer that holds the start of a        *)
(* packet.                                                                 *)
(***************************************************************************)
Fits(message) == message.type = GRP_TXT => GrpTxtCopyFits(message.payload_length)

ReceivedAs(content, d, lost) ==
    /\ lost = 0 => d.result >= 0 /\ Fits(d.message)
    /\ (d.result >= 0 /\ Fits(d.message)) =>
          LET e == DeserializePayload(d.message)
          IN  /\ lost = 0 => e = [result |-> 0, body |-> content.body]
              /\ e.result >= 0 => CutBody(content.type, e.body, content.body, lost)
    /\ d.result >= 0 => \A body : ContentOf(d.message, body) =
                                     [type            |-> content.type,
                                      route           |-> content.route,
                                      version         |-> content.version,
                                      transport_codes |-> content.transport_codes,
                                      path            |-> content.path,
                                      body            |-> body]

(***************************************************************************)
(* Packet and payload together.                                            *)
(***************************************************************************)
LEMMA PacketReceived ==
    ASSUME NEW content, NEW bytes, Encodes(content, bytes),
           NEW encoded, encoded = Serialize(MessageOf(content, bytes)),
           NEW data, NEW size, HoldsStart(data, size, encoded)
    PROVE  ReceivedAs(content, Deserialize(data, size), encoded.size - size)
  <1>1. Sendable(content) /\ CutDecoded(content.type, content.body, bytes)
    <2>1. /\ Sendable(content) /\ BodyFits(content.type, content.body)
          /\ SerializePayload(content.type, content.body).result >= 0
          /\ bytes = SerializePayload(content.type, content.body).bytes
      BY DEF Encodes, Sendable
    <2> QED
      BY <2>1, PayloadCut
  <1>2. bytes \in Seq(Byte) /\ Len(bytes) <= MAX_PAYLOAD_SIZE /\ Len(bytes) \in Nat
    BY <1>1, LenProperties DEF CutDecoded
  <1>3. /\ encoded.data \in Buffers
        /\ encoded.size = StartOf(content) + Len(bytes)
        /\ encoded.size \in 0 .. MAX_TRANS_UNIT /\ StartOf(content) \in Nat
        /\ PacketCutAt(content, bytes, data, size)
    BY <1>1, <1>2, PacketCut
  <1>4. size \in 0 .. encoded.size
    BY DEF HoldsStart
  <1> PICK s \in Nat, n \in Nat, z \in Nat :
         s = StartOf(content) /\ n = Len(bytes) /\ z = encoded.size
    BY ONLY <1>2, <1>3
  <1>5. z = s + n /\ size \in 0 .. z /\ size \in Nat
    BY <1>3, <1>4
  <1> PICK d : d = Deserialize(data, size)
    OBVIOUS
  <1> PICK lost : lost = z - size
    OBVIOUS
  <1>6. CASE size < s
    <2>1. d = Rejected
      BY <1>3, <1>6 DEF PacketCutAt, Deserialize
    <2>2. ~(d.result >= 0)
      BY ONLY <2>1 DEF Rejected
    <2>3. lost # 0
      BY <1>5, <1>6
    <2>4. ReceivedAs(content, d, lost)
      BY ONLY <2>2, <2>3 DEF ReceivedAs
    <2> QED
      BY <2>4
  <1>7. CASE size >= s
    <2> PICK k : k = size - s
      OBVIOUS
    <2>1. k \in 0 .. n /\ lost = n - k /\ (lost = 0 => k = n)
      BY ONLY <1>5, <1>7, k = size - s, lost = z - size, s \in Nat, n \in Nat, z \in Nat
    <2>2. Accepts(data, size) /\ MessageIn(data, size) = MessageOf(content, SubSeq(bytes, 1, k))
      BY <1>3, <1>7 DEF PacketCutAt
    <2> PICK message : message = MessageOf(content, SubSeq(bytes, 1, k))
      OBVIOUS
    <2>3. d = [result |-> 0, message |-> message]
      BY <2>2 DEF Deserialize
    <2>4. d.result >= 0 /\ d.message = message
      BY ONLY <2>3
    <2>5. k \in 0 .. Len(bytes)
      BY <2>1
    <2>6. /\ SubSeq(bytes, 1, k) \in Seq(Byte) /\ Len(SubSeq(bytes, 1, k)) = k
          /\ k <= MAX_PAYLOAD_SIZE
      <3>1. k \in 0 .. MAX_PAYLOAD_SIZE => k <= MAX_PAYLOAD_SIZE
        BY Sizes
      <3> QED
        BY ONLY <1>2, <2>5, <3>1, CutFacts
    <2>7. MessageIs(message, content, SubSeq(bytes, 1, k))
      BY <1>1, <2>6, MessageOfTyped
    <2>8. /\ message.type = content.type
          /\ message.route = content.route /\ message.version = content.version
          /\ message.transport_codes = content.transport_codes
          /\ message.path_length = Len(content.path)
          /\ message.path = [i \in 0 .. MAX_PATH_SIZE - 1 |->
                               IF i < Len(content.path) THEN content.path[i + 1] ELSE 0]
          /\ message.payload = PayloadWith(SubSeq(bytes, 1, k))
      BY ONLY message = MessageOf(content, SubSeq(bytes, 1, k)) DEF MessageOf
    <2>9. message.payload_length = k
      BY <2>6, <2>7 DEF MessageIs
    <2>10. ASSUME Fits(message)
           PROVE  LET e == DeserializePayload(message)
                  IN  /\ lost = 0 => e = [result |-> 0, body |-> content.body]
                      /\ e.result >= 0 => CutBody(content.type, e.body, content.body, lost)
      <3> PICK e : e = DeserializePayload(message)
        OBVIOUS
      <3>1. content.type = GRP_TXT => GrpTxtCopyFits(k)
        BY <2>8, <2>9, <2>10 DEF Fits
      <3>2. /\ k = Len(bytes) => e = [result |-> 0, body |-> content.body]
            /\ e.result >= 0 => CutBody(content.type, e.body, content.body, Len(bytes) - k)
        BY <1>1, <2>5, <2>8, <2>9, <3>1 DEF CutDecoded
      <3>3. Len(bytes) - k = lost /\ (lost = 0 => k = Len(bytes))
        BY <2>1
      <3> QED
        BY ONLY <3>2, <3>3, e = DeserializePayload(message)
    <2>11. lost = 0 => Fits(message)
      <3> SUFFICES ASSUME lost = 0 PROVE Fits(message)
        OBVIOUS
      <3>1. k = Len(bytes)
        BY <2>1
      <3> QED
        BY <1>1, <2>8, <2>9, <3>1 DEF Fits, CutDecoded
    <2>12. Slice(message.path, 0, message.path_length) = content.path
      <3> PICK p \in Nat : p = Len(content.path)
        BY <1>1, SendableFields
      <3>1. /\ content.path \in Seq(Byte) /\ p <= MAX_PATH_SIZE
            /\ MAX_PATH_SIZE \in Nat
        BY <1>1, SendableFields, Sizes
      <3>2. ASSUME NEW i \in 1 .. p PROVE message.path[0 + i - 1] = content.path[i]
        <4> PICK x \in 0 .. MAX_PATH_SIZE - 1 : x = 0 + i - 1
          BY ONLY <3>1, p \in Nat, i \in 1 .. p
        <4>1. x < p /\ x + 1 = i
          BY ONLY x = 0 + i - 1, p \in Nat, i \in 1 .. p
        <4>2. message.path[x] = content.path[x + 1]
          BY <2>8, <4>1
        <4> QED
          BY ONLY <4>1, <4>2, x = 0 + i - 1
      <3>3. Slice(message.path, 0, p) = [i \in 1 .. p |-> content.path[i]]
        BY ONLY <3>2 DEF Slice
      <3>4. content.path \in [1 .. p -> Byte]
        BY ONLY <3>1, p = Len(content.path), LenProperties
      <3> QED
        BY <2>8, <3>3, <3>4
    <2>13. \A body : ContentOf(message, body) =
                        [type            |-> content.type,
                         route           |-> content.route,
                         version         |-> content.version,
                         transport_codes |-> content.transport_codes,
                         path            |-> content.path,
                         body            |-> body]
      BY ONLY <2>8, <2>12 DEF ContentOf
    <2>14. ReceivedAs(content, d, lost)
      BY ONLY <2>4, <2>10, <2>11, <2>13 DEF ReceivedAs
    <2> QED
      BY <2>14
  <1> QED
    BY ONLY <1>5, <1>6, <1>7, s \in Nat

-----------------------------------------------------------------------------

(***************************************************************************)
(* While a packet is on its way, it is what the encoders make of what was  *)
(* sent.                                                                   *)
(***************************************************************************)
OnItsWay ==
    pc \in {"encoded", "arrived"} =>
        LET payload == SerializePayload(sent.type, sent.body)
        IN  /\ sent \in Contents
            /\ payload.result >= 0
            /\ packet = Serialize(MessageOf(sent, payload.bytes))

(***************************************************************************)
(* What arrived is the start of it, whatever the buffer holds behind.      *)
(***************************************************************************)
StartArrived == pc = "arrived" => HoldsStart(rx_buffer, rx_size, packet)

(***************************************************************************)
(* The inductive invariant.                                                *)
(***************************************************************************)
EInv ==
    /\ rx_buffer \in Buffers
    /\ OnItsWay
    /\ StartArrived
    /\ WholePacketsFit
    /\ DecodedAsSent
    /\ CutOnlyShortens

(***************************************************************************)
(* A payload codec rejects, or returns zero.                               *)
(***************************************************************************)
LEMMA DecodersReturn ==
    /\ \A data, size : Deserialize(data, size) = Rejected \/ Deserialize(data, size).result = 0
    /\ \A message : DeserializePayload(message) = Rejected
                       \/ DeserializePayload(message).result = 0
  <1>1. \A data, size : Deserialize(data, size) = Rejected \/ Deserialize(data, size).result = 0
    BY DEF Deserialize
  <1>2. ASSUME NEW message, NEW e, e = DeserializePayload(message)
        PROVE  e = Rejected \/ e.result = 0
    <2>1. CASE message.type = REQ
      BY <1>2, <2>1 DEF DeserializePayload, REQ, ACK, ADVERT, GRP_TXT
    <2>2. CASE message.type = ACK
      BY <1>2, <2>2 DEF DeserializePayload, REQ, ACK, ADVERT, GRP_TXT
    <2>3. CASE message.type = ADVERT
      BY <1>2, <2>3 DEF DeserializePayload, REQ, ACK, ADVERT, GRP_TXT
    <2>4. CASE message.type = GRP_TXT
      BY <1>2, <2>4 DEF DeserializePayload, REQ, ACK, ADVERT, GRP_TXT
    <2>5. CASE message.type \notin {REQ, ACK, ADVERT, GRP_TXT}
      BY <1>2, <2>5 DEF DeserializePayload
    <2> QED
      BY <2>1, <2>2, <2>3, <2>4, <2>5
  <1> QED
    BY <1>1, <1>2

(***************************************************************************)
(* What is on its way was encoded from something that may be sent.         *)
(***************************************************************************)
LEMMA SentEncoded ==
    ASSUME OnItsWay, pc \in {"encoded", "arrived"}
    PROVE  \E bytes : /\ Encodes(sent, bytes)
                      /\ packet = Serialize(MessageOf(sent, bytes))
  <1> DEFINE bytes == SerializePayload(sent.type, sent.body).bytes
  <1>1. /\ sent \in Contents
        /\ SerializePayload(sent.type, sent.body).result >= 0
        /\ packet = Serialize(MessageOf(sent, bytes))
    BY DEF OnItsWay
  <1>2. Encodes(sent, bytes)
    BY <1>1, ContentAssumption DEF Encodes
  <1> QED
    BY <1>1, <1>2

(***************************************************************************)
(* Its size and its bytes.                                                 *)
(***************************************************************************)
LEMMA EncodedTyped ==
    ASSUME OnItsWay, pc \in {"encoded", "arrived"}
    PROVE  packet.data \in Buffers /\ packet.size \in 0 .. MAX_TRANS_UNIT
  <1> PICK bytes : Encodes(sent, bytes) /\ packet = Serialize(MessageOf(sent, bytes))
    BY SentEncoded
  <1>1. /\ Sendable(sent) /\ BodyFits(sent.type, sent.body)
        /\ SerializePayload(sent.type, sent.body).result >= 0
        /\ bytes = SerializePayload(sent.type, sent.body).bytes
    BY DEF Encodes, Sendable
  <1>2. bytes \in Seq(Byte) /\ Len(bytes) <= MAX_PAYLOAD_SIZE
    BY <1>1, PayloadCut DEF CutDecoded
  <1> QED
    BY <1>1, <1>2, PacketCut

-----------------------------------------------------------------------------

(***************************************************************************)
(* It holds at the beginning.                                              *)
(***************************************************************************)
LEMMA InitEInv == Init => EInv
  <1> SUFFICES ASSUME Init PROVE EInv
    OBVIOUS
  <1>1. /\ pc = "idle" /\ received = None
        /\ rx_buffer = [i \in 0 .. MAX_TRANS_UNIT - 1 |-> 0]
    BY DEF Init
  <1>2. rx_buffer \in Buffers
    BY <1>1, Bytes DEF Buffers
  <1>3. ~JustDecoded
    BY <1>1 DEF JustDecoded
  <1> QED
    BY <1>1, <1>2, <1>3
       DEF EInv, OnItsWay, StartArrived, WholePacketsFit, DecodedAsSent, CutOnlyShortens,
           Accepted

(***************************************************************************)
(* Encoding.                                                               *)
(***************************************************************************)
LEMMA EncodeEInv ==
    ASSUME EInv, NEW content \in Contents, Encode(content)
    PROVE  EInv'
  <1>1. /\ pc' = "encoded" /\ sent' = content /\ rx_buffer' = rx_buffer
        /\ SerializePayload(content.type, content.body).result >= 0
        /\ packet' = Serialize(MessageOf(content,
                                         SerializePayload(content.type, content.body).bytes))
    BY DEF Encode
  <1>2. OnItsWay'
    BY <1>1 DEF OnItsWay
  <1>3. ~JustDecoded'
    BY <1>1 DEF JustDecoded
  <1> QED
    BY <1>1, <1>2, <1>3
       DEF EInv, StartArrived, WholePacketsFit, DecodedAsSent, CutOnlyShortens, Accepted

(***************************************************************************)
(* Encoding that fails.                                                    *)
(***************************************************************************)
LEMMA EncodeFailsEInv ==
    ASSUME EInv, NEW content \in Contents, EncodeFails(content)
    PROVE  EInv'
  <1>1. pc' = "idle" /\ rx_buffer' = rx_buffer /\ received' = None
    BY DEF EncodeFails
  <1>2. ~JustDecoded'
    BY <1>1 DEF JustDecoded
  <1> QED
    BY <1>1, <1>2
       DEF EInv, OnItsWay, StartArrived, WholePacketsFit, DecodedAsSent, CutOnlyShortens,
           Accepted

(***************************************************************************)
(* Arriving, with `lost' bytes missing.                                    *)
(***************************************************************************)
LEMMA ArriveEInv ==
    ASSUME EInv, NEW lost \in Losses, Arrive(lost)
    PROVE  EInv'
  <1>1. /\ pc = "encoded" /\ pc' = "arrived" /\ lost <= packet.size
        /\ rx_size' = packet.size - lost
        /\ rx_buffer' = [i \in DOMAIN rx_buffer |->
                            IF i < rx_size' THEN packet.data[i] ELSE rx_buffer[i]]
        /\ sent' = sent /\ packet' = packet
    BY DEF Arrive
  <1>2. OnItsWay /\ rx_buffer \in Buffers /\ lost \in Nat
    BY LossAssumption DEF EInv
  <1>3. packet.data \in Buffers /\ packet.size \in 0 .. MAX_TRANS_UNIT
    BY <1>1, <1>2, EncodedTyped
  <1>4. OnItsWay'
    BY <1>1, <1>2 DEF OnItsWay
  <1> PICK n \in 0 .. MAX_TRANS_UNIT : n = packet.size
    BY <1>3
  <1> PICK size : size = rx_size'
    OBVIOUS
  <1>5. size \in 0 .. n /\ size \in 0 .. MAX_TRANS_UNIT
    <2>1. size = n - lost /\ lost <= n
      BY <1>1
    <2> QED
      BY ONLY <1>2, <2>1, n \in 0 .. MAX_TRANS_UNIT, Sizes
  <1>6. DOMAIN rx_buffer = 0 .. MAX_TRANS_UNIT - 1
    BY <1>2 DEF Buffers
  <1>7. rx_buffer' = [i \in 0 .. MAX_TRANS_UNIT - 1 |->
                         IF i < size THEN packet.data[i] ELSE rx_buffer[i]]
    BY <1>1, <1>6
  <1>8. rx_buffer' \in Buffers
    BY <1>2, <1>3, <1>7 DEF Buffers
  <1>9. \A i \in 0 .. size - 1 : rx_buffer'[i] = packet.data[i]
    <2>1. \A i \in 0 .. size - 1 : i \in 0 .. MAX_TRANS_UNIT - 1 /\ i < size
      BY ONLY <1>5, Sizes
    <2> QED
      BY ONLY <1>7, <2>1
  <1>10. HoldsStart(rx_buffer', rx_size', packet')
    BY <1>1, <1>5, <1>8, <1>9 DEF HoldsStart
  <1>11. ~JustDecoded'
    BY <1>1 DEF JustDecoded
  <1> QED
    BY <1>1, <1>4, <1>8, <1>10, <1>11
       DEF EInv, StartArrived, WholePacketsFit, DecodedAsSent, CutOnlyShortens, Accepted

(***************************************************************************)
(* What PacketReceived says of the packet that arrived.                    *)
(***************************************************************************)
LEMMA Arrived ==
    ASSUME EInv, pc = "arrived"
    PROVE  /\ ReceivedAs(sent, DecodedPacket, packet.size - rx_size)
           /\ Sendable(sent)
           /\ rx_size \in 0 .. packet.size /\ packet.size \in Nat
  <1>1. OnItsWay /\ HoldsStart(rx_buffer, rx_size, packet)
    BY DEF EInv, StartArrived
  <1> PICK bytes : Encodes(sent, bytes) /\ packet = Serialize(MessageOf(sent, bytes))
    BY <1>1, SentEncoded
  <1>2. ReceivedAs(sent, Deserialize(rx_buffer, rx_size), packet.size - rx_size)
    BY <1>1, PacketReceived
  <1>3. packet.size \in 0 .. MAX_TRANS_UNIT
    BY <1>1, EncodedTyped
  <1>4. packet.size \in Nat
    BY <1>3, Sizes
  <1> QED
    BY <1>1, <1>2, <1>4 DEF DecodedPacket, HoldsStart, Encodes

(***************************************************************************)
(* Decoding.                                                               *)
(***************************************************************************)
LEMMA DecodeEInv ==
    ASSUME EInv, Decode
    PROVE  EInv'
  <1> PICK d, lost : d = DecodedPacket /\ lost = packet.size - rx_size
    OBVIOUS
  <1> PICK e : e = DeserializePayload(d.message)
    OBVIOUS
  <1>1. /\ pc = "arrived" /\ pc' = "idle" /\ ~Overruns
        /\ received' = IF d.result < 0 THEN Rejected
                       ELSE IF e.result < 0 THEN Rejected
                            ELSE ContentOf(d.message, e.body)
        /\ sent' = sent /\ packet' = packet /\ rx_buffer' = rx_buffer /\ rx_size' = rx_size
    BY DEF Decode
  <1>2. /\ ReceivedAs(sent, d, lost) /\ Sendable(sent)
        /\ rx_size \in 0 .. packet.size /\ packet.size \in Nat
    BY <1>1, Arrived
  <1>3. /\ d = Rejected \/ d.result = 0
        /\ e = Rejected \/ e.result = 0
    BY DecodersReturn DEF DecodedPacket
  <1>4. d.result >= 0 => Fits(d.message)
    BY <1>1 DEF Overruns, Fits
  <1>5. lost = 0 => d.result >= 0
    BY <1>2 DEF ReceivedAs
  <1>6. d.result >= 0 => /\ lost = 0 => e = [result |-> 0, body |-> sent.body]
                         /\ e.result >= 0 => CutBody(sent.type, e.body, sent.body, lost)
    BY <1>2, <1>4 DEF ReceivedAs
  <1>7. d.result >= 0 => \A body : ContentOf(d.message, body) =
                                      [type            |-> sent.type,
                                       route           |-> sent.route,
                                       version         |-> sent.version,
                                       transport_codes |-> sent.transport_codes,
                                       path            |-> sent.path,
                                       body            |-> body]
    BY <1>2 DEF ReceivedAs
  <1>8. sent = [type            |-> sent.type,
                route           |-> sent.route,
                version         |-> sent.version,
                transport_codes |-> sent.transport_codes,
                path            |-> sent.path,
                body            |-> sent.body]
    BY <1>2, SendableFields
  <1>9. Rejected.result = -1 /\ -1 < 0 /\ ~(-1 >= 0) /\ ~(0 < 0) /\ 0 >= 0
    BY DEF Rejected
  <1>10. DecodedAsSent'
    <2> SUFFICES ASSUME rx_size = packet.size PROVE received' = sent
      BY <1>1 DEF DecodedAsSent
    <2>1. lost = 0
      BY <1>2
    <2>2. d.result >= 0 /\ e = [result |-> 0, body |-> sent.body]
      BY <1>5, <1>6, <2>1
    <2>3. ~(d.result < 0) /\ ~(e.result < 0) /\ e.body = sent.body
      BY ONLY <1>3, <1>9, <2>2
    <2>4. received' = ContentOf(d.message, sent.body)
      BY ONLY <1>1, <2>3
    <2>5. ContentOf(d.message, sent.body) = sent
      BY ONLY <1>7, <1>8, <2>2
    <2> QED
      BY ONLY <2>4, <2>5
  <1>11. CutOnlyShortens'
    <2> SUFFICES ASSUME received' # Rejected
                 PROVE  /\ [received' EXCEPT !.body = 0] = [sent EXCEPT !.body = 0]
                        /\ CutBody(sent.type, received'.body, sent.body, lost)
      BY <1>1 DEF CutOnlyShortens, Accepted
    <2>1. ~(d.result < 0) /\ ~(e.result < 0)
      BY ONLY <1>1, received' # Rejected
    <2>2. d.result >= 0 /\ e.result >= 0
      BY ONLY <1>3, <1>9, <2>1
    <2>3. received' = [type            |-> sent.type,
                       route           |-> sent.route,
                       version         |-> sent.version,
                       transport_codes |-> sent.transport_codes,
                       path            |-> sent.path,
                       body            |-> e.body]
      BY ONLY <1>1, <1>7, <2>1, <2>2
    <2>4. received'.body = e.body
      BY ONLY <2>3
    <2>5. [received' EXCEPT !.body = 0] = [sent EXCEPT !.body = 0]
      BY ONLY <1>8, <2>3
    <2> QED
      BY ONLY <1>6, <2>2, <2>4, <2>5
  <1> QED
    BY <1>1, <1>10, <1>11 DEF EInv, OnItsWay, StartArrived, WholePacketsFit

(***************************************************************************)
(* Decoding that runs over the array.                                      *)
(***************************************************************************)
LEMMA DecodeOverrunsEInv ==
    ASSUME EInv, DecodeOverruns
    PROVE  EInv'
  <1>1. /\ pc = "arrived" /\ pc' = "undefined" /\ Overruns
        /\ packet' = packet /\ rx_size' = rx_size /\ rx_buffer' = rx_buffer
    BY DEF DecodeOverruns
  <1>2. /\ ReceivedAs(sent, DecodedPacket, packet.size - rx_size)
        /\ rx_size \in 0 .. packet.size /\ packet.size \in Nat
    BY <1>1, Arrived
  <1>3. packet.size - rx_size # 0
    <2>1. ~Fits(DecodedPacket.message)
      BY <1>1 DEF Overruns, Fits
    <2> QED
      BY <1>2, <2>1 DEF ReceivedAs
  <1>4. rx_size < packet.size
    <2> PICK n \in Nat : n = packet.size
      BY <1>2
    <2>1. rx_size \in 0 .. n /\ n - rx_size # 0
      BY <1>2, <1>3
    <2>2. rx_size < n
      BY ONLY <2>1, n \in Nat
    <2> QED
      BY <2>2
  <1>5. ~JustDecoded'
    BY <1>1 DEF JustDecoded
  <1> QED
    BY <1>1, <1>4, <1>5
       DEF EInv, OnItsWay, StartArrived, WholePacketsFit, DecodedAsSent, CutOnlyShortens,
           Accepted

(***************************************************************************)
(* Every step keeps the invariant.                                         *)
(***************************************************************************)
LEMMA NextEInv == EInv /\ [Next]_vars => EInv'
  <1> SUFFICES ASSUME EInv, [Next]_vars PROVE EInv'
    OBVIOUS
  <1>1. ASSUME NEW content \in Contents, Encode(content) PROVE EInv'
    BY <1>1, EncodeEInv
  <1>2. ASSUME NEW content \in Contents, EncodeFails(content) PROVE EInv'
    BY <1>2, EncodeFailsEInv
  <1>3. ASSUME NEW lost \in Losses, Arrive(lost) PROVE EInv'
    BY <1>3, ArriveEInv
  <1>4. CASE Decode
    BY <1>4, DecodeEInv
  <1>5. CASE DecodeOverruns
    BY <1>5, DecodeOverrunsEInv
  <1>6. CASE UNCHANGED vars
    BY <1>6 DEF vars, EInv, OnItsWay, StartArrived, WholePacketsFit, DecodedAsSent,
                CutOnlyShortens, Accepted, JustDecoded
  <1> QED
    BY <1>1, <1>2, <1>3, <1>4, <1>5, <1>6 DEF Next, Stopped

(***************************************************************************)
(* The invariant holds in every state.                                     *)
(***************************************************************************)
LEMMA ExchangeEInv == Spec => []EInv
  BY InitEInv, NextEInv, PTL DEF Spec

-----------------------------------------------------------------------------

(***************************************************************************)
(* A packet that arrives whole decodes to what was encoded, with every     *)
(* payload codec, every path and whatever the receive buffer held before   *)
(* (serialize and deserialize of packet.c and of payload/).                *)
(***************************************************************************)
THEOREM WholeDecodesAsSent == Spec => []DecodedAsSent
  <1>1. EInv => DecodedAsSent
    BY DEF EInv
  <1> QED
    BY <1>1, ExchangeEInv, PTL

(***************************************************************************)
(* A packet that lost bytes at its end is rejected, or decodes to what was *)
(* sent with only its payload cut, as CutBody says for each codec; nothing *)
(* of an earlier packet in the buffer is taken for part of it.             *)
(***************************************************************************)
THEOREM LossOnlyShortens == Spec => []CutOnlyShortens
  <1>1. EInv => CutOnlyShortens
    BY DEF EInv
  <1> QED
    BY <1>1, ExchangeEInv, PTL

(***************************************************************************)
(* The unchecked copy of meshcore_grp_txt_deserialize stays in its array   *)
(* for every packet that arrives whole.                                    *)
(***************************************************************************)
THEOREM OverrunNeedsLoss == Spec => []WholePacketsFit
  <1>1. EInv => WholePacketsFit
    BY DEF EInv
  <1> QED
    BY <1>1, ExchangeEInv, PTL
=============================================================================
