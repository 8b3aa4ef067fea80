------------------------ MODULE CompanionServerProofs ------------------------
(***************************************************************************)
(* Theorems about the companion server, for every table, stream and number *)
(* of writes that fall short, and every frame size with room for its       *)
(* replies.                                                                *)
(***************************************************************************)
EXTENDS CompanionServer, CompanionReaderProofs

(***************************************************************************)
(* A step of the server is a step of the reader or leaves the reader       *)
(* alone.                                                                  *)
(***************************************************************************)
LEMMA ServerStepsReader == [ServerNext]_allVars => [Next]_vars
  BY DEF ServerNext, ServerStep, Start, ReadPort, ReadFails, Scan, Callback, Transmit,
         TransmitShort, Stopped, allVars, vars, Next, Step

(***************************************************************************)
(* The main loop and the callback keep to the reader's contract: what was  *)
(* proved of the reader holds in the server.                               *)
(***************************************************************************)
THEOREM ServerRunsReader == ServerSpec => Spec
<1>1. ServerInit => Init
  BY DEF ServerInit
<1> QED
  BY <1>1, ServerStepsReader, PTL DEF ServerSpec, Spec

-----------------------------------------------------------------------------

(***************************************************************************)
(* A reply as it waits to be sent, with no more arguments than the         *)
(* callback sets for it; and the record of a frame.                        *)
(***************************************************************************)
Replies ==
    {reply \in [response : Byte, fields : 0 .. ContactBytes,
                args_length : 0 .. ContactBytes, count : Nat] :
        reply.args_length <= reply.fields}

Frames == [call : Nat, count : Nat, frame : Seq(Nat), stored : Nat, taken : Nat]

(***************************************************************************)
(* How many replies to the n-th call are on the line.                      *)
(***************************************************************************)
Due(n) == Len(packet_callback(calls[n]))

Sent(n) == IF n = Len(calls) THEN Due(n) - Len(todo) ELSE Due(n)

(***************************************************************************)
(* They lie together, from the first one on, as packet_callback has them.  *)
(***************************************************************************)
LieAt(n, first) ==
    /\ \A k \in 1 .. Len(line) : line[k].call = n <=> k \in first + 1 .. first + Sent(n)
    /\ \A i \in 1 .. Sent(n) :
          /\ Response(line[first + i]) = packet_callback(calls[n])[i].response
          /\ line[first + i].count = packet_callback(calls[n])[i].count

(***************************************************************************)
(* Every call is answered in full but the last, whose remaining replies    *)
(* wait behind the end of the line.                                        *)
(***************************************************************************)
RepliesInOrder ==
    /\ \A k \in 1 .. Len(line) : line[k].call \in 1 .. Len(calls)
    /\ calls = <<>> => todo = <<>>
    /\ \A n \in 1 .. Len(calls) :
          \E first \in 0 .. Len(line) :
             /\ first + Sent(n) <= Len(line)
             /\ n = Len(calls) => first + Sent(n) = Len(line)
             /\ LieAt(n, first)
    /\ calls # <<>> =>
          LET last == Len(calls) IN
          /\ Sent(last) \in Nat
          /\ \A i \in 1 .. Len(todo) : todo[i] = packet_callback(calls[last])[Sent(last) + i]

ServerInv ==
    /\ ServerTypeOK /\ FramesWellFormed
    /\ todo \in Seq(Replies) /\ line \in Seq(Frames)
    /\ RepliesInOrder

(***************************************************************************)
(* The sizes of the program, as far as the proofs need them.               *)
(***************************************************************************)
LEMMA ServerSizes ==
    /\ Radix \in Nat /\ Radix > 62 /\ WordSize \in Nat /\ WordSize > MAX_FRAME_SIZE
    /\ MAX_FRAME_SIZE \in Nat /\ MAX_FRAME_SIZE >= 152 /\ MAX_PAYLOAD_SIZE \in Nat
    /\ MAX_PAYLOAD_SIZE >= 149 /\ MAX_PAYLOAD_SIZE = MAX_FRAME_SIZE - 3 /\ ContactBytes = 147
  BY ByteAssumption, FrameAssumption, ReplyAssumption, WordOfBytes
     DEF ContactBytes, HeaderSize, Byte, ReplyByte, MAX_PAYLOAD_SIZE

Single(replies, request) ==
    /\ Len(replies) = 1
    /\ replies[1].response \in Protocol!NamedReplies(request)
    /\ replies[1].response \notin {CONTACTS_START, CONTACT, END_OF_CONTACTS}
    /\ replies[1].count = 0

Bracket(replies) ==
    /\ Len(replies) = Contacts + 2
    /\ replies[1].response = CONTACTS_START /\ replies[1].count = Contacts
    /\ \A i \in 2 .. Contacts + 1 : replies[i].response = CONTACT /\ replies[i].count = 0
    /\ replies[Contacts + 2].response = END_OF_CONTACTS /\ replies[Contacts + 2].count = 0

(***************************************************************************)
(* The bracket of replies to GET_CONTACTS.                                 *)
(***************************************************************************)
LEMMA ContactRepliesFacts == ContactReplies \in Seq(Replies) /\ Bracket(ContactReplies)
<1> DEFINE start    == [Reply(CONTACTS_START, 4, 4) EXCEPT !.count = Contacts]
           contact  == Reply(CONTACT, ContactBytes, ContactBytes)
           contactsSent == [i \in 1 .. Contacts |-> contact]
           end      == Reply(END_OF_CONTACTS, 4, 4)
<1>1. /\ start \in Replies /\ contact \in Replies /\ end \in Replies
      /\ start.response = CONTACTS_START /\ start.count = Contacts
      /\ contact.response = CONTACT /\ contact.count = 0
      /\ end.response = END_OF_CONTACTS /\ end.count = 0
  BY ServerSizes DEF Reply, Replies, Byte, CONTACTS_START, CONTACT, END_OF_CONTACTS, Contacts
<1>2. ContactReplies = (<<start>> \o contactsSent) \o <<end>>
  BY DEF ContactReplies
<1> HIDE DEF start, contact, end
<1>3. /\ contactsSent \in Seq(Replies) /\ Len(contactsSent) = 2
      /\ \A i \in 1 .. 2 : contactsSent[i] = contact
  <2>1. contactsSent \in [1 .. 2 -> Replies]
    BY <1>1 DEF Contacts
  <2> QED
    BY <2>1, FunctionIsSeq DEF Contacts
<1> HIDE DEF contactsSent
<1>4. /\ <<start>> \in Seq(Replies) /\ Len(<<start>>) = 1 /\ <<start>>[1] = start
      /\ <<end>> \in Seq(Replies) /\ Len(<<end>>) = 1 /\ <<end>>[1] = end
  BY <1>1
<1>5. /\ <<start>> \o contactsSent \in Seq(Replies)
      /\ Len(<<start>> \o contactsSent) = 3
      /\ \A i \in 1 .. 3 : (<<start>> \o contactsSent)[i] = IF i = 1 THEN start ELSE contact
  <2> DEFINE first == <<start>>
  <2>1. first \in Seq(Replies) /\ Len(first) = 1 /\ first[1] = start
    BY <1>4
  <2> HIDE DEF first
  <2>2. /\ first \o contactsSent \in Seq(Replies)
        /\ Len(first \o contactsSent) = Len(first) + Len(contactsSent)
        /\ \A i \in 1 .. Len(first) + Len(contactsSent) : (first \o contactsSent)[i] =
               IF i <= Len(first) THEN first[i] ELSE contactsSent[i - Len(first)]
    BY <1>3, <2>1, ConcatProperties
  <2>3. /\ first \o contactsSent \in Seq(Replies) /\ Len(first \o contactsSent) = 3
        /\ \A i \in 1 .. 3 : (first \o contactsSent)[i] = IF i = 1 THEN start ELSE contact
    BY <1>3, <2>1, <2>2
  <2> QED
    BY <2>3 DEF first
<1>6. /\ ContactReplies \in Seq(Replies) /\ Len(ContactReplies) = 4
      /\ \A i \in 1 .. 4 : ContactReplies[i] =
            IF i = 1 THEN start ELSE IF i = 4 THEN end ELSE contact
  <2>1. /\ ContactReplies \in Seq(Replies) /\ Len(ContactReplies) = 3 + 1
        /\ \A i \in 1 .. 3 + 1 : ContactReplies[i] =
               IF i <= 3 THEN (<<start>> \o contactsSent)[i] ELSE <<end>>[i - 3]
    BY <1>2, <1>4, <1>5, ConcatProperties
  <2> QED
    BY <1>4, <1>5, <2>1
<1> QED
  BY <1>1, <1>6 DEF Bracket, Contacts

(***************************************************************************)
(* The kinds of reply the protocol names, by number.                       *)
(***************************************************************************)
LEMMA NamedFacts ==
    /\ Protocol!NamedReplies(0) = {1} /\ Protocol!NamedReplies(1) = {5}
    /\ Protocol!NamedReplies(2) = {6} /\ 10 \in Protocol!NamedReplies(10)
    /\ Protocol!NamedReplies(22) = {13} /\ 1 \in Protocol!NamedReplies(31)
    /\ \A request \in Nat \ {0, 1, 2, 10, 22, 31} :
          Protocol!NamedReplies(request) = {0, 1, 21}
  BY DEF Protocol!NamedReplies, Protocol!Rejected, Protocol!ERR, Protocol!OK,
         Protocol!SELF_INFO, Protocol!SENT, Protocol!NO_MORE, Protocol!DEVICE_INFO,
         Protocol!CUSTOM_VARS

(***************************************************************************)
(* What packet_callback replies to a call: a bracket to GET_CONTACTS, and  *)
(* to any other call one reply of a kind that is named for it.             *)
(***************************************************************************)
LEMMA RepliesFacts ==
    ASSUME NEW call \in CallRecords
    PROVE  /\ packet_callback(call) \in Seq(Replies)
           /\ IF RequestOf(call) = 4 THEN Bracket(packet_callback(call))
              ELSE Single(packet_callback(call), RequestOf(call))
<1> DEFINE command == call.packet.command
<1>0. command \in Nat
  BY ByteAssumption DEF CallRecords, Packets, Byte
<1>1. ASSUME NEW response \in {0, 1, 5, 6, 10, 13, 21},
             NEW fields \in 0 .. 147, NEW args_length \in 0 .. fields,
             packet_callback(call) = <<Reply(response, fields, args_length)>>,
             response \in Protocol!NamedReplies(RequestOf(call)), RequestOf(call) # 4
      PROVE  /\ packet_callback(call) \in Seq(Replies)
             /\ RequestOf(call) # 4 /\ Single(packet_callback(call), RequestOf(call))
  <2> DEFINE reply == Reply(response, fields, args_length)
  <2>1. /\ reply \in Replies /\ reply.count = 0 /\ reply.response = response
        /\ response \notin {CONTACTS_START, CONTACT, END_OF_CONTACTS}
    BY <1>1, ServerSizes DEF Reply, Replies, Byte, CONTACTS_START, CONTACT, END_OF_CONTACTS
  <2>2. packet_callback(call) = <<reply>>
    BY <1>1
  <2> HIDE DEF reply
  <2> QED
    BY <1>1, <2>1, <2>2 DEF Single
<1> HIDE DEF command
<1> USE DEF ERR, OK, SELF_INFO, SENT, NO_MORE, DEVICE_INFO, CUSTOM_VARS, ErrorReply,
            NodeName, SelfInfo
<1>3. CASE call.error # "NONE"
  <2>1. packet_callback(call) = <<Reply(1, 1, 0)>>
    BY <1>3 DEF packet_callback
  <2>2. 1 \in Protocol!NamedReplies(RequestOf(call)) /\ RequestOf(call) # 4
    BY <1>3, NamedFacts DEF RequestOf
  <2>3. 1 \in {0, 1, 5, 6, 10, 13, 21} /\ 1 \in 0 .. 147 /\ 0 \in 0 .. 1
    OBVIOUS
  <2> QED
    BY ONLY <1>1, <2>1, <2>2, <2>3
<1>4. CASE call.error = "NONE" /\ command = 4
  BY <1>4, ContactRepliesFacts DEF command, packet_callback, RequestOf, CommandReplies
<1>5. CASE call.error = "NONE" /\ command # 4
  <2>1. packet_callback(call) = CommandReplies(command) /\ RequestOf(call) = command
    BY <1>5 DEF command, packet_callback, RequestOf
  <2>2. CASE command = 1
    <3>1. packet_callback(call) = <<Reply(5, 68, 67)>>
      BY <2>1, <2>2 DEF CommandReplies
    <3>2. 5 \in Protocol!NamedReplies(RequestOf(call)) /\ RequestOf(call) # 4
      BY <1>0, <2>1, <2>2, NamedFacts
    <3>3. 5 \in {0, 1, 5, 6, 10, 13, 21} /\ 68 \in 0 .. 147 /\ 67 \in 0 .. 68
      OBVIOUS
    <3> QED
      BY ONLY <1>1, <3>1, <3>2, <3>3, ZenonT(30)
  <2>3. CASE command = 2
    <3>1. packet_callback(call) = <<Reply(6, 9, 9)>>
      BY <2>1, <2>3 DEF CommandReplies
    <3>2. 6 \in Protocol!NamedReplies(RequestOf(call)) /\ RequestOf(call) # 4
      BY <1>0, <2>1, <2>3, NamedFacts
    <3>3. 6 \in {0, 1, 5, 6, 10, 13, 21} /\ 9 \in 0 .. 147 /\ 9 \in 0 .. 9
      OBVIOUS
    <3> QED
      BY ONLY <1>1, <3>1, <3>2, <3>3
  <2>4. CASE command \in {7, 54}
    <3>1. packet_callback(call) = <<Reply(0, 0, 0)>>
      BY <2>1, <2>4 DEF CommandReplies
    <3>2. 0 \in Protocol!NamedReplies(RequestOf(call)) /\ RequestOf(call) # 4
      BY <1>0, <2>1, <2>4, NamedFacts
    <3>3. 0 \in {0, 1, 5, 6, 10, 13, 21} /\ 0 \in 0 .. 147 /\ 0 \in 0 .. 0
      OBVIOUS
    <3> QED
      BY ONLY <1>1, <3>1, <3>2, <3>3
  <2>5. CASE command = 10
    <3>1. packet_callback(call) = <<Reply(10, 0, 0)>>
      BY <2>1, <2>5 DEF CommandReplies
    <3>2. 10 \in Protocol!NamedReplies(RequestOf(call)) /\ RequestOf(call) # 4
      BY <1>0, <2>1, <2>5, NamedFacts
    <3>3. 10 \in {0, 1, 5, 6, 10, 13, 21} /\ 0 \in 0 .. 147 /\ 0 \in 0 .. 0
      OBVIOUS
    <3> QED
      BY ONLY <1>1, <3>1, <3>2, <3>3
  <2>6. CASE command = 22
    <3>1. packet_callback(call) = <<Reply(13, 79, 79)>>
      BY <2>1, <2>6 DEF CommandReplies
    <3>2. 13 \in Protocol!NamedReplies(RequestOf(call)) /\ RequestOf(call) # 4
      BY <1>0, <2>1, <2>6, NamedFacts
    <3>3. 13 \in {0, 1, 5, 6, 10, 13, 21} /\ 79 \in 0 .. 147 /\ 79 \in 0 .. 79
      OBVIOUS
    <3> QED
      BY ONLY <1>1, <3>1, <3>2, <3>3, ZenonT(30)
  <2>7. CASE command = 40
    <3>1. packet_callback(call) = <<Reply(21, 1, 0)>>
      BY <2>1, <2>7 DEF CommandReplies
    <3>2. 21 \in Protocol!NamedReplies(RequestOf(call)) /\ RequestOf(call) # 4
      BY <1>0, <2>1, <2>7, NamedFacts
    <3>3. 21 \in {0, 1, 5, 6, 10, 13, 21} /\ 1 \in 0 .. 147 /\ 0 \in 0 .. 1
      OBVIOUS
    <3> QED
      BY ONLY <1>1, <3>1, <3>2, <3>3
  <2>8. CASE command \notin {1, 2, 4, 7, 10, 22, 40, 54}
    <3>1. packet_callback(call) = <<Reply(1, 1, 0)>>
      BY <2>1, <2>8 DEF CommandReplies
    <3>2. 1 \in Protocol!NamedReplies(RequestOf(call)) /\ RequestOf(call) # 4
      BY <1>0, <1>5, <2>1, <2>8, NamedFacts
    <3>3. 1 \in {0, 1, 5, 6, 10, 13, 21} /\ 1 \in 0 .. 147 /\ 0 \in 0 .. 1
      OBVIOUS
    <3> QED
      BY ONLY <1>1, <3>1, <3>2, <3>3
  <2> QED
    BY <1>5, <2>2, <2>3, <2>4, <2>5, <2>6, <2>7, <2>8
<1> QED
  BY <1>3, <1>4, <1>5

-----------------------------------------------------------------------------

(***************************************************************************)
(* A number below the square of r, written with two digits to base r.      *)
(***************************************************************************)
LEMMA TwoDigits ==
    ASSUME NEW r \in Nat \ {0}, NEW n \in Nat, n < r * r
    PROVE  /\ n % r \in 0 .. r - 1 /\ (n \div r) % r \in 0 .. r - 1
           /\ (n % r) + r * ((n \div r) % r) = n
<1> DEFINE q == n \div r
<1>1. r \in Int /\ r > 0 /\ n \in Int /\ q \in Int /\ q >= 0 /\ n % r \in 0 .. r - 1
  OBVIOUS
<1>2. n % r = n - r * q
  BY <1>1
<1>3. r * q <= n
  BY <1>1
<1> HIDE DEF q
<1>4. q < r
  <2>1. ASSUME q >= r PROVE FALSE
    <3>1. r * q >= r * r
      BY <1>1, <2>1
    <3> QED
      BY <1>1, <1>3, <3>1
  <2> QED
    BY <1>1, <2>1
<1>5. q % r = q
  BY <1>1, <1>4
<1> QED
  BY <1>1, <1>2, <1>4, <1>5 DEF q

(***************************************************************************)
(* The frame of a reply that fits: it announces what follows the header,   *)
(* and carries the response code and as many bytes as there are arguments. *)
(***************************************************************************)
LEMMA FrameFacts ==
    ASSUME NEW response \in Byte, NEW args \in [ArgIndex -> Nat],
           NEW n \in 0 .. ContactBytes
    PROVE  LET written == WriteResponse(response, args, n)
               frame   == SubSeq(written.stored, 1, written.length)
           IN  /\ Len(written.stored) = n + 5 /\ written.length = n + 4
               /\ frame \in Seq(Nat) /\ Len(frame) = n + 4
               /\ frame[1] = ReplyByte /\ frame[4] = response
               /\ frame[2] + Radix * frame[3] = n + 1
               /\ \A i \in 5 .. n + 4 : frame[i] = args[i - 5]
<1> DEFINE written == WriteResponse(response, args, n)
           frame   == SubSeq(written.stored, 1, written.length)
           lo      == (n + 1) % Radix
           hi      == ((n + 1) \div Radix) % Radix
           head    == <<ReplyByte, lo, hi, response>>
           copied  == [i \in 1 .. n + 1 |-> args[i - 1]]
<1>1. /\ n \in Nat /\ n <= 147 /\ n + 5 < WordSize /\ n + 1 < Radix * Radix
      /\ Radix \in Nat \ {0} /\ MAX_PAYLOAD_SIZE \in Nat /\ MAX_PAYLOAD_SIZE > n + 1
  BY ServerSizes DEF WordSize
<1>2. (n + 1) % WordSize = n + 1 /\ (n + 5) % WordSize = n + 5 /\ 4 + (n + 1) = n + 5
  BY <1>1, ServerSizes
<1>3. written.stored = head \o copied /\ written.length = n + 4
  <2>1. /\ written.stored = head \o copied
        /\ written.length = ((4 + (n + 1)) % WordSize) - 1
    BY <1>2 DEF WriteResponse
  <2>2. (4 + (n + 1)) % WordSize = n + 5
    BY <1>2
  <2> QED
    BY <1>1, <2>1, <2>2
<1>4. lo \in Nat /\ hi \in Nat /\ lo + Radix * hi = n + 1
  <2>1. /\ lo \in 0 .. Radix - 1 /\ hi \in 0 .. Radix - 1 /\ lo + Radix * hi = n + 1
    <3>1. n + 1 \in Nat
      BY <1>1
    <3> QED
      BY ONLY <1>1, <3>1, TwoDigits
  <2> QED
    BY <1>1, <2>1
<1> HIDE DEF lo, hi
<1>5. /\ head \in Seq(Nat) /\ Len(head) = 4 /\ head[1] = ReplyByte /\ head[2] = lo
      /\ head[3] = hi /\ head[4] = response
  BY <1>4 DEF Byte, ReplyByte
<1>6. /\ copied \in Seq(Nat) /\ Len(copied) = n + 1
      /\ \A i \in 1 .. n + 1 : copied[i] = args[i - 1]
  <2>1. \A i \in 1 .. n + 1 : i - 1 \in ArgIndex
    BY <1>1 DEF ArgIndex
  <2>2. copied \in [1 .. n + 1 -> Nat]
    BY <2>1
  <2> QED
    BY <1>1, <2>2, FunctionIsSeq
<1> HIDE DEF written, head, copied
<1>7. /\ written.stored \in Seq(Nat) /\ Len(written.stored) = n + 5 /\ written.length = n + 4
      /\ \A i \in 1 .. n + 5 : written.stored[i] = IF i <= 4 THEN head[i] ELSE copied[i - 4]
  <2>1. /\ head \o copied \in Seq(Nat) /\ Len(head \o copied) = Len(head) + Len(copied)
        /\ \A i \in 1 .. Len(head) + Len(copied) :
              (head \o copied)[i] = IF i <= Len(head) THEN head[i] ELSE copied[i - Len(head)]
    BY <1>5, <1>6, ConcatProperties
  <2>2. Len(head) + Len(copied) = n + 5
    BY <1>1, <1>5, <1>6
  <2> QED
    BY <1>3, <1>5, <2>1, <2>2
<1>8. /\ frame \in Seq(Nat) /\ Len(frame) = n + 4
      /\ \A i \in 1 .. n + 4 : frame[i] = written.stored[i]
  <2>1. \A i \in 1 .. n + 4 : written.stored[i] \in Nat
    BY <1>1, <1>7, ElementOfSeq
  <2>2. /\ frame \in Seq(Nat)
        /\ Len(frame) = IF 1 <= n + 4 THEN (n + 4) - 1 + 1 ELSE 0
        /\ \A i \in 1 .. (n + 4) - 1 + 1 : frame[i] = written.stored[1 + i - 1]
    BY <1>1, <1>7, <2>1, SubSeqProperties
  <2> QED
    BY <1>1, <2>2
<1> HIDE DEF frame
<1>9. /\ frame[1] = ReplyByte /\ frame[2] = lo /\ frame[3] = hi /\ frame[4] = response
  <2>1. ASSUME NEW i \in 1 .. 4 PROVE frame[i] = head[i]
    <3>1. i \in 1 .. n + 4 /\ i \in 1 .. n + 5 /\ i <= 4
      BY <1>1
    <3>2. frame[i] = written.stored[i]
      BY <1>8, <3>1
    <3>3. written.stored[i] = head[i]
      BY <1>7, <3>1
    <3> QED
      BY <3>2, <3>3
  <2> QED
    BY <1>5, <2>1
<1>10. ASSUME NEW i \in 5 .. n + 4 PROVE frame[i] = args[i - 5]
  <2>1. /\ i \in 1 .. n + 4 /\ i \in 1 .. n + 5 /\ ~(i <= 4) /\ i - 4 \in 1 .. n + 1
        /\ (i - 4) - 1 = i - 5
    BY <1>1
  <2> QED
    BY <1>6, <1>7, <1>8, <2>1
<1> QED
  BY <1>4, <1>7, <1>8, <1>9, <1>10 DEF frame, written

-----------------------------------------------------------------------------

(***************************************************************************)
(* What holds of a frame put on the line as the k-th.                      *)
(***************************************************************************)
WellFormedAt(written, k) ==
    /\ written.stored <= MAX_FRAME_SIZE
    /\ Len(written.frame) > HeaderSize
    /\ written.frame[1] = ReplyByte
    /\ written.frame[2] + Radix * written.frame[3] = Len(written.frame) - HeaderSize
    /\ \A i \in HeaderSize + 2 .. Len(written.frame) : written.frame[i] \in {0, k}

(***************************************************************************)
(* The frame of the next reply has a length.                               *)
(***************************************************************************)
LEMMA NextFrameLength == ASSUME ServerInv, todo # <<>> PROVE NextFrame.length \in Nat
<1> DEFINE n == Head(todo).args_length
<1>1. n \in 0 .. 147
  <2>1. todo[1] \in Replies /\ Head(todo) = todo[1]
    BY ElementOfSeq, LenProperties, EmptySeq DEF ServerInv
  <2> QED
    BY <2>1, ServerSizes DEF Replies
<1>2. NextFrame.length = ((4 + ((n + 1) % WordSize)) % WordSize) - 1
  BY DEF NextFrame, WriteResponse
<1> HIDE DEF n
<1>3. (n + 1) % WordSize = n + 1 /\ (n + 5) % WordSize = n + 5 /\ 4 + (n + 1) = n + 5
  BY <1>1, ServerSizes
<1>4. (4 + ((n + 1) % WordSize)) % WordSize = n + 5
  BY <1>3
<1> QED
  BY <1>1, <1>2, <1>4

(***************************************************************************)
(* A reply is handed over: one well-formed frame more with its response,   *)
(* whose argument bytes were all set for it, and one reply less to do.     *)
(***************************************************************************)
LEMMA HandOverFacts ==
    ASSUME ServerInv, todo # <<>>, NEW taken \in Nat, HandOver(taken)
    PROVE  /\ Len(line) \in Nat /\ line' \in Seq(Frames) /\ Len(line') = Len(line) + 1
           /\ \A k \in 1 .. Len(line) : line'[k] = line[k]
           /\ WellFormedAt(line'[Len(line) + 1], Len(line) + 1)
           /\ line'[Len(line) + 1].call = Len(calls)
           /\ line'[Len(line) + 1].count = todo[1].count
           /\ Response(line'[Len(line) + 1]) = todo[1].response
           /\ Len(todo) \in Nat \ {0} /\ todo' \in Seq(Replies) /\ Len(todo') = Len(todo) - 1
           /\ \A i \in 1 .. Len(todo') : todo'[i] = todo[i + 1]
           /\ tx_packet' \in [ArgIndex -> 0 .. Len(line')]
<1> DEFINE reply == todo[1]
           n     == reply.args_length
           m     == reply.fields
           stored == NextFrame.stored
           frame == SubSeq(NextFrame.stored, 1, NextFrame.length)
           new   == [call   |-> Len(calls), count |-> reply.count, frame |-> frame,
                     stored |-> Len(stored), taken |-> taken]
<1>1. /\ line \in Seq(Frames) /\ Len(line) \in Nat /\ Len(calls) \in Nat
      /\ todo \in Seq(Replies) /\ Len(todo) \in Nat \ {0} /\ Head(todo) = reply
      /\ tx_packet \in [ArgIndex -> 0 .. Len(line)]
  BY LenProperties, EmptySeq DEF ServerInv, ServerTypeOK, TypeOK
<1>2. /\ reply \in Replies /\ reply.response \in Byte /\ reply.count \in Nat
      /\ m \in 0 .. ContactBytes /\ n \in 0 .. ContactBytes /\ n <= m
  <2>1. reply \in Replies
    BY <1>1, ElementOfSeq
  <2> QED
    BY <2>1 DEF Replies
<1>13. NextFrame = WriteResponse(reply.response, FilledPacket, n)
  BY <1>1 DEF NextFrame
<1> HIDE DEF reply, n, m
<1>3. /\ FilledPacket \in [ArgIndex -> 0 .. Len(line) + 1]
      /\ \A i \in 0 .. n - 1 : FilledPacket[i] = Len(line) + 1
  <2>1. ASSUME NEW i \in ArgIndex, ~(i < m) PROVE tx_packet[i] \in 0 .. Len(line) + 1
    BY <1>1
  <2>2. FilledPacket =
           [i \in ArgIndex |-> IF i < m THEN Len(line) + 1 ELSE tx_packet[i]]
    BY <1>1 DEF FilledPacket, m
  <2>3. FilledPacket \in [ArgIndex -> 0 .. Len(line) + 1]
    BY <1>1, <2>1, <2>2
  <2>4. ASSUME NEW i \in 0 .. n - 1 PROVE i \in ArgIndex /\ i < m
    <3>1. /\ n \in 0 .. 147 /\ m \in 0 .. 147 /\ n <= m
          /\ MAX_PAYLOAD_SIZE \in Nat /\ MAX_PAYLOAD_SIZE >= 149
      BY <1>2, ServerSizes
    <3> QED
      BY <3>1 DEF ArgIndex
  <2> QED
    BY <2>2, <2>3, <2>4
<1>4. /\ Len(stored) = n + 5 /\ frame \in Seq(Nat) /\ Len(frame) = n + 4
      /\ frame[1] = ReplyByte /\ frame[4] = reply.response
      /\ frame[2] + Radix * frame[3] = n + 1
      /\ \A i \in 5 .. n + 4 : frame[i] = FilledPacket[i - 5]
  <2>1. FilledPacket \in [ArgIndex -> Nat]
    BY <1>1, <1>3
  <2> QED
    <3> DEFINE r == reply.response
               w == WriteResponse(r, FilledPacket, n)
    <3>1. r \in Byte /\ n \in 0 .. ContactBytes
      BY <1>2
    <3> HIDE DEF r
    <3>2. /\ Len(w.stored) = n + 5
          /\ SubSeq(w.stored, 1, w.length) \in Seq(Nat)
          /\ Len(SubSeq(w.stored, 1, w.length)) = n + 4
          /\ SubSeq(w.stored, 1, w.length)[1] = ReplyByte
          /\ SubSeq(w.stored, 1, w.length)[4] = r
          /\ SubSeq(w.stored, 1, w.length)[2] + Radix * SubSeq(w.stored, 1, w.length)[3] = n + 1
          /\ \A i \in 5 .. n + 4 : SubSeq(w.stored, 1, w.length)[i] = FilledPacket[i - 5]
      BY ONLY <2>1, <3>1, FrameFacts, ZenonT(30)
    <3> QED
      BY ONLY <1>13, <3>2 DEF r, stored, frame
<1> HIDE DEF frame, stored
<1>5. n \in Nat /\ n <= 147 /\ MAX_FRAME_SIZE \in Nat /\ n + 5 <= MAX_FRAME_SIZE
  BY <1>2, ServerSizes
<1>6. WellFormedAt(new, Len(line) + 1)
  <2>1. ASSUME NEW i \in 5 .. n + 4 PROVE frame[i] = Len(line) + 1
    <3>1. i - 5 \in 0 .. n - 1
      BY <1>5
    <3> QED
      BY <1>3, <1>4, <3>1
  <2>2. HeaderSize = 3 /\ n + 4 > 3 /\ (n + 4) - 3 = n + 1
    BY <1>5 DEF HeaderSize
  <2>3. new.stored = Len(stored) /\ new.frame = frame
    OBVIOUS
  <2> HIDE DEF new
  <2>4. \A i \in HeaderSize + 2 .. Len(frame) : frame[i] \in {0, Len(line) + 1}
    BY <1>4, <2>1, <2>2
  <2> QED
    BY <1>4, <1>5, <2>2, <2>3, <2>4 DEF WellFormedAt
<1>7. new \in Frames /\ Response(new) = reply.response
  <2>1. Len(stored) \in Nat
    BY <1>4, <1>5
  <2> QED
    BY <1>1, <1>2, <1>4, <2>1 DEF Frames, Response, HeaderSize
<1>8. /\ tx_packet' = FilledPacket /\ todo' = Tail(todo) /\ line' = Append(line, new)
  BY <1>1 DEF HandOver, frame, stored
<1>9. new.call = Len(calls) /\ new.count = reply.count
  OBVIOUS
<1> HIDE DEF new
<1>10. /\ line' \in Seq(Frames) /\ Len(line') = Len(line) + 1
       /\ line'[Len(line) + 1] = new
       /\ \A k \in 1 .. Len(line) : line'[k] = line[k]
  BY <1>1, <1>7, <1>8, AppendProperties
<1>11. /\ todo' \in Seq(Replies) /\ Len(todo') = Len(todo) - 1
       /\ \A i \in 1 .. Len(todo') : todo'[i] = todo[i + 1]
  BY <1>1, <1>8, HeadTailProperties
<1>12. tx_packet' \in [ArgIndex -> 0 .. Len(line')]
  BY <1>3, <1>8, <1>10
<1> QED
  BY <1>1, <1>6, <1>7, <1>9, <1>10, <1>11, <1>12 DEF reply

(***************************************************************************)
(* How many replies to a call are on the line, as numbers.                 *)
(***************************************************************************)
LEMMA SentFacts ==
    ASSUME ServerInv
    PROVE  /\ Len(calls) \in Nat /\ Len(line) \in Nat /\ Len(todo) \in Nat
           /\ calls = <<>> <=> Len(calls) = 0
           /\ todo = <<>> <=> Len(todo) = 0
           /\ \A n \in 1 .. Len(calls) : Due(n) \in Nat \ {0} /\ Sent(n) \in Nat
<1>1. /\ calls \in Seq(CallRecords) /\ todo \in Seq(Replies) /\ line \in Seq(Frames)
  BY DEF ServerInv, ServerTypeOK, TypeOK
<1>2. /\ Len(calls) \in Nat /\ Len(line) \in Nat /\ Len(todo) \in Nat
      /\ calls = <<>> <=> Len(calls) = 0
      /\ todo = <<>> <=> Len(todo) = 0
  BY <1>1, LenProperties, EmptySeq
<1>3. ASSUME NEW n \in 1 .. Len(calls) PROVE Due(n) \in Nat \ {0} /\ Sent(n) \in Nat
  <2>1. calls[n] \in CallRecords
    BY <1>1, ElementOfSeq
  <2>2. Due(n) \in Nat \ {0}
    <3>1. CASE RequestOf(calls[n]) = 4
      BY <2>1, <3>1, RepliesFacts DEF Due, Bracket, Contacts
    <3>2. CASE RequestOf(calls[n]) # 4
      BY <2>1, <3>2, RepliesFacts DEF Due, Single
    <3> QED
      BY <3>1, <3>2
  <2>3. CASE n = Len(calls)
    <3>1. Sent(Len(calls)) \in Nat
      BY <1>2, <2>3 DEF ServerInv, RepliesInOrder
    <3> QED
      BY <2>2, <2>3, <3>1
  <2>4. CASE n # Len(calls)
    BY <2>2, <2>4 DEF Sent
  <2> QED
    BY <2>3, <2>4
<1> QED
  BY <1>2, <1>3

(***************************************************************************)
(* Handing over the next reply keeps the answers in order.                 *)
(***************************************************************************)
LEMMA HandOverInOrder ==
    ASSUME ServerInv, todo # <<>>, NEW taken \in Nat, HandOver(taken), calls' = calls
    PROVE  RepliesInOrder'
<1>0. /\ Len(calls) \in Nat \ {0} /\ Len(line) \in Nat /\ Len(todo) \in Nat \ {0}
      /\ \A n \in 1 .. Len(calls) : Due(n) \in Nat \ {0} /\ Sent(n) \in Nat
  BY SentFacts DEF ServerInv, RepliesInOrder
<1> PICK last \in Nat \ {0}, new \in Nat \ {0} : last = Len(calls) /\ new = Len(line) + 1
  BY <1>0
<1>1. /\ Len(calls) \in Nat /\ Len(line) \in Nat /\ Len(todo) \in Nat \ {0}
      /\ last \in 1 .. Len(calls) /\ last = Len(calls) /\ new = Len(line) + 1
      /\ \A n \in 1 .. Len(calls) : Due(n) \in Nat \ {0} /\ Sent(n) \in Nat
  BY <1>0
<1>2. /\ Len(line') = new /\ \A k \in 1 .. Len(line) : line'[k] = line[k]
      /\ line'[new].call = last /\ line'[new].count = todo[1].count
      /\ Response(line'[new]) = todo[1].response
      /\ Len(todo') = Len(todo) - 1
      /\ \A i \in 1 .. Len(todo') : todo'[i] = todo[i + 1]
  BY HandOverFacts
<1>3. ASSUME NEW n \in 1 .. Len(calls)
      PROVE  Sent(n)' = IF n = last THEN Sent(n) + 1 ELSE Sent(n)
  <2>1. Due(n)' = Due(n)
    BY DEF Due
  <2>2. CASE n = last
    <3>1. Sent(n) = Due(n) - Len(todo) /\ Sent(n)' = Due(n) - (Len(todo) - 1)
      BY <1>2, <2>1, <2>2 DEF Sent
    <3> QED
      BY <1>1, <2>2, <3>1
  <2>3. CASE n # last
    BY <2>1, <2>3 DEF Sent
  <2> QED
    BY <2>2, <2>3
<1>4. /\ \A k \in 1 .. Len(line) : line[k].call \in 1 .. Len(calls)
      /\ \A i \in 1 .. Len(todo) : todo[i] = packet_callback(calls[last])[Sent(last) + i]
  BY <1>1 DEF ServerInv, RepliesInOrder
<1>5. \A k \in 1 .. Len(line') : line'[k].call \in 1 .. Len(calls')
  <2> SUFFICES ASSUME NEW k \in 1 .. new PROVE line'[k].call \in 1 .. Len(calls)
    BY <1>2
  <2>1. CASE k = new
    BY <1>1, <1>2, <2>1
  <2>2. CASE k # new
    <3>1. k \in 1 .. Len(line)
      BY <1>1, <2>2
    <3>2. line'[k] = line[k]
      BY <1>2, <3>1
    <3> QED
      BY <1>4, <3>1, <3>2
  <2> QED
    BY <2>1, <2>2
<1>6. ASSUME NEW n \in 1 .. Len(calls)
      PROVE  \E first \in 0 .. Len(line') :
                /\ first + Sent(n)' <= Len(line')
                /\ n = last => first + Sent(n)' = Len(line')
                /\ LieAt(n, first)'
  <2>1. PICK first \in 0 .. Len(line) :
           /\ first + Sent(n) <= Len(line)
           /\ n = last => first + Sent(n) = Len(line)
           /\ LieAt(n, first)
    BY DEF ServerInv, RepliesInOrder
  <2> DEFINE sent == Sent(n)
             replies == packet_callback(calls[n])
  <2>2. /\ \A k \in 1 .. Len(line) : line[k].call = n <=> k \in first + 1 .. first + sent
        /\ \A i \in 1 .. sent : /\ Response(line[first + i]) = replies[i].response
                                /\ line[first + i].count = replies[i].count
    BY <2>1 DEF LieAt
  <2>3. sent \in Nat /\ first + sent <= Len(line) /\ Sent(n)' = IF n = last THEN sent + 1 ELSE sent
    BY <1>1, <1>3, <2>1
  <2>4. ASSUME NEW k \in 1 .. new
        PROVE  line'[k].call = n <=> k \in first + 1 .. first + Sent(n)'
    <3>1. CASE k = new /\ n = last
      BY <1>1, <1>2, <2>1, <2>3, <3>1, SMTT(30)
    <3>2. CASE k = new /\ n # last
      BY <1>1, <1>2, <2>1, <2>3, <3>2
    <3>3. CASE k # new /\ n = last
      <4>1. k \in 1 .. Len(line) /\ line'[k] = line[k] /\ first + sent = Len(line)
        BY <1>1, <1>2, <2>1, <3>3, SMTT(30)
      <4> QED
        BY <1>1, <2>2, <2>3, <3>3, <4>1
    <3>4. CASE k # new /\ n # last
      <4>1. k \in 1 .. Len(line) /\ line'[k] = line[k]
        BY <1>1, <1>2, <3>4
      <4> QED
        BY <1>1, <2>2, <2>3, <3>4, <4>1
    <3> QED
      BY <3>1, <3>2, <3>3, <3>4
  <2>5. ASSUME NEW i \in 1 .. Sent(n)'
        PROVE  /\ Response(line'[first + i]) = replies[i].response
               /\ line'[first + i].count = replies[i].count
    <3>1. CASE i <= sent
      <4>1. i \in 1 .. sent /\ first + i \in 1 .. Len(line)
        BY <1>1, <2>3, <3>1
      <4>2. line'[first + i] = line[first + i]
        BY <1>2, <4>1
      <4> QED
        BY <2>2, <4>1, <4>2
    <3>2. CASE i > sent
      <4>0. n = last
        BY <2>3, <3>2
      <4>1. n = last /\ i = sent + 1 /\ first + i = new
        <5>1. i \in 1 .. sent + 1 /\ first + sent = Len(line)
          BY <2>1, <2>3, <4>0
        <5>2. sent \in Nat /\ first \in Nat /\ new = Len(line) + 1 /\ Len(line) \in Nat
          BY <1>1, <2>3
        <5> HIDE DEF sent
        <5>3. i = sent + 1
          BY <3>2, <5>1, <5>2
        <5> QED
          BY <4>0, <5>1, <5>2, <5>3
      <4>2. todo[1] = replies[i]
        <5>1. 1 \in 1 .. Len(todo)
          BY <1>1
        <5>2. todo[1] = packet_callback(calls[last])[Sent(last) + 1]
          BY <1>4, <5>1
        <5> QED
          BY <4>1, <5>2
      <4> QED
        BY <1>2, <4>1, <4>2
    <3> QED
      BY <2>3, <3>1, <3>2
  <2>6. LieAt(n, first)'
    BY <1>2, <2>4, <2>5 DEF LieAt
  <2>7. first \in 0 .. Len(line')
    BY <1>1, <1>2
  <2>8. first + Sent(n)' <= Len(line') /\ (n = last => first + Sent(n)' = Len(line'))
    <3>1. /\ sent \in Nat /\ first \in Nat /\ Len(line) \in Nat
          /\ first + sent <= Len(line) /\ Len(line') = Len(line) + 1
      BY <1>1, <1>2, <2>3
    <3>2. CASE n = last
      <4>1. Sent(n)' = sent + 1 /\ first + sent = Len(line)
        BY <2>1, <2>3, <3>2
      <4> HIDE DEF sent
      <4> QED
        BY <3>1, <4>1
    <3>3. CASE n # last
      <4>1. Sent(n)' = sent
        BY <2>3, <3>3
      <4> HIDE DEF sent
      <4> QED
        BY <3>1, <3>3, <4>1
    <3> QED
      BY <3>2, <3>3
  <2> QED
    BY <2>6, <2>7, <2>8
<1>7. \A i \in 1 .. Len(todo') :
         todo'[i] = packet_callback(calls'[last])[Sent(last)' + i]
  <2> SUFFICES ASSUME NEW i \in 1 .. Len(todo')
               PROVE  todo'[i] = packet_callback(calls[last])[Sent(last)' + i]
    OBVIOUS
  <2>1. i + 1 \in 1 .. Len(todo) /\ Sent(last)' + i = Sent(last) + (i + 1)
    <3>1. Sent(last)' = Sent(last) + 1 /\ Sent(last) \in Nat
      BY <1>1, <1>3
    <3>2. i \in Nat /\ i >= 1 /\ i <= Len(todo) - 1
      BY <1>1, <1>2
    <3> QED
      BY <1>1, <3>1, <3>2
  <2> QED
    BY <1>2, <1>4, <2>1
<1>8. Sent(last)' \in Nat
  BY <1>1, <1>3
<1>9. calls' # <<>>
  BY <1>1, SentFacts
<1> QED
  BY <1>5, <1>6, <1>7, <1>8, <1>9 DEF RepliesInOrder

(***************************************************************************)
(* The reader's callback is called once, with a new call.                  *)
(***************************************************************************)
LEMMA CallbackFacts ==
    ASSUME ServerInv, Callback
    PROVE  \E call \in CallRecords :
              /\ calls' = Append(calls, call) /\ Len(calls') = Len(calls) + 1
              /\ calls'[Len(calls) + 1] = call
              /\ \A n \in 1 .. Len(calls) : calls'[n] = calls[n]
              /\ todo = <<>> /\ todo' = packet_callback(call)
<1>1. TypeOK /\ TypeOK' /\ calls \in Seq(CallRecords) /\ Len(calls) \in Nat
  <2>1. TypeOK /\ [Next]_vars
    BY DEF ServerInv, ServerTypeOK, Callback, Next, Step
  <2> QED
    BY <2>1, TypePreserved, LenProperties DEF TypeOK
<1> DEFINE call == [end    |-> consumed', length |-> expected_length,
                    packet |-> command_packet_buffer', error |-> ParseError(FrameBody(rx_buffer'))]
<1>2. calls' = Append(calls, call) /\ todo = <<>> /\ todo' = packet_callback(calls'[Len(calls')])
  BY DEF Callback, ReceiveFrame, HandleFrame, Listening
<1>3. calls' \in Seq(CallRecords)
  BY <1>1 DEF TypeOK
<1> HIDE DEF call
<1>4. /\ Len(calls') = Len(calls) + 1 /\ calls'[Len(calls) + 1] = call
      /\ \A n \in 1 .. Len(calls) : calls'[n] = calls[n]
  <2> DEFINE any == CallRecords \cup {call}
  <2>1. calls \in Seq(any) /\ call \in any
    <3>1. CallRecords \subseteq any
      OBVIOUS
    <3> QED
      BY ONLY <1>1, <3>1, SeqMonotonic
  <2> HIDE DEF any
  <2> QED
    BY <1>1, <1>2, <2>1, AppendProperties
<1>5. call \in CallRecords
  <2>1. Len(calls) + 1 \in 1 .. Len(calls')
    BY <1>1, <1>4
  <2> QED
    BY <1>3, <1>4, <2>1, ElementOfSeq
<1> QED
  BY <1>2, <1>4, <1>5

(***************************************************************************)
(* A callback finds nothing owed and owes its replies, none of them sent.  *)
(***************************************************************************)
LEMMA CallbackInOrder ==
    ASSUME ServerInv, Callback
    PROVE  RepliesInOrder'
<1>1. PICK call \in CallRecords :
         /\ calls' = Append(calls, call) /\ Len(calls') = Len(calls) + 1
         /\ calls'[Len(calls) + 1] = call
         /\ \A n \in 1 .. Len(calls) : calls'[n] = calls[n]
         /\ todo = <<>> /\ todo' = packet_callback(call)
  BY CallbackFacts
<1>2. /\ Len(calls) \in Nat /\ Len(line) \in Nat /\ Len(todo) = 0 /\ line' = line
      /\ \A n \in 1 .. Len(calls) : Due(n) \in Nat \ {0} /\ Sent(n) \in Nat
      /\ \A k \in 1 .. Len(line) : line[k].call \in 1 .. Len(calls)
  BY <1>1, SentFacts DEF ServerInv, RepliesInOrder, Callback
<1> PICK last \in Nat \ {0} : last = Len(calls) + 1
  BY <1>2
<1>3. ASSUME NEW n \in 1 .. Len(calls) PROVE Sent(n)' = Sent(n)
  <2>1. Due(n)' = Due(n)
    BY <1>1 DEF Due
  <2>2. Sent(n) = Due(n) /\ Sent(n)' = Due(n)'
    BY <1>1, <1>2 DEF Sent
  <2> QED
    BY <2>1, <2>2
<1>4. Sent(last)' = 0
  <2>1. Due(last)' = Len(packet_callback(call)) /\ Len(packet_callback(call)) \in Nat
    BY <1>1, RepliesFacts, LenProperties DEF Due
  <2> QED
    BY <1>1, <2>1 DEF Sent
<1>5. ASSUME NEW n \in 1 .. last
      PROVE  \E first \in 0 .. Len(line') :
                /\ first + Sent(n)' <= Len(line')
                /\ n = Len(calls') => first + Sent(n)' = Len(line')
                /\ LieAt(n, first)'
  <2>1. CASE n = last
    <3>1. \A k \in 1 .. Len(line') : line'[k].call # last
      BY <1>2
    <3>2. LieAt(n, Len(line))'
      BY <1>2, <1>4, <2>1, <3>1 DEF LieAt
    <3> QED
      BY <1>2, <1>4, <2>1, <3>2
  <2>2. CASE n # last
    <3>1. n \in 1 .. Len(calls) /\ n # Len(calls')
      BY <1>1, <1>2, <2>2
    <3>2. PICK first \in 0 .. Len(line) : first + Sent(n) <= Len(line) /\ LieAt(n, first)
      BY <3>1 DEF ServerInv, RepliesInOrder
    <3>3. LieAt(n, first)'
      BY <1>1, <1>2, <1>3, <3>1, <3>2 DEF LieAt, Response
    <3> QED
      BY <1>2, <1>3, <3>1, <3>2, <3>3
  <2> QED
    BY <2>1, <2>2
<1>6. \A i \in 1 .. Len(todo') : todo'[i] = packet_callback(calls'[last])[Sent(last)' + i]
  <2>1. packet_callback(call) \in Seq(Replies) /\ Len(packet_callback(call)) \in Nat
    BY RepliesFacts, LenProperties
  <2> QED
    BY <1>1, <1>4, <2>1
<1>7. last = Len(calls') /\ Sent(last)' \in Nat /\ calls' # <<>>
  <2>1. last = Len(calls') /\ Sent(last)' \in Nat
    BY <1>1, <1>4
  <2> QED
    BY <2>1, EmptySeq
<1>8. \A k \in 1 .. Len(line') : line'[k].call \in 1 .. Len(calls')
  BY <1>1, <1>2
<1> QED
  BY <1>5, <1>6, <1>7, <1>8 DEF RepliesInOrder

(***************************************************************************)
(* A step that touches neither the calls nor the replies.                  *)
(***************************************************************************)
LEMMA RepliesUntouched ==
    ASSUME ServerInv, UNCHANGED <<calls, todo, tx_packet, line>>,
           TypeOK', status' \in {"starting", "running", "stopped"}, failures' = failures
    PROVE  ServerInv'
<1>1. ServerTypeOK' /\ FramesWellFormed' /\ todo' \in Seq(Replies) /\ line' \in Seq(Frames)
  BY DEF ServerInv, ServerTypeOK, FramesWellFormed
<1>2. ASSUME NEW n \in 1 .. Len(calls) PROVE Due(n)' = Due(n) /\ Sent(n)' = Sent(n)
  BY DEF Due, Sent
<1>3. ASSUME NEW n \in 1 .. Len(calls), NEW first \in 0 .. Len(line), LieAt(n, first)
      PROVE  LieAt(n, first)'
  BY <1>2, <1>3 DEF LieAt, Response
<1>4. RepliesInOrder'
  BY <1>2, <1>3 DEF ServerInv, RepliesInOrder, Sent, Due
<1> QED
  BY <1>1, <1>4 DEF ServerInv

(***************************************************************************)
(* Replies in order, each with a field bound, have the types of            *)
(* ServerTypeOK.                                                           *)
(***************************************************************************)
LEMMA TodoTypes ==
    ASSUME NEW replies \in Seq(Replies), NEW i \in 1 .. Len(replies)
    PROVE  replies[i] \in [response : Byte, fields : 0 .. MAX_PAYLOAD_SIZE,
                           args_length : 0 .. MAX_PAYLOAD_SIZE, count : Nat]
<1>1. replies[i] \in Replies
  BY ElementOfSeq
<1>2. 0 .. ContactBytes \subseteq 0 .. MAX_PAYLOAD_SIZE
  BY ServerSizes
<1> QED
  BY <1>1, <1>2 DEF Replies

(***************************************************************************)
(* Whatever the port takes of it, a frame handed over is the next that is  *)
(* due.                                                                    *)
(***************************************************************************)
LEMMA HandOverPreserves ==
    ASSUME ServerInv, todo # <<>>, NEW taken \in Nat, HandOver(taken),
           UNCHANGED <<vars, status>>, failures' \in 0 .. MaxFailures
    PROVE  ServerInv'
<1>1. /\ Len(line) \in Nat /\ line' \in Seq(Frames) /\ Len(line') = Len(line) + 1
      /\ \A k \in 1 .. Len(line) : line'[k] = line[k]
      /\ WellFormedAt(line'[Len(line) + 1], Len(line) + 1)
      /\ todo' \in Seq(Replies)
      /\ tx_packet' \in [ArgIndex -> 0 .. Len(line')]
  BY HandOverFacts
<1>2. ServerTypeOK'
  <2>1. TypeOK'
    BY DEF ServerInv, ServerTypeOK, TypeOK, vars
  <2> QED
    BY <1>1, <2>1, TodoTypes DEF ServerInv, ServerTypeOK
<1>3. FramesWellFormed'
  <2>1. ASSUME NEW k \in 1 .. Len(line') PROVE WellFormedAt(line'[k], k)
    <3>1. CASE k = Len(line) + 1
      BY <1>1, <3>1
    <3>2. CASE k # Len(line) + 1
      <4>1. k \in 1 .. Len(line) /\ line'[k] = line[k]
        BY <1>1, <3>2
      <4> QED
        BY <4>1 DEF WellFormedAt, ServerInv, FramesWellFormed
    <3> QED
      BY <3>1, <3>2
  <2> QED
    BY <2>1 DEF WellFormedAt, FramesWellFormed
<1>4. RepliesInOrder'
  BY HandOverInOrder DEF vars
<1> QED
  BY <1>1, <1>2, <1>3, <1>4 DEF ServerInv

(***************************************************************************)
(* The callback keeps the invariant.                                       *)
(***************************************************************************)
LEMMA CallbackPreserves == ASSUME ServerInv, Callback PROVE ServerInv'
<1>1. PICK call \in CallRecords : todo' = packet_callback(call)
  BY CallbackFacts
<1>2. todo' \in Seq(Replies) /\ line' = line /\ Len(line) \in Nat
  BY <1>1, RepliesFacts, SentFacts DEF Callback
<1>3. tx_packet' \in [ArgIndex -> 0 .. Len(line')]
  BY <1>2 DEF Callback, NoArguments
<1>4. TypeOK'
  BY TypePreserved DEF ServerInv, ServerTypeOK, Callback, Next, Step
<1>5. ServerTypeOK'
  BY <1>2, <1>3, <1>4, TodoTypes DEF ServerInv, ServerTypeOK, Callback
<1>6. FramesWellFormed' /\ line' \in Seq(Frames)
  BY <1>2 DEF ServerInv, FramesWellFormed
<1> QED
  BY <1>2, <1>5, <1>6, CallbackInOrder DEF ServerInv

(***************************************************************************)
(* So does every step of the server.                                       *)
(***************************************************************************)
LEMMA ServerInvPreserved == ServerInv /\ [ServerNext]_allVars => ServerInv'
<1> SUFFICES ASSUME ServerInv, [ServerNext]_allVars PROVE ServerInv'
  OBVIOUS
<1>1. TypeOK' /\ status \in {"starting", "running", "stopped"}
  BY TypePreserved, ServerStepsReader DEF ServerInv, ServerTypeOK
<1>2. CASE Start
  BY <1>1, <1>2, RepliesUntouched DEF Start, vars
<1>3. ASSUME NEW chunk \in Chunks, ReadPort(chunk) PROVE ServerInv'
  BY <1>1, <1>3, RepliesUntouched DEF ReadPort, Read, server
<1>4. CASE ReadFails
  BY <1>1, <1>4, RepliesUntouched DEF ReadFails, vars
<1>5. CASE Scan
  <2>1. UNCHANGED <<calls, todo, tx_packet, line, status, failures>>
    BY <1>5 DEF Scan, server, DiscardByte, FindStart, StoreLength, RejectLength, ReceivePart
  <2> QED
    BY <1>1, <2>1, RepliesUntouched
<1>6. CASE Callback
  BY <1>6, CallbackPreserves
<1>7. CASE Transmit
  <2>1. PICK taken \in Nat : HandOver(taken)
    <3>1. todo # <<>> /\ HandOver(NextFrame.length)
      BY <1>7 DEF Transmit
    <3>2. NextFrame.length \in Nat
      BY <3>1, NextFrameLength
    <3> QED
      BY <3>1, <3>2
  <2>2. failures' \in 0 .. MaxFailures
    BY <1>7 DEF Transmit, ServerInv, ServerTypeOK
  <2> QED
    BY <1>7, <2>1, <2>2, HandOverPreserves DEF Transmit
<1>8. CASE TransmitShort
  <2>1. PICK taken \in Nat : HandOver(taken)
    BY <1>8 DEF TransmitShort, HeaderSize
  <2>2. failures' \in 0 .. MaxFailures
    BY <1>8, FailuresAssumption DEF TransmitShort, ServerInv, ServerTypeOK
  <2> QED
    BY <1>8, <2>1, <2>2, HandOverPreserves DEF TransmitShort
<1>9. CASE UNCHANGED allVars
  BY <1>1, <1>9, RepliesUntouched DEF allVars
<1> QED
  BY <1>2, <1>3, <1>4, <1>5, <1>6, <1>7, <1>8, <1>9 DEF ServerNext, ServerStep, Stopped

(***************************************************************************)
(* Before the port is open nothing was asked and nothing is owed.          *)
(***************************************************************************)
LEMMA ServerInvInitially == ServerInit => ServerInv
<1> SUFFICES ASSUME ServerInit PROVE ServerInv
  OBVIOUS
<1>1. /\ Init /\ status = "starting" /\ todo = <<>> /\ tx_packet = NoArguments
      /\ line = <<>> /\ failures = 0 /\ calls = <<>>
  BY DEF ServerInit, Init
<1>2. Len(<<>>) = 0 /\ <<>> \in Seq(Replies) /\ <<>> \in Seq(Frames)
  BY EmptySeq
<1>3. ServerTypeOK
  BY <1>1, <1>2, TypeInitially, FailuresAssumption DEF ServerTypeOK, NoArguments
<1> QED
  BY <1>1, <1>2, <1>3 DEF ServerInv, FramesWellFormed, RepliesInOrder

(***************************************************************************)
(* The inductive invariant holds of every behaviour of the server.         *)
(***************************************************************************)
THEOREM ServerInvariant == ServerSpec => []ServerInv
<1> QED
  BY ServerInvInitially, ServerInvPreserved, PTL DEF ServerSpec

(***************************************************************************)
(* The variables of the server keep their types: no reply asks the writer  *)
(* for more argument bytes than tx_packet has.                             *)
(***************************************************************************)
THEOREM ServerTypes == ServerSpec => []ServerTypeOK
<1>1. ServerInv => ServerTypeOK
  BY DEF ServerInv
<1> QED
  BY <1>1, ServerInvariant, PTL

(***************************************************************************)
(* Every frame on the line is well-formed and carries only bytes set for   *)
(* it or zeroed, and tx_buffer is never overrun.                           *)
(***************************************************************************)
THEOREM FramesReadable == ServerSpec => []FramesWellFormed
<1>1. ServerInv => FramesWellFormed
  BY DEF ServerInv
<1> QED
  BY <1>1, ServerInvariant, PTL

-----------------------------------------------------------------------------

(***************************************************************************)
(* The replies to a call that has been answered are together on the line,  *)
(* and they are those packet_callback has for it.                          *)
(***************************************************************************)
LEMMA AnsweredInFull ==
    ASSUME ServerInv, NEW n \in 1 .. Len(calls), n < Len(calls) \/ todo = <<>>
    PROVE  \E first \in 1 .. Len(line) :
              LET replies == packet_callback(calls[n])
                  last    == first + Len(replies) - 1
              IN  /\ last \in first .. Len(line)
                  /\ \A k \in 1 .. Len(line) : line[k].call = n <=> k \in first .. last
                  /\ \A i \in 1 .. Len(replies) :
                        /\ Response(line[first + i - 1]) = replies[i].response
                        /\ line[first + i - 1].count = replies[i].count
<1>1. /\ Len(calls) \in Nat /\ Len(line) \in Nat /\ Due(n) \in Nat \ {0}
      /\ Sent(n) = Due(n) /\ Due(n) = Len(packet_callback(calls[n]))
  BY SentFacts DEF Sent, Due
<1>2. PICK before \in 0 .. Len(line) : before + Due(n) <= Len(line) /\ LieAt(n, before)
  BY <1>1 DEF ServerInv, RepliesInOrder
<1> DEFINE replies == packet_callback(calls[n])
           first   == before + 1
           last    == first + Len(replies) - 1
<1> HIDE DEF replies
<1>3. /\ Len(replies) = Due(n) /\ last = before + Due(n)
      /\ first \in 1 .. Len(line) /\ last \in first .. Len(line)
  BY <1>1, <1>2 DEF replies
<1>4. \A k \in 1 .. Len(line) : line[k].call = n <=> k \in first .. last
  BY <1>1, <1>2, <1>3 DEF LieAt
<1>5. ASSUME NEW i \in 1 .. Len(replies)
      PROVE  /\ Response(line[first + i - 1]) = replies[i].response
             /\ line[first + i - 1].count = replies[i].count
  <2>1. first + i - 1 = before + i /\ i \in 1 .. Sent(n)
    BY <1>1, <1>3
  <2> QED
    BY <1>2, <2>1 DEF LieAt, replies
<1> QED
  BY <1>3, <1>4, <1>5 DEF replies

(***************************************************************************)
(* Every call is answered as the comments on the response codes say, and   *)
(* its answer is not mixed with another.                                   *)
(***************************************************************************)
THEOREM Answered == ServerSpec => []CallsAnswered
<1>1. ASSUME ServerInv PROVE CallsAnswered
  <2> SUFFICES ASSUME NEW n \in 1 .. Len(calls), n < Len(calls) \/ todo = <<>>
               PROVE  \E first \in 1 .. Len(line) : \E last \in first .. Len(line) :
                         /\ \A k \in 1 .. Len(line) :
                               line[k].call = n <=> k \in first .. last
                         /\ IF calls[n].error # "NONE" THEN
                               last = first /\ Response(line[first]) = ERR
                            ELSE IF calls[n].packet.command = 4 THEN
                               /\ last > first
                               /\ Response(line[first]) = CONTACTS_START
                               /\ line[first].count = last - first - 1
                               /\ \A k \in first + 1 .. last - 1 : Response(line[k]) = CONTACT
                               /\ Response(line[last]) = END_OF_CONTACTS
                            ELSE
                               /\ last = first
                               /\ Response(line[first]) \in
                                     Protocol!NamedReplies(calls[n].packet.command)
    BY DEF CallsAnswered
  <2> DEFINE replies == packet_callback(calls[n])
  <2>1. PICK first \in 1 .. Len(line) :
           /\ first + Len(replies) - 1 \in first .. Len(line)
           /\ \A k \in 1 .. Len(line) :
                 line[k].call = n <=> k \in first .. first + Len(replies) - 1
           /\ \A i \in 1 .. Len(replies) :
                 /\ Response(line[first + i - 1]) = replies[i].response
                 /\ line[first + i - 1].count = replies[i].count
    BY <1>1, AnsweredInFull
  <2>2. /\ IF RequestOf(calls[n]) = 4 THEN Bracket(replies)
           ELSE Single(replies, RequestOf(calls[n]))
        /\ Len(line) \in Nat
    BY <1>1, RepliesFacts, SentFacts, ElementOfSeq DEF ServerInv, ServerTypeOK, TypeOK
  <2> HIDE DEF replies
  <2> DEFINE last == first + Len(replies) - 1
  <2>3. CASE RequestOf(calls[n]) = 4
    <3>1. calls[n].error = "NONE" /\ calls[n].packet.command = 4
      BY <2>3 DEF RequestOf
    <3>0. Bracket(replies) /\ Len(replies) = 4
      BY <2>2, <2>3 DEF Bracket, Contacts
    <3>2. /\ Len(replies) = 4 /\ last = first + 3
          /\ replies[1].response = CONTACTS_START /\ replies[1].count = 2
          /\ replies[2].response = CONTACT /\ replies[3].response = CONTACT
          /\ replies[4].response = END_OF_CONTACTS
      BY <3>0 DEF Bracket, Contacts
    <3>3. /\ Response(line[first]) = replies[1].response /\ line[first].count = replies[1].count
          /\ Response(line[first + 1]) = replies[2].response
          /\ Response(line[first + 2]) = replies[3].response
          /\ Response(line[first + 3]) = replies[4].response
      <4>1. ASSUME NEW i \in 1 .. 4, NEW k \in Nat, k = first + i - 1
            PROVE  Response(line[k]) = replies[i].response /\ line[k].count = replies[i].count
        BY <2>1, <3>2, <4>1
      <4>2. first = first + 1 - 1 /\ first + 1 = first + 2 - 1 /\ first + 2 = first + 3 - 1
            /\ first + 3 = first + 4 - 1
        OBVIOUS
      <4> QED
        BY <4>1, <4>2
    <3>4. \A k \in first + 1 .. last - 1 : Response(line[k]) = CONTACT
      <4>1. \A k \in first + 1 .. last - 1 : k = first + 1 \/ k = first + 2
        BY <3>2
      <4> QED
        BY <3>2, <3>3, <4>1
    <3>5. last > first /\ line[first].count = last - first - 1
      BY <3>2, <3>3
    <3>6. /\ last \in first .. Len(line)
          /\ \A k \in 1 .. Len(line) : line[k].call = n <=> k \in first .. last
      BY <2>1
    <3>7. Response(line[last]) = END_OF_CONTACTS
      BY <3>2, <3>3
    <3> HIDE DEF last
    <3> QED
      BY <3>1, <3>2, <3>3, <3>4, <3>5, <3>6, <3>7
  <2>4. CASE RequestOf(calls[n]) # 4
    <3>1. /\ Len(replies) = 1 /\ last = first
          /\ replies[1].response \in Protocol!NamedReplies(RequestOf(calls[n]))
      <4>1. Single(replies, RequestOf(calls[n]))
        BY <2>2, <2>4
      <4>2. Len(replies) = 1
        BY <4>1 DEF Single
      <4>3. last = first
        BY <4>2
      <4> QED
        BY <4>1, <4>2, <4>3 DEF Single
    <3>2. Response(line[first]) = replies[1].response
      <4>1. first + 1 - 1 = first /\ 1 \in 1 .. Len(replies)
        BY <3>1
      <4>2. Response(line[first + 1 - 1]) = replies[1].response
        BY <2>1, <4>1
      <4> QED
        BY <4>1, <4>2
    <3>3. /\ first \in first .. Len(line)
          /\ \A k \in 1 .. Len(line) : line[k].call = n <=> k \in first .. first
      BY <2>1, <3>1
    <3>4. CASE calls[n].error # "NONE"
      <4>1. Response(line[first]) = ERR
        BY <3>1, <3>2, <3>4, NamedFacts DEF RequestOf, ERR
      <4> QED
        BY <3>3, <3>4, <4>1
    <3>5. CASE calls[n].error = "NONE"
      <4>1. /\ calls[n].packet.command # 4
            /\ Response(line[first]) \in Protocol!NamedReplies(calls[n].packet.command)
        BY <2>4, <3>1, <3>2, <3>5 DEF RequestOf
      <4> QED
        BY <3>3, <3>5, <4>1
    <3> QED
      BY <3>4, <3>5
  <2> QED
    BY <2>3, <2>4
<1> QED
  BY <1>1, ServerInvariant, PTL

(***************************************************************************)
(* An accepted command is in the table, and was received with as many      *)
(* arguments as the table asks for.                                        *)
(***************************************************************************)
LEMMA AcceptedCall ==
    ASSUME IInv, NEW n \in 1 .. Len(calls), calls[n].error = "NONE"
    PROVE  /\ calls[n].packet.command \in DOMAIN companion_command_definitions
           /\ companion_command_definitions[calls[n].packet.command].min
                 <= calls[n].length - HeaderSize - 1
<1> DEFINE body == BodyOf(calls[n])
<1>1. /\ calls[n] \in CallRecords /\ IsFrame(calls[n]) /\ HeaderSize = 3
      /\ ParseError(body) = "NONE" /\ calls[n].packet.command = body[1]
  BY ElementOfSeq DEF IInv, TypeOK, CallsCutFromStream, NoStaleArguments, HeaderSize
<1>2. calls[n].length \in Nat /\ HeaderSize <= calls[n].length
  BY <1>1 DEF CallRecords, IsFrame
<1>3. Len(body) = calls[n].length - HeaderSize
  BY <1>1, <1>2 DEF BodyOf
<1> HIDE DEF body
<1>4. ~(Len(body) < 1) /\ Known(body[1]) /\ LengthAllowed(body[1], Len(body) - 1)
  BY <1>1 DEF ParseError
<1> QED
  BY <1>1, <1>3, <1>4 DEF Known, LengthAllowed

AcceptedCommands ==
    \A n \in 1 .. Len(calls) :
       calls[n].error = "NONE" =>
          calls[n].packet.command \in DOMAIN companion_command_definitions

(***************************************************************************)
(* Every accepted call names a command of the table.                       *)
(***************************************************************************)
LEMMA CommandsAccepted == IInv => AcceptedCommands
  BY AcceptedCall DEF AcceptedCommands

(***************************************************************************)
(* What the callback reads of a command was received with it, if the table *)
(* asks for it.                                                            *)
(***************************************************************************)
THEOREM FieldsReceived == ServerSpec => []FieldsReadWereReceived
<1>1. ASSUME IInv PROVE FieldsReadWereReceived
  <2> SUFFICES ASSUME NEW n \in 1 .. Len(calls), calls[n].error = "NONE"
               PROVE  FieldsRead(calls[n].packet.command) <= calls[n].length - HeaderSize - 1
    BY DEF FieldsReadWereReceived
  <2> DEFINE command == calls[n].packet.command
             min     == companion_command_definitions[command].min
             read    == FieldsRead(command)
  <2>1. command \in DOMAIN companion_command_definitions /\ min <= calls[n].length - HeaderSize - 1
    BY <1>1, AcceptedCall
  <2>2. /\ read <= min /\ min \in Nat /\ calls[n].length \in Nat
        /\ read \in {0, 1, 12} /\ HeaderSize = 3
    <3>1. calls[n] \in CallRecords
      BY <1>1, ElementOfSeq DEF IInv, TypeOK
    <3>2. read \in {0, 1, 12}
      BY DEF FieldsRead
    <3> QED
      BY <2>1, <3>1, <3>2, FieldsAssumption, TableAssumption DEF CallRecords, HeaderSize
  <2> HIDE DEF min, read
  <2>3. read <= calls[n].length - HeaderSize - 1
    BY <2>1, <2>2
  <2> QED
    BY <2>3 DEF read
<1> QED
  BY <1>1, ServerRunsReader, InvariantHolds, PTL

-----------------------------------------------------------------------------

(***************************************************************************)
(* What is owed to the application when some replies are still to do.      *)
(***************************************************************************)
OwedFor(replies) ==
    IF replies = <<>> THEN "nothing"
    ELSE IF replies[1].response \in {CONTACT, END_OF_CONTACTS} THEN "rest"
    ELSE IF replies[1].response = CONTACTS_START THEN "start" ELSE "reply"

ContactsFor(replies) == IF OwedFor(replies) = "rest" THEN Len(replies) - 1 ELSE 0

OwedMatches ==
    /\ Owed = OwedFor(todo)
    /\ (IF InBracket THEN Len(todo) - 1 ELSE 0) = ContactsFor(todo)

(***************************************************************************)
(* What the server has still to transmit is what the protocol still owes.  *)
(***************************************************************************)
LEMMA OwedFacts == ServerInv => OwedMatches
<1> SUFFICES ASSUME ServerInv PROVE OwedMatches
  OBVIOUS
<1>1. CASE todo = <<>>
  BY <1>1 DEF OwedMatches, Owed, InBracket, OwedFor, ContactsFor
<1>2. CASE todo # <<>>
  <2>1. Head(todo) = todo[1]
    BY <1>2 DEF ServerInv
  <2> QED
    BY <1>2, <2>1 DEF OwedMatches, Owed, InBracket, OwedFor, ContactsFor
<1> QED
  BY <1>1, <1>2

(***************************************************************************)
(* The requests and replies so far, as sequences.                          *)
(***************************************************************************)
LEMMA ToldFacts ==
    ASSUME NEW n \in Nat, NEW f, NEW g, NEW x,
           f = [k \in 1 .. n |-> f[k]], g = [k \in 1 .. n + 1 |-> g[k]],
           \A k \in 1 .. n : g[k] = f[k], g[n + 1] = x
    PROVE  g = Append(f, x) /\ Len(f) = n
<1> DEFINE any == {f[k] : k \in 1 .. n} \cup {x}
<1>1. f \in [1 .. n -> any] /\ g \in [1 .. n + 1 -> any] /\ x \in any
  <2>1. \A k \in 1 .. n : f[k] \in any
    OBVIOUS
  <2>2. x \in any
    OBVIOUS
  <2> HIDE DEF any
  <2>3. f \in [1 .. n -> any]
    BY <2>1
  <2>4. ASSUME NEW k \in 1 .. n + 1 PROVE g[k] \in any
    <3>1. CASE k = n + 1
      BY <2>2, <3>1
    <3>2. CASE k # n + 1
      <4>1. k \in 1 .. n
        BY <3>2
      <4> QED
        BY <2>1, <4>1
    <3> QED
      BY <3>1, <3>2
  <2> QED
    BY <2>2, <2>3, <2>4
<1> HIDE DEF any
<1>2. f \in Seq(any) /\ Len(f) = n /\ g \in Seq(any) /\ Len(g) = n + 1
  BY <1>1, FunctionIsSeq
<1>3. /\ Append(f, x) \in Seq(any) /\ Len(Append(f, x)) = n + 1
      /\ \A k \in 1 .. n : Append(f, x)[k] = f[k]
      /\ Append(f, x)[n + 1] = x
  BY <1>1, <1>2, AppendProperties
<1>4. ASSUME NEW k \in 1 .. n + 1 PROVE g[k] = Append(f, x)[k]
  <2>1. CASE k = n + 1
    BY <1>3, <2>1
  <2>2. CASE k # n + 1
    <3>1. k \in 1 .. n
      BY <2>2
    <3> QED
      BY <1>3, <3>1
  <2> QED
    BY <2>1, <2>2
<1> QED
  BY <1>2, <1>3, <1>4, SeqEqual

(***************************************************************************)
(* A callback is a request asked when nothing is owed.                     *)
(***************************************************************************)
LEMMA CallbackAsks ==
    ASSUME ServerInv, IInv', Callback
    PROVE  Protocol!ProtocolNext
<1>1. PICK call \in CallRecords :
         /\ Len(calls') = Len(calls) + 1 /\ calls'[Len(calls) + 1] = call
         /\ \A n \in 1 .. Len(calls) : calls'[n] = calls[n]
         /\ todo = <<>> /\ todo' = packet_callback(call)
  BY CallbackFacts
<1>2. Len(calls) \in Nat /\ line' = line
  BY SentFacts DEF Callback
<1> DEFINE request == RequestOf(call)
<1>3. request \in DOMAIN companion_command_definitions \cup {0}
  <2>1. CASE call.error = "NONE"
    <3>1. (Len(calls) + 1) \in 1 .. Len(calls')
      BY <1>1, <1>2
    <3>2. AcceptedCommands'
      BY CommandsAccepted, PTL
    <3> QED
      BY <1>1, <2>1, <3>1, <3>2 DEF AcceptedCommands, RequestOf
  <2>2. CASE call.error # "NONE"
    BY <2>2 DEF RequestOf
  <2> QED
    BY <2>1, <2>2
<1>4. Asked' = Append(Asked, request)
  <2>1. /\ Asked = [n \in 1 .. Len(calls) |-> Asked[n]]
        /\ Asked' = [n \in 1 .. Len(calls) + 1 |-> Asked'[n]]
        /\ \A n \in 1 .. Len(calls) : Asked'[n] = Asked[n]
        /\ Asked'[Len(calls) + 1] = request
    BY <1>1, <1>2 DEF Asked, RequestOf
  <2> QED
    BY <1>2, <2>1, ToldFacts
<1>5. Told' = Told
  BY <1>2 DEF Told, Response
<1>6. Owed = "nothing" /\ (IF InBracket THEN Len(todo) - 1 ELSE 0) = 0
  BY <1>1 DEF Owed, InBracket
<1>7. /\ Owed' = IF request = 4 THEN "start" ELSE "reply"
      /\ (IF InBracket THEN Len(todo) - 1 ELSE 0)' = 0
  <2>1. IF request = 4 THEN Bracket(todo') ELSE Single(todo', request)
    BY <1>1, RepliesFacts
  <2>2. todo' # <<>>
    <3>1. Len(todo') # 0
      BY <2>1 DEF Bracket, Single, Contacts
    <3> QED
      BY <3>1, EmptySeq
  <2>3. Owed' = OwedFor(todo') /\ (IF InBracket THEN Len(todo) - 1 ELSE 0)' = ContactsFor(todo')
    <3>1. OwedMatches'
      BY CallbackPreserves, OwedFacts, PTL
    <3> QED
      BY <3>1 DEF OwedMatches
  <2>4. OwedFor(todo') = IF request = 4 THEN "start" ELSE "reply"
    BY <2>1, <2>2 DEF OwedFor, Bracket, Single, CONTACTS_START, CONTACT, END_OF_CONTACTS
  <2> QED
    BY <2>3, <2>4 DEF ContactsFor
<1>8. Protocol!Ask(request)
  BY <1>4, <1>5, <1>6, <1>7 DEF Protocol!Ask
<1> QED
  BY <1>3, <1>8 DEF Protocol!ProtocolNext

(***************************************************************************)
(* Which reply the next one is: the one to a request, or the first, a      *)
(* middle or the last one of a bracket.                                    *)
(***************************************************************************)
LEMMA NextReply ==
    ASSUME ServerInv, todo # <<>>
    PROVE  LET request == RequestOf(calls[Len(calls)]) IN
           \/ /\ OwedFor(todo) = "reply" /\ Len(todo) = 1 /\ todo[1].count = 0
              /\ todo[1].response \in Protocol!NamedReplies(request)
           \/ /\ OwedFor(todo) = "start" /\ Len(todo) = Contacts + 2
              /\ todo[1].count = Contacts /\ todo[1].response = CONTACTS_START
              /\ todo[2].response = CONTACT
           \/ /\ OwedFor(todo) = "rest" /\ Len(todo) \in 2 .. Contacts + 1
              /\ todo[1].count = 0 /\ todo[1].response = CONTACT
              /\ todo[2].response \in {CONTACT, END_OF_CONTACTS}
           \/ /\ OwedFor(todo) = "rest" /\ Len(todo) = 1
              /\ todo[1].count = 0 /\ todo[1].response = END_OF_CONTACTS
<1>1. /\ Len(calls) \in Nat \ {0} /\ Len(todo) \in Nat \ {0} /\ calls \in Seq(CallRecords)
  BY SentFacts DEF ServerInv, RepliesInOrder, ServerTypeOK, TypeOK
<1> PICK last \in 1 .. Len(calls) : last = Len(calls)
  BY <1>1
<1> DEFINE replies == packet_callback(calls[last])
           request == RequestOf(calls[last])
           sent    == Sent(last)
<1>2. IF request = 4 THEN Bracket(replies) ELSE Single(replies, request)
  BY <1>1, RepliesFacts, ElementOfSeq
<1>3. /\ sent \in Nat /\ sent = Len(replies) - Len(todo)
      /\ \A i \in 1 .. Len(todo) : todo[i] = replies[sent + i]
  <2>1. calls # <<>>
    BY <1>1, SentFacts
  <2> QED
    BY <1>1, <2>1 DEF ServerInv, RepliesInOrder, Sent, Due
<1> HIDE DEF replies, request, sent
<1>4. CASE request # 4
  <2>1. Single(replies, request) /\ Len(replies) = 1
    BY <1>2, <1>4 DEF Single
  <2>2. sent = 0 /\ Len(todo) = 1 /\ todo[1] = replies[1]
    <3>1. sent = 1 - Len(todo) /\ sent >= 0 /\ sent \in Nat
      BY <1>3, <2>1
    <3>2. Len(todo) \in Nat /\ Len(todo) >= 1
      BY <1>1
    <3> PICK n \in Nat \ {0} : n = Len(todo)
      BY <3>2
    <3>3. sent = 0 /\ Len(todo) = 1
      <4>1. sent = 1 - n /\ sent \in Nat
        BY <3>1
      <4>2. n = 1 /\ sent = 0
        BY ONLY <4>1, n \in Nat \ {0}
      <4> QED
        BY <4>2
    <3>4. todo[1] = replies[sent + 1]
      BY <1>3, <3>3
    <3> QED
      BY <3>3, <3>4
  <2>3. /\ OwedFor(todo) = "reply" /\ todo[1].count = 0
        /\ todo[1].response \in Protocol!NamedReplies(request)
    BY <2>1, <2>2 DEF Single, OwedFor, CONTACTS_START, CONTACT, END_OF_CONTACTS
  <2> QED
    BY <2>2, <2>3 DEF request
<1>5. CASE request = 4
  <2>1. Bracket(replies) /\ Len(replies) = 4
    BY <1>2, <1>5 DEF Bracket, Contacts
  <2>2. /\ replies[1].response = CONTACTS_START /\ replies[1].count = 2
        /\ replies[2].response = CONTACT /\ replies[2].count = 0
        /\ replies[3].response = CONTACT /\ replies[3].count = 0
        /\ replies[4].response = END_OF_CONTACTS /\ replies[4].count = 0
    BY <2>1 DEF Bracket, Contacts
  <2>3. Len(todo) \in 1 .. 4 /\ sent = 4 - Len(todo)
    <3>1. sent = 4 - Len(todo) /\ sent >= 0 /\ sent \in Nat
      BY <1>3, <2>1
    <3> PICK n \in Nat \ {0} : n = Len(todo)
      BY <1>1
    <3>2. sent = 4 - n /\ sent \in Nat
      BY <3>1
    <3>3. n \in 1 .. 4
      BY ONLY <3>2, n \in Nat \ {0}
    <3> QED
      BY <3>1, <3>3
  <2>4. CASE Len(todo) = 4
    <3>1. sent = 0 /\ todo[1] = replies[sent + 1] /\ todo[2] = replies[sent + 2]
      <4>1. sent = 0 /\ 1 \in 1 .. Len(todo) /\ 2 \in 1 .. Len(todo)
        BY <2>3, <2>4
      <4> QED
        BY <1>3, <4>1
    <3>2. todo[1] = replies[1] /\ todo[2] = replies[2]
      BY <3>1
    <3> QED
      BY <2>2, <2>4, <3>2 DEF OwedFor, Contacts, CONTACTS_START, CONTACT, END_OF_CONTACTS
  <2>5. CASE Len(todo) = 3
    <3>1. sent = 1 /\ todo[1] = replies[sent + 1] /\ todo[2] = replies[sent + 2]
      <4>1. sent = 1 /\ 1 \in 1 .. Len(todo) /\ 2 \in 1 .. Len(todo)
        BY <2>3, <2>5
      <4> QED
        BY <1>3, <4>1
    <3>2. todo[1] = replies[2] /\ todo[2] = replies[3]
      BY <3>1
    <3> QED
      BY <2>2, <2>5, <3>2 DEF OwedFor, Contacts, CONTACTS_START, CONTACT, END_OF_CONTACTS
  <2>6. CASE Len(todo) = 2
    <3>1. sent = 2 /\ todo[1] = replies[sent + 1] /\ todo[2] = replies[sent + 2]
      <4>1. sent = 2 /\ 1 \in 1 .. Len(todo) /\ 2 \in 1 .. Len(todo)
        BY <2>3, <2>6
      <4> QED
        BY <1>3, <4>1
    <3>2. todo[1] = replies[3] /\ todo[2] = replies[4]
      BY <3>1
    <3> QED
      BY <2>2, <2>6, <3>2 DEF OwedFor, Contacts, CONTACTS_START, CONTACT, END_OF_CONTACTS
  <2>7. CASE Len(todo) = 1
    <3>1. todo[1] = replies[4]
      BY <1>3, <2>3, <2>7
    <3> QED
      BY <2>2, <2>7, <3>1 DEF OwedFor, Contacts, CONTACTS_START, CONTACT, END_OF_CONTACTS
  <2> QED
    BY <2>3, <2>4, <2>5, <2>6, <2>7
<1> QED
  BY <1>4, <1>5

(***************************************************************************)
(* A reply handed over is a reply the protocol allows.                     *)
(***************************************************************************)
LEMMA HandOverTells ==
    ASSUME ServerInv, OwedMatches', todo # <<>>, NEW taken \in Nat, HandOver(taken),
           calls' = calls
    PROVE  Protocol!ProtocolNext
<1> DEFINE contacts  == IF InBracket THEN Len(todo) - 1 ELSE 0
           reply     == [request  |-> Len(calls), response |-> todo[1].response,
                         count    |-> todo[1].count]
<1>1. /\ Len(line) \in Nat /\ Len(line') = Len(line) + 1
      /\ \A k \in 1 .. Len(line) : line'[k] = line[k]
      /\ line'[Len(line) + 1].call = Len(calls)
      /\ line'[Len(line) + 1].count = todo[1].count
      /\ Response(line'[Len(line) + 1]) = todo[1].response
      /\ Len(todo) \in Nat \ {0} /\ Len(todo') = Len(todo) - 1
      /\ \A i \in 1 .. Len(todo') : todo'[i] = todo[i + 1]
      /\ todo' \in Seq(Replies)
  BY HandOverFacts
<1>2. Told' = Append(Told, reply)
  <2>1. /\ Told = [k \in 1 .. Len(line) |-> Told[k]]
        /\ Told' = [k \in 1 .. Len(line) + 1 |-> Told'[k]]
        /\ \A k \in 1 .. Len(line) : Told'[k] = Told[k]
        /\ Told'[Len(line) + 1] = reply
    BY <1>1 DEF Told, Response
  <2> QED
    BY <1>1, <2>1, ToldFacts
<1>3. /\ Asked' = Asked /\ Len(Asked) = Len(calls) /\ Len(calls) \in Nat \ {0}
      /\ Asked[Len(calls)] = RequestOf(calls[Len(calls)])
  <2>1. Len(calls) \in Nat \ {0}
    BY SentFacts DEF ServerInv, RepliesInOrder
  <2> QED
    BY <2>1 DEF Asked, RequestOf
<1>4. /\ Owed = OwedFor(todo) /\ contacts = ContactsFor(todo)
      /\ Owed' = OwedFor(todo') /\ contacts' = ContactsFor(todo')
  BY OwedFacts DEF OwedMatches
<1>5. Protocol!Tell(todo[1].response, todo[1].count)
  BY <1>2, <1>3 DEF Protocol!Tell
<1>6. todo' = <<>> <=> Len(todo) = 1
  BY <1>1, EmptySeq
<1> HIDE DEF contacts
<1>7. CASE /\ OwedFor(todo) = "reply" /\ Len(todo) = 1 /\ todo[1].count = 0
           /\ todo[1].response \in Protocol!NamedReplies(RequestOf(calls[Len(calls)]))
  <2>1. Owed = "reply" /\ Owed' = "nothing" /\ contacts = 0 /\ contacts' = 0
    BY <1>4, <1>6, <1>7 DEF OwedFor, ContactsFor
  <2>2. Protocol!Answer
    BY <1>3, <1>5, <1>7, <2>1 DEF Protocol!Answer, contacts
  <2> QED
    BY <2>2 DEF Protocol!ProtocolNext
<1>8. CASE /\ OwedFor(todo) = "start" /\ Len(todo) = Contacts + 2
           /\ todo[1].count = Contacts /\ todo[1].response = CONTACTS_START
           /\ todo[2].response = CONTACT
  <2>1. todo' # <<>> /\ Len(todo') = 3 /\ todo'[1] = todo[2]
    BY <1>1, <1>6, <1>8 DEF Contacts
  <2>2. Owed = "start" /\ Owed' = "rest" /\ contacts' = 2
    BY <1>4, <1>8, <2>1 DEF OwedFor, ContactsFor
  <2>3. Protocol!Tell(Protocol!CONTACTS_START, contacts')
    BY <1>5, <1>8, <2>2 DEF Contacts, CONTACTS_START, Protocol!CONTACTS_START
  <2>4. contacts' \in 0 .. 100
    BY <2>2
  <2>5. Protocol!ContactsStart
    BY <2>2, <2>3, <2>4 DEF Protocol!ContactsStart, contacts
  <2> QED
    BY <2>5 DEF Protocol!ProtocolNext
<1>9. CASE /\ OwedFor(todo) = "rest" /\ Len(todo) \in 2 .. Contacts + 1
           /\ todo[1].count = 0 /\ todo[1].response = CONTACT
           /\ todo[2].response \in {CONTACT, END_OF_CONTACTS}
  <2>1. todo' # <<>> /\ todo'[1] = todo[2]
    BY <1>1, <1>6, <1>9 DEF Contacts
  <2>2. /\ Owed = "rest" /\ Owed' = "rest"
        /\ contacts = Len(todo) - 1 /\ contacts' = Len(todo) - 2
    BY <1>1, <1>4, <1>9, <2>1 DEF OwedFor, ContactsFor
  <2>3. contacts > 0 /\ contacts' = contacts - 1
    BY <1>1, <1>9, <2>2
  <2>4. Protocol!Contact
    BY <1>5, <1>9, <2>2, <2>3 DEF Protocol!Contact, contacts, CONTACT, Protocol!CONTACT
  <2> QED
    BY <2>4 DEF Protocol!ProtocolNext
<1>10. CASE /\ OwedFor(todo) = "rest" /\ Len(todo) = 1
            /\ todo[1].count = 0 /\ todo[1].response = END_OF_CONTACTS
  <2>1. Owed = "rest" /\ Owed' = "nothing" /\ contacts = 0 /\ contacts' = 0
    BY <1>4, <1>6, <1>10 DEF OwedFor, ContactsFor
  <2>2. Protocol!EndOfContacts
    BY <1>5, <1>10, <2>1 DEF Protocol!EndOfContacts, contacts, END_OF_CONTACTS,
                             Protocol!END_OF_CONTACTS
  <2> QED
    BY <2>2 DEF Protocol!ProtocolNext
<1> QED
  BY <1>7, <1>8, <1>9, <1>10, NextReply

(***************************************************************************)
(* The server implements the protocol: every step of it asks, answers, or  *)
(* is invisible to the application, whatever it reads and however many     *)
(* writes fall short.                                                      *)
(***************************************************************************)
THEOREM ProtocolKept == ServerSpec => Protocol!ProtocolSafety
<1>1. ServerInit => Protocol!ProtocolInit
  BY DEF ServerInit, Init, Protocol!ProtocolInit, Asked, Told, Owed, InBracket
<1>2. ServerInv /\ ServerInv' /\ IInv' /\ [ServerNext]_allVars
         => [Protocol!ProtocolNext]_(Protocol!protocolVars)
  <2> SUFFICES ASSUME ServerInv, ServerInv', IInv', [ServerNext]_allVars
               PROVE  [Protocol!ProtocolNext]_(Protocol!protocolVars)
    OBVIOUS
  <2>1. OwedMatches'
    BY OwedFacts, PTL
  <2>2. ASSUME UNCHANGED <<calls, todo, line>> PROVE UNCHANGED Protocol!protocolVars
    BY <2>2 DEF Protocol!protocolVars, Asked, Told, Owed, InBracket, RequestOf, Response
  <2>3. CASE Start \/ ReadFails \/ Stopped \/ UNCHANGED allVars
    BY <2>2, <2>3 DEF Start, ReadFails, Stopped, allVars, vars
  <2>4. ASSUME NEW chunk \in Chunks, ReadPort(chunk)
        PROVE  UNCHANGED Protocol!protocolVars
    BY <2>2, <2>4 DEF ReadPort, Read, server
  <2>5. CASE Scan
    <3>1. UNCHANGED <<calls, todo, line>>
      BY <2>5 DEF Scan, server, DiscardByte, FindStart, StoreLength, RejectLength, ReceivePart
    <3> QED
      BY <2>2, <3>1
  <2>6. CASE Callback
    BY <2>6, CallbackAsks
  <2>7. CASE Transmit
    <3>1. todo # <<>> /\ HandOver(NextFrame.length) /\ calls' = calls
      BY <2>7 DEF Transmit, vars
    <3>2. NextFrame.length \in Nat
      BY <3>1, NextFrameLength
    <3> QED
      BY <2>1, <3>1, <3>2, HandOverTells
  <2>8. CASE TransmitShort
    <3>1. PICK taken \in Nat : HandOver(taken) /\ todo # <<>> /\ calls' = calls
      BY <2>8 DEF TransmitShort, HeaderSize, vars
    <3> QED
      BY <2>1, <3>1, HandOverTells
  <2> QED
    BY <2>3, <2>4, <2>5, <2>6, <2>7, <2>8 DEF ServerNext, ServerStep
<1> QED
  BY <1>1, <1>2, ServerInvariant, ServerRunsReader, InvariantHolds, PTL
     DEF ServerSpec, Protocol!ProtocolSafety

=============================================================================
