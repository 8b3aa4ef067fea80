--------------------------- MODULE CompanionServer ---------------------------
(***************************************************************************)
(* The companion radio protocol server                                     *)
(* (companion-radio-protocol-test/server.c): the main loop that feeds the  *)
(* reader from the serial port, and the callback that answers a command.   *)
(*                                                                         *)
(* The callback runs inside the reader's loop.  It assembles and writes    *)
(* its replies one by one, so `todo' holds those still to come and the     *)
(* reader goes on only when it is empty.  `line' is what was handed to     *)
(* write(): one record per frame, with the number of bytes the port took.  *)
(*                                                                         *)
(* The argument bytes of tx_packet are told apart by origin, not by value: *)
(* the number of the reply that set them, 0 after the memset.              *)
(***************************************************************************)
EXTENDS CompanionReader, CompanionWriter, ResponseCodes

CONSTANT MaxFailures               \* bound of the model: writes that fall short

ASSUME FailuresAssumption == MaxFailures \in Nat

VARIABLES
    status,       \* "starting", "running" or "stopped"
    todo,         \* replies of the running callback not yet transmitted
    tx_packet,    \* origin of the argument bytes of the static tx_packet
    line,         \* the frames written, oldest first
    failures      \* how many of them the port did not take whole

server == <<status, todo, tx_packet, line, failures>>

allVars == <<stream, consumed, rx_buffer, rx_position, command_packet_buffer, calls,
             status, todo, tx_packet, line, failures>>

(***************************************************************************)
(* A reply: how many argument bytes of tx_packet the callback sets for it, *)
(* the args_length it passes to the writer, and the number of contacts a   *)
(* CONTACTS_START announces.                                               *)
(***************************************************************************)
Reply(response, fields, args_length) ==
    [response |-> response, fields |-> fields, args_length |-> args_length, count |-> 0]

Contacts == 2

ContactBytes == 147                \* sizeof(companion_contact_t)

NodeNameField == 112               \* mutant: the size of the field

NodeName == 10                     \* strlen("Roadrunner")

SelfInfo == 57                     \* companion_resp_self_info_args_t before node_name

(***************************************************************************)
(* Every reply fits in tx_buffer, with its response code and the byte that *)
(* the writer copies too many; and a byte holds what opens a frame.        *)
(***************************************************************************)
ASSUME ReplyAssumption == ContactBytes + HeaderSize + 2 <= MAX_FRAME_SIZE /\ ReplyByte \in Byte

ErrorReply == <<Reply(ERR, 1, 0)>>

(***************************************************************************)
(* Mutant: one contact is not sent.                                        *)
(***************************************************************************)
ContactRepliesOneShort ==
    <<[Reply(CONTACTS_START, 4, 4) EXCEPT !.count = Contacts]>>
       \o [i \in 1 .. Contacts - 1 |-> Reply(CONTACT, ContactBytes, ContactBytes)]
       \o <<Reply(END_OF_CONTACTS, 4, 4)>>

(***************************************************************************)
(* Mutant: the count is the size of the array in bytes.                    *)
(***************************************************************************)
ContactRepliesCountBytes ==
    <<[Reply(CONTACTS_START, 4, 4) EXCEPT !.count = Contacts * ContactBytes]>>
       \o [i \in 1 .. Contacts |-> Reply(CONTACT, ContactBytes, ContactBytes)]
       \o <<Reply(END_OF_CONTACTS, 4, 4)>>

ContactReplies ==
    <<[Reply(CONTACTS_START, 4, 4) EXCEPT !.count = Contacts]>>
       \o [i \in 1 .. Contacts |-> Reply(CONTACT, ContactBytes, ContactBytes)]
       \o <<Reply(END_OF_CONTACTS, 4, 4)>>

CommandReplies(command) ==
    CASE command = 1  -> <<Reply(SELF_INFO, SelfInfo + NodeName + 1, SelfInfo + NodeName)>>
      [] command = 2  -> <<Reply(SENT, 9, 9)>>
      [] command = 4  -> ContactReplies
      [] command = 7  -> <<Reply(OK, 0, 0)>>
      [] command = 10 -> <<Reply(NO_MORE, 0, 0)>>
      [] command = 22 -> <<Reply(DEVICE_INFO, 79, 79)>>
      [] command = 31 -> ErrorReply
      [] command = 40 -> <<Reply(CUSTOM_VARS, 1, 0)>>
      [] command = 54 -> <<Reply(OK, 0, 0)>>
      [] OTHER        -> ErrorReply

packet_callback(call) ==
    IF call.error # "NONE" THEN ErrorReply ELSE CommandReplies(call.packet.command)

ServerInit ==
    /\ Init
    /\ status = "starting"
    /\ todo = <<>>
    /\ tx_packet = NoArguments
    /\ line = <<>>
    /\ failures = 0

(***************************************************************************)
(* Opening and configuring the port; any of it may fail and ends main.     *)
(***************************************************************************)
Start ==
    /\ status = "starting"
    /\ status' \in {"running", "stopped"}
    /\ UNCHANGED <<vars, todo, tx_packet, line, failures>>

Listening == status = "running" /\ todo = <<>>

ReadPort(chunk) ==
    /\ Listening
    /\ Read(chunk)
    /\ UNCHANGED server

(***************************************************************************)
(* read() returned nothing or an error: main leaves its loop.              *)
(***************************************************************************)
ReadFails ==
    /\ Listening /\ ~InCall
    /\ status' = "stopped"
    /\ UNCHANGED <<vars, todo, tx_packet, line, failures>>

Scan ==
    /\ Listening
    /\ \/ DiscardByte \/ FindStart \/ StoreLength \/ RejectLength \/ ReceivePart
    /\ UNCHANGED server

(***************************************************************************)
(* The reader completes a frame and calls packet_callback, which clears    *)
(* tx_packet and settles what to reply.                                    *)
(***************************************************************************)
Callback ==
    /\ Listening
    /\ ReceiveFrame
    /\ todo' = packet_callback(calls'[Len(calls')])
    /\ tx_packet' = NoArguments
    /\ UNCHANGED <<status, line, failures>>

(***************************************************************************)
(* The next reply: tx_packet with its fields filled in, and its frame.     *)
(***************************************************************************)
FilledPacket ==
    [i \in ArgIndex |-> IF i < Head(todo).fields THEN Len(line) + 1 ELSE tx_packet[i]]

NextFrame ==
    WriteResponse(Head(todo).response, FilledPacket, Head(todo).args_length)

(***************************************************************************)
(* The callback fills in the next reply, frames it and hands it to         *)
(* write(), which takes some of it.                                        *)
(***************************************************************************)
HandOver(taken) ==
    /\ tx_packet' = FilledPacket
    /\ line' = Append(line, [call   |-> Len(calls),
                             count  |-> Head(todo).count,
                             frame  |-> SubSeq(NextFrame.stored, 1, NextFrame.length),
                             stored |-> Len(NextFrame.stored),
                             taken  |-> taken])
    /\ todo' = Tail(todo)

Transmit ==
    /\ todo # <<>>
    /\ HandOver(NextFrame.length)
    /\ UNCHANGED <<vars, status, failures>>

(***************************************************************************)
(* Mutant: a write that falls short ends the program.                      *)
(***************************************************************************)
TransmitShortExits ==
    /\ todo # <<>> /\ failures < MaxFailures
    /\ \E taken \in {0, HeaderSize} : HandOver(taken)
    /\ failures' = failures + 1
    /\ status' = "stopped"
    /\ UNCHANGED vars

(***************************************************************************)
(* write() fails or takes only the header; transmit ignores its result.    *)
(***************************************************************************)
TransmitShort ==
    /\ todo # <<>> /\ failures < MaxFailures
    /\ \E taken \in {0, HeaderSize} : HandOver(taken)
    /\ failures' = failures + 1
    /\ UNCHANGED <<vars, status>>

Stopped == status = "stopped" /\ UNCHANGED allVars

ServerStep == Start \/ Scan \/ Callback \/ Transmit \/ TransmitShort

ServerNext ==
    ServerStep \/ (\E chunk \in Chunks : ReadPort(chunk)) \/ ReadFails \/ Stopped

ServerSpec == ServerInit /\ [][ServerNext]_allVars

(***************************************************************************)
(* The process is scheduled and write() returns; nobody owes it input.     *)
(***************************************************************************)
FairServerSpec == ServerSpec /\ WF_allVars(ServerStep)

-----------------------------------------------------------------------------

(***************************************************************************)
(* The variables of the server hold values of their types.                 *)
(***************************************************************************)
ServerTypeOK ==
    /\ TypeOK
    /\ status \in {"starting", "running", "stopped"}
    /\ \A i \in 1 .. Len(todo) :
          todo[i] \in [response : Byte, fields : 0 .. MAX_PAYLOAD_SIZE,
                       args_length : 0 .. MAX_PAYLOAD_SIZE, count : Nat]
    /\ tx_packet \in [ArgIndex -> 0 .. Len(line)]
    /\ failures \in 0 .. MaxFailures

(***************************************************************************)
(* What is written is a frame the other side can read: the start byte, a   *)
(* header announcing exactly the rest, and behind the response code only   *)
(* bytes set for this very reply or zeroed for this callback, though all   *)
(* replies share one tx_packet; and tx_buffer was not overrun on the way,  *)
(* which nothing in the writer checks.                                     *)
(***************************************************************************)
FramesWellFormed ==
    \A k \in 1 .. Len(line) :
       LET frame == line[k].frame IN
       /\ line[k].stored <= MAX_FRAME_SIZE
       /\ Len(frame) > HeaderSize
       /\ frame[1] = ReplyByte
       /\ frame[2] + Radix * frame[3] = Len(frame) - HeaderSize
       /\ \A i \in HeaderSize + 2 .. Len(frame) : frame[i] \in {0, k}

Response(written) == written.frame[HeaderSize + 1]

(***************************************************************************)
(* The state as an application sees it.  A bracket is open while a contact *)
(* or its end is still to be transmitted.                                  *)
(***************************************************************************)
RequestOf(call) == IF call.error = "NONE" THEN call.packet.command ELSE 0

Asked == [n \in 1 .. Len(calls) |-> RequestOf(calls[n])]

Told == [k \in 1 .. Len(line) |-> [request  |-> line[k].call,
                                   response |-> Response(line[k]),
                                   count    |-> line[k].count]]

InBracket == todo # <<>> /\ Head(todo).response \in {CONTACT, END_OF_CONTACTS}

Owed == CASE todo = <<>> -> "nothing"
          [] InBracket   -> "rest"
          [] OTHER       -> IF Head(todo).response = CONTACTS_START THEN "start" ELSE "reply"

Protocol ==
    INSTANCE CompanionProtocol WITH
        Requests    <- DOMAIN companion_command_definitions \cup {0},
        MaxContacts <- 100,
        asked       <- Asked,
        told        <- Told,
        owed        <- Owed,
        contacts    <- IF InBracket THEN Len(todo) - 1 ELSE 0

(***************************************************************************)
(* The server keeps the protocol: what it writes, over whatever it reads   *)
(* and however many writes fall short, is a run of CompanionProtocol, with *)
(* every request answered to its end.                                      *)
(***************************************************************************)
ImplementsProtocol == Protocol!Protocol

(***************************************************************************)
(* Once a callback is over, its call has been answered as the comments on  *)
(* the response codes say: a rejected command by one ERR; GET_CONTACTS by  *)
(* a CONTACTS_START, as many CONTACTs as that announces, and an            *)
(* END_OF_CONTACTS last; any other by one reply, of a kind named for it.   *)
(* The replies to a call are together on the line: neither a later command *)
(* nor a write that falls short mixes up answers.                          *)
(***************************************************************************)
CallsAnswered ==
    \A n \in 1 .. Len(calls) :
       (n < Len(calls) \/ todo = <<>>) =>
          \E first \in 1 .. Len(line) : \E last \in first .. Len(line) :
             /\ \A k \in 1 .. Len(line) : line[k].call = n <=> k \in first .. last
             /\ IF calls[n].error # "NONE" THEN
                   last = first /\ Response(line[first]) = ERR
                ELSE IF calls[n].packet.command = 4 THEN
                   /\ last > first
                   /\ Response(line[first]) = CONTACTS_START
                   /\ line[first].count = last - first - 1
                   /\ \A k \in first + 1 .. last - 1 : Response(line[k]) = CONTACT
                   /\ Response(line[last]) = END_OF_CONTACTS
                ELSE
                   /\ last = first
                   /\ Response(line[first]) \in Protocol!NamedReplies(calls[n].packet.command)

(***************************************************************************)
(* The argument bytes the callback reads as fixed fields of an accepted    *)
(* packet (not as optional ones or as text).                               *)
(***************************************************************************)
FieldsRead(command) ==
    CASE command = 2  -> 12
      [] command = 22 -> 1
      [] command = 31 -> 1
      [] OTHER        -> 0

(***************************************************************************)
(* The table asks for as many arguments as the callback reads.             *)
(***************************************************************************)
ASSUME FieldsAssumption ==
    \A c \in DOMAIN companion_command_definitions :
       FieldsRead(c) <= companion_command_definitions[c].min

(***************************************************************************)
(* Whatever the callback reads of an accepted command was received with    *)
(* it, and is not made up of the zeros the packet is cleared with.         *)
(***************************************************************************)
FieldsReadWereReceived ==
    \A n \in 1 .. Len(calls) :
       calls[n].error = "NONE" =>
          FieldsRead(calls[n].packet.command) <= calls[n].length - HeaderSize - 1

(***************************************************************************)
(* A callback ends: all its replies are handed to the port, whatever       *)
(* becomes of each write, and the server listens again.                    *)
(***************************************************************************)
CallbackReturns == (todo # <<>>) ~> Listening

(***************************************************************************)
(* The error code is a field of companion_resp_err_args_t that is not      *)
(* marked optional, and packet_callback sets it: every ERR on the line     *)
(* carries it.                                                             *)
(***************************************************************************)
ErrorCodeTransmitted ==
    \A k \in 1 .. Len(line) :
       Response(line[k]) = ERR => Len(line[k].frame) >= HeaderSize + 1 + 1

(***************************************************************************)
(* Commands sent as mc_companion.h describes them are accepted: GET_STATS, *)
(* "second byte is stats type", with one byte behind the command byte; and *)
(* SEND_RAW_DATA, "path[path_length] + raw data", with a path length, a    *)
(* path of that length and some data, in a frame that fits.                *)
(***************************************************************************)
DescribedCommandsAccepted ==
    \A n \in 1 .. Len(calls) :
       LET body == BodyOf(calls[n])
           stats == Len(body) = 2 /\ body[1] = 56
           raw_data == Len(body) > 2 /\ body[1] = 25 /\ 2 + body[2] < Len(body)
       IN  stats \/ raw_data => calls[n].error = "NONE"
=============================================================================
