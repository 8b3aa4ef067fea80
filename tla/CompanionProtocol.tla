-------------------------- MODULE CompanionProtocol --------------------------
(***************************************************************************)
(* What an application may rely on: every request is answered before the   *)
(* next is looked at, GET_CONTACTS by a bracket of replies and any other   *)
(* by one.  The replies to a request are those the comments on the         *)
(* response codes name (mc_companion.h).                                   *)
(***************************************************************************)
EXTENDS Naturals, Sequences, ResponseCodes

CONSTANTS
    Requests,     \* commands, and Rejected for one the parser refuses
    MaxContacts   \* what a device may hold

VARIABLES
    asked,        \* the requests, oldest first
    told,         \* the replies: the request, the response and its count
    owed,         \* "nothing", "reply", "start" of a bracket or its "rest"
    contacts      \* how many contacts are to come before its end

protocolVars == <<asked, told, owed, contacts>>

ProtocolInit == asked = <<>> /\ told = <<>> /\ owed = "nothing" /\ contacts = 0

Rejected == 0                      \* the code of no command

NamedReplies(request) ==
    CASE request = Rejected -> {ERR}
      [] request = 1  -> {SELF_INFO}
      [] request = 2  -> {SENT}
      [] request = 10 -> {7, 8, NO_MORE, 16, 17}
      [] request = 22 -> {DEVICE_INFO}
      [] request = 31 -> {18, ERR}
      [] OTHER        -> {OK, ERR, CUSTOM_VARS}

Ask(request) ==
    /\ owed = "nothing"
    /\ asked' = Append(asked, request)
    /\ owed' = IF request = 4 THEN "start" ELSE "reply"
    /\ UNCHANGED <<told, contacts>>

Tell(response, count) ==
    /\ told' = Append(told, [request  |-> Len(asked),
                             response |-> response,
                             count    |-> count])
    /\ UNCHANGED asked

Answer ==
    /\ owed = "reply" /\ owed' = "nothing"
    /\ \E response \in NamedReplies(asked[Len(asked)]) : Tell(response, 0)
    /\ UNCHANGED contacts

ContactsStart ==
    /\ owed = "start" /\ owed' = "rest"
    /\ contacts' \in 0 .. MaxContacts
    /\ Tell(CONTACTS_START, contacts')

Contact ==
    /\ owed = "rest" /\ contacts > 0 /\ contacts' = contacts - 1
    /\ Tell(CONTACT, 0)
    /\ UNCHANGED owed

EndOfContacts ==
    /\ owed = "rest" /\ contacts = 0 /\ owed' = "nothing"
    /\ Tell(END_OF_CONTACTS, 0)
    /\ UNCHANGED contacts

ProtocolNext ==
    \/ \E request \in Requests : Ask(request)
    \/ Answer \/ ContactsStart \/ Contact \/ EndOfContacts

(***************************************************************************)
(* Every request is answered to its end.                                   *)
(***************************************************************************)
EveryRequestAnswered == (owed # "nothing") ~> (owed = "nothing")

ProtocolSafety == ProtocolInit /\ [][ProtocolNext]_protocolVars

Protocol == ProtocolSafety /\ EveryRequestAnswered
=============================================================================
