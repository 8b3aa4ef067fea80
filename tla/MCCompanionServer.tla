-------------------------- MODULE MCCompanionServer --------------------------
(***************************************************************************)
(* CompanionServer with the sizes and the command table of the program,    *)
(* fed with the commands the callback tells apart, alone or several in one *)
(* read, some of them split over two reads.                                *)
(***************************************************************************)
EXTENDS CompanionServer, CommandTable

Request(body) == <<60, Len(body), 0>> \o body

Zeros(n) == [i \in 1 .. n |-> 0]

AppStart    == Request(<<1>> \o Zeros(7) \o <<65>>)
SendText    == Request(<<2, 0, 1, 9, 9, 9, 9, 1, 2, 3, 4, 5, 6, 72>>)
GetContacts == Request(<<4>>)
SelfAdvert  == Request(<<7>>)
SyncNext    == Request(<<10>>)
DeviceQuery == Request(<<22, 3>>)
GetChannel  == Request(<<31, 0>>)
CustomVars  == Request(<<40>>)
FloodScope  == Request(<<54, 0>>)
GetTime     == Request(<<5>>)
BadLength   == Request(<<22>>)
Unknown     == Request(<<53>>)
Empty       == Request(<<>>)
GetStats    == Request(<<56, 1>>)
RawData     == Request(<<25, 1, 17, 80, 81>>)
WrapsAround == <<60, 254, 255, 60>>

Requests ==
    {AppStart, SendText,
     SyncNext \o GetContacts \o FloodScope,
     SelfAdvert \o DeviceQuery \o CustomVars,
     GetChannel \o GetTime \o <<60, 1>>,
     <<0, 4>> \o Unknown \o BadLength,
     Empty \o GetContacts,
     WrapsAround}

Disputed == {GetStats, RawData, BadLength}
=============================================================================
