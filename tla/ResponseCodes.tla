---------------------------- MODULE ResponseCodes ----------------------------
(***************************************************************************)
(* The response codes of the companion radio protocol the server uses.     *)
(***************************************************************************)
OK              == 0
ERR             == 1
CONTACTS_START  == 2
CONTACT         == 3
END_OF_CONTACTS == 4
SELF_INFO       == 5
SENT            == 6
NO_MORE         == 10
DEVICE_INFO     == 13
CUSTOM_VARS     == 21
=============================================================================
