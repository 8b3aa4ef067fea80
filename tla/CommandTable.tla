---------------------------- MODULE CommandTable ----------------------------
(***************************************************************************)
(* The table companion_command_definitions of the command parser           *)
(* (companion-radio-protocol/mc_companion_command_parser.c), with the      *)
(* sizes its sizeof and FIELD_SIZE expressions have for the packed         *)
(* structures of mc_companion.h.                                           *)
(***************************************************************************)
EXTENDS CompanionCommands

PublicKey == 32
Word32    == 4
SizeOfInt == 4     \* sizeof('\0'): a character constant is an int in C

(***************************************************************************)
(* companion_contact_t, without and with its three optional fields.        *)
(***************************************************************************)
ContactMandatory == PublicKey + 3 + 64 + 32 + Word32
ContactSize      == ContactMandatory + 3 * Word32

(***************************************************************************)
(* <<command, min_argument_length, max_argument_length>>, row by row.      *)
(***************************************************************************)
Rows == {
    << 1, 7, MAX_PAYLOAD_SIZE - SizeOfInt>>,        \* APP_START
    << 2, 12, MAX_PAYLOAD_SIZE>>,                   \* SEND_TXT_MSG
    << 3, 6, MAX_PAYLOAD_SIZE - 6>>,                \* SEND_CHANNEL_TXT_MSG
    << 4, 0, Word32>>,                              \* GET_CONTACTS
    << 5, 0, 0>>,                                   \* GET_DEVICE_TIME
    << 6, Word32, Word32>>,                         \* SET_DEVICE_TIME
    << 7, 0, 0>>,                                   \* SEND_SELF_ADVERT
    << 8, 1, 32>>,                                  \* SET_ADVERT_NAME
    << 9, ContactMandatory, ContactSize>>,          \* ADD_UPDATE_CONTACT
    <<10, 0, 0>>,                                   \* SYNC_NEXT_MESSAGE
    <<11, 2 * Word32 + 2, 2 * Word32 + 2>>,         \* SET_RADIO_PARAMS
    <<12, 1, 1>>,                                   \* SET_RADIO_TX_POWER
    <<13, PublicKey, PublicKey>>,                   \* RESET_PATH
    <<14, 2 * Word32, 3 * Word32>>,                 \* SET_ADVERT_LATLON
    <<15, PublicKey, PublicKey>>,                   \* REMOVE_CONTACT
    <<16, PublicKey, PublicKey>>,                   \* SHARE_CONTACT
    <<17, 0, PublicKey>>,                           \* EXPORT_CONTACT
    <<18, 0, MAX_PAYLOAD_SIZE>>,                    \* IMPORT_CONTACT
    <<19, 6, 6>>,                                   \* REBOOT
    <<20, 0, 0>>,                                   \* GET_BATT_AND_STORAGE
    <<21, 2 * Word32, 2 * Word32>>,                 \* SET_TUNING_PARAMS
    <<22, 1, 1>>,                                   \* DEVICE_QUERY
    <<23, 0, 0>>,                                   \* EXPORT_PRIVATE_KEY
    <<24, 64, 64>>,                                 \* IMPORT_PRIVATE_KEY
    <<25, MAX_PAYLOAD_SIZE, MAX_PAYLOAD_SIZE>>,     \* SEND_RAW_DATA
    <<26, PublicKey, PublicKey>>,                   \* SEND_LOGIN
    <<27, PublicKey, PublicKey>>,                   \* SEND_STATUS_REQ
    <<28, PublicKey, PublicKey>>,                   \* HAS_CONNECTION
    <<29, PublicKey, PublicKey>>,                   \* LOGOUT
    <<30, PublicKey, PublicKey>>,                   \* GET_CONTACT_BY_KEY
    <<31, 1, 1>>,                                   \* GET_CHANNEL
    <<32, 1 + 32 + 16, 1 + 32 + 16>>,               \* SET_CHANNEL
    <<33, 0, 0>>,                                   \* SIGN_START
    <<34, 1, MAX_PAYLOAD_SIZE>>,                    \* SIGN_DATA
    <<35, 0, 0>>,                                   \* SIGN_FINISH
    <<36, 2 * Word32 + 1, MAX_PAYLOAD_SIZE>>,       \* SEND_TRACE_PATH
    <<37, 4, 4>>,                                   \* SET_DEVICE_PIN
    <<38, 1, 4>>,                                   \* SET_OTHER_PARAMS
    <<39, 3 + PublicKey, 3 + PublicKey>>,           \* SEND_TELEMETRY_REQ
    <<40, 0, 0>>,                                   \* GET_CUSTOM_VARS
    <<41, 0, MAX_PAYLOAD_SIZE>>,                    \* SET_CUSTOM_VAR
    <<42, 1 + PublicKey, 1 + PublicKey>>,           \* GET_ADVERT_PATH
    <<43, 0, 0>>,                                   \* GET_TUNING_PARAMS
    <<50, PublicKey + 1, MAX_PAYLOAD_SIZE>>,        \* SEND_BINARY_REQ
    <<51, 5, 5>>,                                   \* FACTORY_RESET
    <<52, 1 + PublicKey, 1 + PublicKey>>,           \* SEND_PATH_DISCOVERY_REQ
    <<54, 1, 1 + 16>>,                              \* SET_FLOOD_SCOPE
    <<55, 1, MAX_PAYLOAD_SIZE>>,                    \* SEND_CONTROL_DATA
    <<56, 0, 0>>                                    \* GET_STATS
}

CommandDefinitions ==
    [c \in {row[1] : row \in Rows} |->
        LET row == CHOOSE r \in Rows : r[1] = c
        IN  [min |-> row[2], max |-> row[3]]]
=============================================================================
