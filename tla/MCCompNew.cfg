\* Firmware build: any descriptor type with any UUID, ext_data_length within the message.
CONSTANTS
    host = host
    volume = volume
    mixer = mixer
    buf = buf
    u1 = u1
    u2 = u2
    u3 = u3
    Types <- MC_Types
    Uids <- MC_Uids
    Drivers <- MC_Drivers
    KindOf <- MC_KindOf
    Library = FALSE
    Width = 5
    CompSize = 4
    UuidSize = 2
    MsgSizes <- MC_MsgSizes
    ExtLens <- MC_ExtLens
    NULL = NULL
SPECIFICATION CNSpec
INVARIANTS
    ExtensionInMessage
