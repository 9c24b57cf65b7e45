\* ext_data_length consistent with a message that fits the IPC mailbox.
CONSTANTS
    t1 = t1
    t2 = t2
    t3 = t3
    u1 = u1
    u2 = u2
    u3 = u3
    Types <- MC_Types
    Uids <- MC_Uids
    Drivers <- MC_Drivers
    Width = 5
    CompSize = 4
    UuidSize = 2
    MsgSizes <- MC_MsgSizes
    ExtLens <- MC_ExtLens
    NULL = NULL
SPECIFICATION Spec
INVARIANTS
    ExtensionInMessage
