\* The host may send any ext_data_length, up to the width of size_t.
CONSTANTS
    t1 = t1
    t2 = t2
    t3 = t3
    u1 = u1
    u2 = u2
    u3 = u3
    Types <- MC_Types
    Uids <- MC_Uids
    Drivers <- MC_Drivers
    Width = 5
    CompSize = 4
    UuidSize = 2
    MsgSizes <- MC_MsgSizes
    ExtLens <- MC_AnyExtLen
    NULL = NULL
SPECIFICATION Spec
INVARIANTS
    ExtensionInMessage
