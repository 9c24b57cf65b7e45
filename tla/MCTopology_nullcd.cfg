\* comp_make_shared() fails during a cross-core connect.
CONSTANTS
    Cores <- MC_Cores
    Ids <- MC_Ids
    PplIds <- MC_PplIds
    Kind <- MC_Kind
    CoreOf <- MC_CoreOf
    PplOf <- MC_PplOf
    SchedOf <- MC_SchedOf
    Addrs = {a1, a2}
    NULL = NULL
    PromoteMayFail = TRUE
    SharedAlias = TRUE
SPECIFICATION Spec
SYMMETRY MC_Symmetry
INVARIANT NoNullDeviceDeref
