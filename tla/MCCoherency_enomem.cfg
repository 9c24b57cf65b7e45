\* comp_make_shared() may fail after the buffer line was marked inter_core.
CONSTANTS
    Cores <- MC_Cores
    BufCore = 0
    y = y
    x1 = x1
    x2 = x2
    Comps <- MC_Comps
    CompCore <- MC_CompCore
    NULL = NULL
    ReadCores = {}
    PromoteMayFail = TRUE
SPECIFICATION Spec
INVARIANTS
    NoLostUpdate
