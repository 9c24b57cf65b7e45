\* Every edge crosses cores and comp_make_shared() may fail.
CONSTANTS
    Cores <- MC_Cores
    BufCore = 0
    y = y
    x1 = x1
    x2 = x2
    Comps <- MC_Comps
    CompCore <- MC_CompCoreRemote
    NULL = NULL
    ReadCores = {0, 1}
    PromoteMayFail = TRUE
SPECIFICATION Spec
INVARIANTS
    NoLostUpdate
