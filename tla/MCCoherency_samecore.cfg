\* Core 0, the buffer's core, reads the buffer before core 1 connects to it.
CONSTANTS
    Cores <- MC_Cores
    BufCore = 0
    y = y
    x1 = x1
    x2 = x2
    Comps <- MC_Comps
    CompCore <- MC_CompCore
    NULL = NULL
    ReadCores = {0}
    PromoteMayFail = FALSE
SPECIFICATION Spec
INVARIANTS
    NoLostUpdate
