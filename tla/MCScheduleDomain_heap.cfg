\* domain_init() allocates with rballoc() and never initialises enabled[]:
\* the flags start as whatever the heap held.
CONSTANTS
    Cores <- MC_Cores
    Starts <- MC_Starts
    MaxTasks = 2
    TickMax = 3
    HasSetHook = TRUE
    HasEnableHook = TRUE
    HasDisableHook = TRUE
    HeapFlags = {FALSE, TRUE}
SPECIFICATION Spec
INVARIANT EnabledCoresCounted
