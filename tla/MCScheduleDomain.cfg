\* Backend without a custom domain_set hook (the start tick is stored);
\* the heap the domain is allocated from happens to be zero-filled.
CONSTANTS
    Cores <- MC_Cores
    Starts <- MC_Starts
    MaxTasks = 2
    TickMax = 3
    HasSetHook = FALSE
    HasEnableHook = TRUE
    HasDisableHook = TRUE
    HeapFlags = {FALSE}
SPECIFICATION Spec
INVARIANTS
    TypeOK
    EnabledCoresCounted
    RegisteredOnlyWithTasks
PROPERTIES
    DomainCountersRefined
