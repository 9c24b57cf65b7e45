\* A failed domain_unregister() of a core's last task must restore
\* registered[core] (spec.md 4.1, 8).
CONSTANTS
    Cores <- MC_Cores
    Starts <- MC_Starts
    MaxTasks = 2
    TickMax = 3
    HasSetHook = FALSE
    HasEnableHook = TRUE
    HasDisableHook = TRUE
    HeapFlags = {FALSE}
SPECIFICATION Spec
INVARIANT TasksImplyRegistered
