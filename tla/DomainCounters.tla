--------------------------- MODULE DomainCounters ---------------------------
(***************************************************************************)
(* What a schedule domain promises its schedulers about its two atomics  *)
(* (spec.md 3, 4.1): total_num_tasks is the number of tasks registered    *)
(* on all cores, and enabled_cores the number of cores whose interrupt    *)
(* source is armed.  Adding or removing a task, and enabling or disabling *)
(* a core, are single steps here.                                          *)
(***************************************************************************)
EXTENDS Naturals

CONSTANTS Cores

VARIABLES
    tasks,          \* tasks[c]: tasks registered on core c
    total,          \* total_num_tasks
    enabled,        \* enabled[c]
    enabled_cores   \* enabled_cores

vars == <<tasks, total, enabled, enabled_cores>>

Init ==
    /\ tasks = [c \in Cores |-> 0]
    /\ total = 0
    /\ enabled = [c \in Cores |-> FALSE]
    /\ enabled_cores = 0

AddTask(c) ==
    /\ tasks' = [tasks EXCEPT ![c] = @ + 1]
    /\ total' = total + 1
    /\ UNCHANGED <<enabled, enabled_cores>>

RemoveTask(c) ==
    /\ tasks[c] > 0
    /\ tasks' = [tasks EXCEPT ![c] = @ - 1]
    /\ total' = total - 1
    /\ UNCHANGED <<enabled, enabled_cores>>

EnableCore(c) ==
    /\ ~enabled[c]
    /\ enabled' = [enabled EXCEPT ![c] = TRUE]
    /\ enabled_cores' = enabled_cores + 1
    /\ UNCHANGED <<tasks, total>>

DisableCore(c) ==
    /\ enabled[c]
    /\ enabled' = [enabled EXCEPT ![c] = FALSE]
    /\ enabled_cores' = enabled_cores - 1
    /\ UNCHANGED <<tasks, total>>

Next ==
    \E c \in Cores :
        AddTask(c) \/ RemoveTask(c) \/ EnableCore(c) \/ DisableCore(c)

Spec == Init /\ [][Next]_vars
=============================================================================
