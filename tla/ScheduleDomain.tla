--------------------------- MODULE ScheduleDomain ---------------------------
(***************************************************************************)
(* The low-latency schedule domain of src/include/sof/schedule/           *)
(* ll_schedule_domain.h: the per-core bookkeeping a domain keeps around   *)
(* the backend hooks of its ll_schedule_domain_ops table.                 *)
(*                                                                         *)
(* Every core runs its own low-latency scheduler, which calls the inline  *)
(* domain_* helpers on the shared domain object with cpu_get_id() as the  *)
(* core.  total_num_tasks and enabled_cores are atomics shared by all     *)
(* cores; registered[core] and enabled[core] are written only by their    *)
(* own core.                                                               *)
(*                                                                         *)
(* domain_unregister() is split in two steps because the code updates the *)
(* counters, then calls a backend hook that may not return, and only then *)
(* compensates if the hook failed; other cores run in between.            *)
(*                                                                         *)
(* The backend (timer, single- or multi-channel DMA) is outside src/: its *)
(* hooks are modelled by their possible outcomes.  live[c] is the number  *)
(* of tasks the backend holds for core c, i.e. what the scheduler of core *)
(* c believes is registered; it is the value the caller passes as         *)
(* num_tasks (minus the one being removed).                                *)
(***************************************************************************)
EXTENDS Naturals, FiniteSets, Functions, FiniteSetsExt

CONSTANTS
    Cores,          \* CONFIG_CORE_COUNT core ids
    MaxTasks,       \* bound on the tasks one core registers
    TickMax,        \* UINT64_MAX scaled down: ticks are 0..TickMax
    Starts,         \* start ticks the scheduler passes to domain_set()
    HasSetHook,     \* ops->domain_set is non-NULL
    HasEnableHook,  \* ops->domain_enable is non-NULL
    HasDisableHook, \* ops->domain_disable is non-NULL
    HeapFlags       \* the values an uninitialised bool flag can read as

ASSUME MaxTasks \in Nat \ {0}
ASSUME Starts \subseteq 0..TickMax
ASSUME {HasSetHook, HasEnableHook, HasDisableHook} \subseteq BOOLEAN
ASSUME HeapFlags \subseteq BOOLEAN /\ HeapFlags # {}

VARIABLES
    next_tick,        \* ticks just set for next run
    new_target_tick,  \* for the next set, used during the reschedule stage
    total_num_tasks,  \* atomic: total number of registered tasks
    enabled_cores,    \* atomic: number of enabled cores
    registered,       \* registered[core]: the core has a registered client
    enabled,          \* enabled[core]: the core's interrupt source is armed
    live,             \* tasks the backend holds per core (scheduler's view)
    pc,               \* "idle" or "unreg": core is inside domain_unregister()
    snap,             \* local `registered` read at the start of unregister
    num_tasks         \* the num_tasks argument of the unregister in flight

vars == <<next_tick, new_target_tick, total_num_tasks, enabled_cores,
          registered, enabled, live, pc, snap, num_tasks>>

\* UINT64_MAX: "no tick has been set to timer"
UNSET == TickMax

Ticks == 0..TickMax

(***************************************************************************)
(* domain_init(): the domain is allocated once at platform init with      *)
(* rballoc(), which does not zero memory, and registered[] and enabled[]  *)
(* are never initialised: each starts as whatever the heap held, a value  *)
(* of HeapFlags (FALSE only when the heap happens to be zero-filled).     *)
(***************************************************************************)
Init ==
    /\ next_tick = UNSET
    /\ new_target_tick = UNSET
    /\ total_num_tasks = 0
    /\ enabled_cores = 0
    /\ registered \in [Cores -> HeapFlags]
    /\ enabled \in [Cores -> HeapFlags]
    /\ live = [c \in Cores |-> 0]
    /\ pc = [c \in Cores |-> "idle"]
    /\ snap = [c \in Cores |-> FALSE]
    /\ num_tasks = [c \in Cores |-> 0]

Idle(c) == pc[c] = "idle"

(***************************************************************************)
(* domain_set(): a backend setter programs the hardware and records the   *)
(* tick it armed itself; without one the start tick is stored.            *)
(***************************************************************************)
DomainSet(c, start) ==
    /\ Idle(c)
    /\ IF HasSetHook
          THEN next_tick' \in Ticks
          ELSE next_tick' = start
    /\ UNCHANGED <<new_target_tick, total_num_tasks, enabled_cores,
                   registered, enabled, live, pc, snap, num_tasks>>

\* domain_clear(): optional backend hook, then always back to UINT64_MAX.
DomainClear(c) ==
    /\ Idle(c)
    /\ next_tick' = UNSET
    /\ UNCHANGED <<new_target_tick, total_num_tasks, enabled_cores,
                   registered, enabled, live, pc, snap, num_tasks>>

(***************************************************************************)
(* domain_register() on core c.  The backend hook either accepts the task *)
(* (ret == 0) or rejects it; only on success are the count and the flag   *)
(* updated.                                                                *)
(***************************************************************************)
\* mutant: the flag is set whatever the backend returned
DomainRegisterIgnoringRet(c) ==
    /\ Idle(c)
    /\ live[c] < MaxTasks
    /\ \/ /\ live' = [live EXCEPT ![c] = @ + 1]
          /\ total_num_tasks' = total_num_tasks + 1
       \/ UNCHANGED <<live, total_num_tasks>>
    /\ registered' = [registered EXCEPT ![c] = TRUE]
    /\ UNCHANGED <<next_tick, new_target_tick, enabled_cores, enabled,
                   pc, snap, num_tasks>>

DomainRegister(c) ==
    /\ Idle(c)
    /\ live[c] < MaxTasks
    /\ \/ /\ live' = [live EXCEPT ![c] = @ + 1]           \* ret == 0
          /\ total_num_tasks' = total_num_tasks + 1
          /\ registered' = [registered EXCEPT ![c] = TRUE]
       \/ UNCHANGED <<live, total_num_tasks, registered>>  \* ret != 0
    /\ UNCHANGED <<next_tick, new_target_tick, enabled_cores, enabled,
                   pc, snap, num_tasks>>

(***************************************************************************)
(* domain_unregister(), first half: snapshot registered[core], decrement  *)
(* the count and, for the core's last task, clear the flag; then the      *)
(* backend hook is entered.  The scheduler passes the number of tasks     *)
(* that remain on the core.                                               *)
(***************************************************************************)
DomainUnregisterBegin(c) ==
    /\ Idle(c)
    /\ live[c] > 0
    /\ LET nt == live[c] - 1 IN
         /\ snap' = [snap EXCEPT ![c] = registered[c]]
         /\ num_tasks' = [num_tasks EXCEPT ![c] = nt]
         /\ total_num_tasks' = total_num_tasks - 1
         /\ registered' = [registered EXCEPT ![c] =
                              IF nt = 0 /\ registered[c] THEN FALSE ELSE @]
    /\ pc' = [pc EXCEPT ![c] = "unreg"]
    /\ UNCHANGED <<next_tick, new_target_tick, enabled_cores, enabled, live>>

(***************************************************************************)
(* domain_unregister(), second half: the backend hook returns 0, returns  *)
(* an error, or terminates the calling thread.  A thread that does not    *)
(* return has unregistered its task like a successful call; on an error   *)
(* the count is restored and, under the code's condition, the flag.       *)
(***************************************************************************)
\* mutant: the count is not given back on failure
UnregisterRollbackNoCount(c) ==
    /\ UNCHANGED total_num_tasks
    /\ registered' = [registered EXCEPT ![c] =
                         IF num_tasks[c] = 0 /\ registered[c] THEN snap[c] ELSE @]
    /\ UNCHANGED live

UnregisterRollback(c) ==
    /\ total_num_tasks' = total_num_tasks + 1
    /\ registered' = [registered EXCEPT ![c] =
                         IF num_tasks[c] = 0 /\ registered[c] THEN snap[c] ELSE @]
    /\ UNCHANGED live

DomainUnregisterEnd(c) ==
    /\ pc[c] = "unreg"
    /\ \/ /\ live' = [live EXCEPT ![c] = @ - 1]       \* ret == 0 or no return
          /\ UNCHANGED <<total_num_tasks, registered>>
       \/ UnregisterRollback(c)                          \* ret < 0
    /\ pc' = [pc EXCEPT ![c] = "idle"]
    /\ UNCHANGED <<next_tick, new_target_tick, enabled_cores, enabled,
                   snap, num_tasks>>

\* mutant: the enabled[core] test is dropped
DomainEnableTwice(c) ==
    /\ Idle(c)
    /\ HasEnableHook
    /\ enabled' = [enabled EXCEPT ![c] = TRUE]
    /\ enabled_cores' = enabled_cores + 1
    /\ UNCHANGED <<next_tick, new_target_tick, total_num_tasks, registered,
                   live, pc, snap, num_tasks>>

\* domain_enable(): idempotent, and a no-op without a backend hook.
DomainEnable(c) ==
    /\ Idle(c)
    /\ ~enabled[c] /\ HasEnableHook
    /\ enabled' = [enabled EXCEPT ![c] = TRUE]
    /\ enabled_cores' = enabled_cores + 1
    /\ UNCHANGED <<next_tick, new_target_tick, total_num_tasks, registered,
                   live, pc, snap, num_tasks>>

\* mutant: the enabled[core] test is dropped
DomainDisableTwice(c) ==
    /\ Idle(c)
    /\ HasDisableHook
    /\ enabled' = [enabled EXCEPT ![c] = FALSE]
    /\ enabled_cores' = enabled_cores - 1
    /\ UNCHANGED <<next_tick, new_target_tick, total_num_tasks, registered,
                   live, pc, snap, num_tasks>>

\* domain_disable(): the symmetric inverse.
DomainDisable(c) ==
    /\ Idle(c)
    /\ enabled[c] /\ HasDisableHook
    /\ enabled' = [enabled EXCEPT ![c] = FALSE]
    /\ enabled_cores' = enabled_cores - 1
    /\ UNCHANGED <<next_tick, new_target_tick, total_num_tasks, registered,
                   live, pc, snap, num_tasks>>

Next ==
    \E c \in Cores :
        \/ \E start \in Starts : DomainSet(c, start)
        \/ DomainClear(c)
        \/ DomainRegister(c)
        \/ DomainUnregisterBegin(c)
        \/ DomainUnregisterEnd(c)
        \/ DomainEnable(c)
        \/ DomainDisable(c)

Spec == Init /\ [][Next]_vars

-----------------------------------------------------------------------------
TypeOK ==
    /\ next_tick \in Ticks
    /\ new_target_tick \in Ticks
    /\ total_num_tasks \in 0..(MaxTasks * Cardinality(Cores))
    /\ enabled_cores \in 0..Cardinality(Cores)
    /\ registered \in [Cores -> BOOLEAN]
    /\ enabled \in [Cores -> BOOLEAN]
    /\ live \in [Cores -> 0..MaxTasks]
    /\ pc \in [Cores -> {"idle", "unreg"}]
    /\ snap \in [Cores -> BOOLEAN]
    /\ num_tasks \in [Cores -> 0..MaxTasks]

(***************************************************************************)
(* enabled_cores, updated with atomic_add/atomic_sub by domain_enable()   *)
(* and domain_disable() of every core, always counts exactly the cores    *)
(* whose enabled[] flag is set: repeated enables or disables of a core    *)
(* never move the counter.                                                 *)
(***************************************************************************)
EnabledCoresCounted ==
    enabled_cores = Quantify(Cores, LAMBDA c : enabled[c])

(***************************************************************************)
(* A core whose registered[] flag is set, outside domain_unregister(),    *)
(* still has a task registered with the backend: domain_register() sets   *)
(* the flag only on success and domain_unregister() clears it on the last *)
(* task.                                                                   *)
(***************************************************************************)
RegisteredOnlyWithTasks ==
    \A c \in Cores : Idle(c) /\ registered[c] => live[c] > 0

(***************************************************************************)
(* The converse: a core that still has a registered task, outside         *)
(* domain_unregister(), has its registered[] flag set.  spec.md requires  *)
(* a failed unregister to leave registered[core] as it was; the rollback  *)
(* in domain_unregister() is meant to restore it.                         *)
(***************************************************************************)
TasksImplyRegistered ==
    \A c \in Cores : Idle(c) /\ live[c] > 0 => registered[c]

(***************************************************************************)
(* Refinement: the domain implements DomainCounters, where a task is      *)
(* added or removed and both atomics change in one step.  The count the   *)
(* abstract spec sees is total_num_tasks plus the decrements of the       *)
(* unregisters still in flight, which the rollback must give back.        *)
(***************************************************************************)
InFlight == Quantify(Cores, LAMBDA c : pc[c] = "unreg")

Abs == INSTANCE DomainCounters
         WITH tasks <- live,
              total <- total_num_tasks + InFlight,
              enabled <- enabled,
              enabled_cores <- enabled_cores

DomainCountersRefined == Abs!Spec
=============================================================================
