# TLA+ models of the SOF schedule domain and IPC3 topology handlers

This directory holds TLA+ models of the two subsystems in `src/`, with the
TLC configurations that check them:

- `src/include/sof/schedule/ll_schedule_domain.h`: the low-latency schedule
  domain. It keeps per-core bookkeeping around backend hooks.
- `src/ipc/ipc3/helper.c`: the IPC3 topology handlers. They create, connect,
  complete and free components, buffers and pipelines.

`PROJECT.json` lists the components, runs, mutants, the map from each
definition to the source lines it models, the findings and the hazards.

## 1. Inventory

### Components and how they interact

| Part | Source | State | Operations |
|---|---|---|---|
| ScheduleDomain | `ll_schedule_domain.h` | `next_tick`, `new_target_tick`, atomics `total_num_tasks` and `enabled_cores`, per-core `registered[]` and `enabled[]` | `domain_init`, `domain_set`, `domain_clear`, `domain_register`, `domain_unregister`, `domain_enable`, `domain_disable`, `domain_is_pending` |
| DomainOps backends | outside `src/` | backend private data | the hooks of `ll_schedule_domain_ops` |
| TopologyGraph | `helper.c` | `ipc->comp_list`: an `ipc_comp_dev` per id, tagged component, buffer or pipeline; `comp_dev` state, lists and pipeline pointer; buffer ends; pipeline endpoints | `ipc_comp_new`/`comp_new`, `ipc_buffer_new`/`buffer_new`, `ipc_pipeline_new`, `ipc_comp_connect`, `ipc_pipeline_complete`, `ipc_comp_free`, `ipc_buffer_free`, `ipc_pipeline_free` |
| CrossCoreCoherency | `helper.c` `buffer_new` and connect helpers | `inter_core`, `is_shared`, the buffer object in memory and in each core's dcache line | invalidate, mark, `comp_make_shared`, writeback, eviction |
| CoreDelegation | `ipc_process_on_core` calls | none | re-issue a handler on the owning core |
| Parameter and driver helpers | `helper.c` 92-398 | buffer stream params, `period` rate | `comp_verify_params`, `comp_update_params`, `get_drv`, config builders |
| Pipeline-id accessor | `helper.c` 74-88 | none (reads an entry) | `ipc_comp_pipe_id` |
| Reply builders | `helper.c` 49-72 | none | `ipc_build_stream_posn`, `ipc_build_comp_event`, `ipc_build_trace_posn` |

Every core runs its own low-latency scheduler, and each scheduler calls the
`domain_*` helpers on one shared domain object. The two counters are atomics.
`registered[core]` and `enabled[core]` are written only by their own core.

The host sends topology IPCs one at a time. A handler whose target belongs
to another core re-issues itself there through `ipc_process_on_core()`, and
the caller blocks until it gets the result.

### The behaviours that make it hard

- **Split update in `domain_unregister()`.** It decrements
  `total_num_tasks` and may clear `registered[core]` before it calls a
  backend hook. The hook may fail or may never return, and other cores
  run in between.
- **Uninitialised memory.** `domain_init()` allocates the domain with
  `rballoc()` and never initialises `registered[]` or `enabled[]`.
- **Promotion failure.** When an edge crosses cores, the buffer is marked
  and the component promoted. If `comp_make_shared()` fails, NULL is
  stored in `icd->cd`.
- **Complete fails halfway.** `ipc_pipeline_complete()` stores
  `sched_comp` before two lookups that can fail.
- **Stale pointers.** Frees leave pointers behind: `cd->pipeline` after a
  pipeline free, and buffer ends after a component free. Freed
  `comp_dev` addresses are reused (ABA).
- **No type checks.** No handler checks the `COMP_TYPE_*` of the entry it
  looked up.

## 2. Plan

1. `DomainCounters` (done). The abstract promise about the two atomics.
2. `ScheduleDomain` (done). Every helper on every core, with
   `domain_unregister` split at the backend call. It is shown to refine
   `DomainCounters`.
3. `Topology` (done). All handlers of `helper.c`, with heap addresses and
   fault outcomes.
4. `Coherency` (done). The buffer object in memory and in per-core
   non-coherent cache lines, around `buffer_new` and the connect helpers.
5. `VerifyParams` (done). `comp_verify_params` and `comp_update_params` as
   operators, checked against a reference definition.
6. `GetDrv` (done). Driver lookup by type or UUID with its size checks, in
   wrapping `size_t` arithmetic, checked against the specified lookup.
7. `BufferEndsConnected` in `Topology` (done): ABA in `ipc_buffer_free`.
8. `CompNew` (done). `comp_new` composed of `get_drv`, both config
   builders and the driver's `create()`.
9. `IpcCompPipeId` in `Topology` (done). The endpoint lookups of
   `ipc_pipeline_complete` now decide which entries belong to a pipeline
   through `ipc_comp_pipe_id`.
10. Left open on purpose: component lists that name a freed buffer
    (`:694`) and a connect to an occupied slot (`:732`). Both depend on
    what `buffer_free` and `pipeline_connect` do with the list links. That
    code is outside `src/` and spec.md does not describe it, so a property
    would check an assumption rather than this code.

## 3. Modules

### `DomainCounters.tla`: abstract schedule domain

Variables `tasks`, `total`, `enabled` and `enabled_cores`. Adding or
removing a task, and enabling or disabling a core, each happen in one step.

### `ScheduleDomain.tla`: `ll_schedule_domain.h`

| Definition | Code |
|---|---|
| `Init` | `domain_init`. Flags start as any value in `HeapFlags`. |
| `DomainSet` | `domain_set`. With a hook, any tick; without one, `start`. |
| `DomainClear` | `domain_clear` |
| `DomainRegister` | `domain_register`. The backend accepts or rejects the task. |
| `DomainUnregisterBegin` | `domain_unregister` up to the backend call (snapshot, decrement, clear the flag) |
| `DomainUnregisterEnd` / `UnregisterRollback` | the hook returns 0 (or never returns), or fails and the code compensates |
| `DomainEnable`, `DomainDisable` | `domain_enable`, `domain_disable` |

`live[c]` is the number of tasks the backend holds for core `c`. It is the
scheduler's view, and the scheduler passes it as `num_tasks`. `pc`, `snap`
and `num_tasks` hold the local state of an unregister that is in flight.

The refinement mapping sets `total` to `total_num_tasks + InFlight`, where
`InFlight` counts the decrements that may still be rolled back.

### `Topology.tla`: `helper.c`

`reg[id]` is the `ipc_comp_dev` of `id`: `None`, or a component, buffer or
pipeline record. `dev[a]` is the `comp_dev` at heap address `a`.

A `struct comp_dev *` is a pair `<<a, form>>`: the address and whether
it is the cached or the uncached (shared) alias of the object. `Obj(q)`
is the address and `D(q)` the device. `MakeShared(q)` is
`comp_make_shared`: with the constant `SharedAlias` (platforms whose
`platform_shared_get` returns the uncached alias) it returns the other
form of the same object, so `icd->cd` changes while `source_comp`,
`sink_comp`, `sched_comp` and a buffer's ends keep the form they were
given. Pointer comparisons (`ipc_comp_free` at `:871-876`,
`ipc_buffer_free` at `:669/:675`) compare the whole pair, as the C
compares addresses.

`pipeline_complete` (outside `src/`) is modelled from spec.md: it refuses
a pipeline that is already complete, walks downstream from the source
through each component's sink buffers (`WalkGraph`, `Walked`, with
`Descendants` of the community `Graphs` module) and sets `cd->pipeline`
only on the components of the same pipeline it reaches; then it binds
`source_comp` and `sink_comp`.

`leaked`, `uaf` and `fault` record what the code does that is not
observable state:

- `leaked`: a pipeline was leaked.
- `uaf`: a handler wrote through a freed pipeline.
- `fault`: a handler dereferenced a NULL `cd` or used the wrong union
  member.

After a fault, `Reload` models the host reloading the DSP.

Each handler is one action, and each early return is a disjunct:

- `IpcCompNew`, `IpcBufferNew`, `IpcPipelineNew`;
- `IpcCompConnect` with `BufferCompConnect` (both directions);
- `IpcPipelineComplete`;
- `IpcCompFree` with `Unbind`;
- `IpcBufferFree` with `Active`;
- `IpcPipelineFree`.

`IpcCompPipeId(i)` is `ipc_comp_pipe_id`. For a component it reads
`D(reg[i].cd).ppl` through the device pointer. For a buffer or a
pipeline it reads the entry's own `ppl`. `InPpl` and `PplComps`, the
membership tests of the endpoint lookups, use it. Those lookups are
reached only when no component's `cd` is NULL; otherwise the handler
takes the `null_cd` fault.

`Trigger` moves a device between READY and active. Pipeline triggers are
outside `src/`.

Functions outside `src/` are modelled from spec.md by their outcomes:
`pipeline_connect`, `pipeline_complete`, `ipc_get_ppl_src/sink_comp`,
`comp_make_shared`, the allocators and the drivers. `PROJECT.json` marks
these `spec_modelled`.

### `Coherency.tla`: cache maintenance around one buffer

`mem` is the `struct comp_buffer` in memory and `cache[c]` core `c`'s line
(invalid, or a copy that is dirty when written). `logical` is what a
sequentially consistent memory would hold after the same handlers; it is
what every core is meant to read.

| Definition | Code |
|---|---|
| `Init` | `buffer_alloc`: memory holds anything |
| `BufferNew` | `buffer_new`: fields written, then `dcache_writeback_invalidate_region` |
| `Connect(x, dir)` | both connect helpers. Across cores: invalidate, set `inter_core`, promote. On `-ENOMEM` the marked line stays dirty. Otherwise `pipeline_connect` and writeback-invalidate. |
| `Read(c)` | code on core `c` outside the handlers reading the buffer (spec-modelled) |
| `Evict(c)` | the hardware evicting a line, writing it back if dirty |

### `VerifyParams.tla`: `comp_verify_params`

The buffer lists are sequences of buffer ids and a buffer's params a record
of four fields. `UpdateParams` is `comp_update_params`. `Loop` is the
`while` loop over the list `direction` selects (RECURSIVE). `CompVerify`
returns the whole effect of one call: return value, params, buffers and
period rate. The state machine only lets a component call it repeatedly
from every starting layout; the property quantifies over every flag set and
argument.

### `GetDrv.tla`: `get_drv`

`GetDrvOf(m)` gives the driver's list position and the offset the UUID is
read from. The size check and the extension offset are computed modulo
`2^Width`, as `size_t` does. `FirstMatch` is the `list_for_item` loop that
stops at the first match.

### `CompNew.tla`: `comp_new` and the config builders

`CompNew` extends `GetDrv`. `CompNewStep(m)` is the whole of `comp_new`:
`GetDrv(m)`, the config size check, `CommonBuilder` and `SpecificBuilder`,
and a `create()` that may fail. The builders' records are locals on the
stack. The model keeps where each value handed to `create()` comes from:
`"desc"` (copied), `"zero"` (memset) or `"garbage"` (stack). `Member(t)`
is the `switch` on `comp->type`, including the `CONFIG_LIBRARY` mapping
of host and DAI types to the file member. `handed` records the last
`create()` call: its driver, config and union.

## 4. Runs

| Run | Expect | Checks | Shows |
|---|---|---|---|
| `sd_core` | pass | TypeOK, EnabledCoresCounted, RegisteredOnlyWithTasks, DomainCountersRefined | On a zero-filled heap, the counters stay consistent under any interleaving of two cores. The domain refines `DomainCounters`. |
| `sd_rollback` | violation | TasksImplyRegistered | A failed unregister of the last task loses `registered[core]` (`ll_schedule_domain.h:168`). |
| `topo_core` | pass | CrossCoreEdgesMarked | Every edge between a buffer and a component of another core has the buffer marked `inter_core` and the component shared, whichever connect direction and order made it, with failing promotions, address reuse and the pipeline scheduled from either core. |
| `topo_sched` | violation | PipelineRefsLive | A component bound as sink and `sched_comp` that `pipeline_complete`'s walk never reached keeps `cd->pipeline` NULL; `ipc_comp_free` then leaves both references dangling (`helper.c:870`). |
| `topo_nullcd` | violation | NoNullDeviceDeref | A promotion failure leaves a NULL `cd`, and a later handler dereferences it (`:726`). |
| `topo_aba` | violation | BufferEndsConnected | A component freed while connected leaves the buffer's end at its address. A new component at that address then passes `ipc_buffer_free`'s end test (`:669`). |
| `topo_uaf` | violation | NoUseAfterFree | `ipc_comp_free` writes through `cd->pipeline` after `ipc_pipeline_free` (`:871`). |
| `coh_core` | pass | NoLostUpdate | With every component on the other core, no end and no `inter_core` mark is lost under eviction and reads on both cores, even when promotion fails. |
| `coh_enomem` | violation | NoLostUpdate | With a component on each core: the `-ENOMEM` return leaves a dirty marked line; its eviction overwrites the end the buffer's own core connected meanwhile (`:728`). |
| `vp_core` | pass | MatchesReference | Every call leaves the buffers and params the reference says, for endpoint and inner components, both directions and every flag set. |
| `cn_core` | pass | ExtensionInMessage | For any descriptor type and UUID, with `ext_data_length` within the message, every `comp_new` reads the UUID from inside the descriptor. |
| `gd_overflow` | violation | ExtensionInMessage | A host-chosen `ext_data_length` wraps `sizeof(*comp) + ext_data_length`; the check passes and the UUID is read outside the descriptor (`:216`). |

`PipelineRefsLive` has two more ways to fail than the shortest trace
`topo_sched` prints, both listed as hazards under it: a failed complete
that has already stored `sched_comp` (`:579`), and a complete followed by
a cross-core connect whose `comp_make_shared` turns `icd->cd` into the
uncached alias, so the comparison at `:871-876` misses the cached
endpoint (`:726`/`:758`).

Some properties are stated and have a configuration on which TLC
violates them, but are not among the runs:

- `EnabledCoresCounted` on a heap that is not zero-filled
  (`MCScheduleDomain_heap.cfg`). The violation is in the initial state;
  `sd_core` checks the property on a zeroed heap.
- `VariantMatches` (`MCCompNew_variant.cfg`). A descriptor whose UUID
  names another type's driver gets a union member built for its type tag.
  spec.md does not say the two must agree, so it is a hazard.

One malformed or failing IPC reaches the following three, so a unit test
does too: `NoTypeConfusion`
(`MCTopology_typeconf.cfg`), `NoPipelineLeak` (`MCTopology_leak.cfg`) and
`NoEmptyListRead` (`MCVerifyParams_empty.cfg`, a component without
buffers). `MCCoherency_samecore.cfg` shows a same-core connect writing a
stale copy back when the buffer's core reads the object without an
invalidate. That depends on a data path outside `src/`, so it is a hazard
and not a finding.

Each property of a passing run also has a mutant in `PROJECT.json`. The
mutant is a plausible coding error that TLC shows breaks the property:

- enable or disable without the flag test;
- register ignoring the backend's return value;
- rollback without the count;
- a connect direction that skips promotion;
- `buffer_new` without its final writeback;
- the loop writing a buffer before reading it;
- `get_drv` without the UUID-length check.

Properties that only restated the model are not checked: a type
invariant of `Topology` (no plausible code error breaks it), a
reference `get_drv` equal to `GetDrvOf` within the bounds, and the
absence of stack values in `create()`'s config, which both builders'
unconditional `memset` guarantees by construction.

## 5. Bounds

- **ScheduleDomain.** Two cores and up to two tasks per core. This covers
  a last-task and a not-last-task unregister on one core while the other
  core acts. Ticks are `0..3`, with 3 standing for `UINT64_MAX`.
- **Topology.** Two cores and four ids, with one fixed plan of
  descriptors:
  - components 1 (core 0) and 2 (core 1);
  - buffer 3 (core 0);
  - pipeline 4 (core 0, its descriptor naming sched_id 1 or 2).

  The host may send these descriptors in any order and any number of
  times. Connect and free name any id. Two `comp_dev` addresses are
  enough for one address to be freed and reused. The addresses are
  symmetric model values. `topo_core` sets `SharedAlias = FALSE`:
  `CrossCoreEdgesMarked` is about addresses and flags, which the pointer
  form does not change, and the aliased state space more than doubles.
  The violation runs set it to `TRUE`.

- **Coherency.** Two cores, one buffer on core 0 and three components
  (`coh_enomem`: one on core 0, two on core 1; `coh_core`: all on core 1),
  each connectable at either end any number of times. That is enough for a
  failed promotion, a connect by the other core and an eviction to
  interleave.
- **VerifyParams.** Three buffers and four layouts: an inner component
  with one or two buffers on each side, and endpoints with only sinks or
  only sources. Field values are `{0,1}`, and three argument vectors
  differ in all fields or only in the rate, so a leaked value is visible.
- **GetDrv and CompNew.** `size_t` is scaled to 5 bits, the header to 4
  bytes and `UUID_SIZE` to 2.
  - `cn_core`: every size and every length from 0 to 12. There are four
    types (host, volume, mixer, and a buffer type with no driver) and
    four drivers. One volume driver, registered last, reuses the host
    driver's UUID, so list order decides. The mixer type has no union
    member.
  - `gd_overflow`: lengths up to 31.

A single plan keeps `topo_core` at about two minutes. Any id may appear in
any IPC, so wrong-kind, missing-id and cross-core cases all occur.

## 6. Fairness

No liveness property is checked. Topology operations happen only when the
host sends an IPC. Scheduler calls happen only when backend interrupts
fire. The code guarantees neither, so no fairness assumption is justified.
`CHECK_DEADLOCK` stays on:

- in `ScheduleDomain`, `DomainSet` and `DomainClear` are always enabled;
- in `Topology`, a failing handler can always be retried, and after a
  fault `Reload` is enabled.
- in `Coherency`, every core either holds a line it may evict or may
  read one in;
- in `VerifyParams`, `GetDrv` and `CompNew`, a call is always possible.

The one place where the code does promise progress is the backend call in
`domain_unregister`. Its comment says the call either returns or ends the
thread, and `DomainUnregisterEnd` covers both outcomes. With fairness on
that action, the only thing one could claim is that the core leaves
`domain_unregister`. That restates the fairness assumption, so it is not
checked.

## 7. Not modelled

- **Cache maintenance in `Topology`.** `Topology` assumes each core's view
  of a buffer is coherent. `Coherency` checks the cache maintenance
  separately, for one buffer.
- **Field-by-field copies of the builders.** Each copied field is
  abstracted to "from the descriptor"; which field goes where is layout.
- **Buffer params outside `comp_verify_params`.** `buffer_set_params` is
  modelled as copying the four fields.
- **Reply builders.** `ipc_build_stream_posn`, `ipc_build_comp_event` and
  `ipc_build_trace_posn` only fill in a message header and change no
  state.
  - spec.md 1 puts the wire encoding of IPC messages out of scope.
  - The header layout (`ipc/header.h`) is not in `src/`.
  - Their hazard, an id of 2^16 or more ORed into the `cmd` word
    unmasked, is listed in `PROJECT.json` with no property.
- **Core ids of buffers and pipelines.** `ipc_buffer_new` and
  `ipc_pipeline_new` do not check the descriptor's core, unlike
  `ipc_comp_new` at `:814`.
  - `CoreOf` ranges over valid cores.
  - What delegation does with a core that does not exist is decided in
    `ipc_process_on_core`, outside `src/`.
- **Backend and driver internals.** These are outside `src/`.
- **`domain_is_pending`.** It only forwards to the backend.
- **`new_target_tick`.** No code in `src/` writes it after
  `domain_init`.
