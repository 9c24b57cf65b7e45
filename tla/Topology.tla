------------------------------ MODULE Topology ------------------------------
(***************************************************************************)
(* The IPC3 topology handlers of src/ipc/ipc3/helper.c: the registry     *)
(* ipc->comp_list of components, buffers and pipelines, and the          *)
(* new / connect / complete / free handlers the IPC dispatcher calls.     *)
(*                                                                         *)
(* IPC messages are processed one at a time; a handler that finds its     *)
(* target owned by another core re-issues itself there through           *)
(* ipc_process_on_core() and the caller blocks for the result, so every  *)
(* handler is one atomic step executed on the owning core.               *)
(*                                                                         *)
(* Component devices (struct comp_dev) live at heap addresses Addrs, and  *)
(* a freed address can be handed out again.  A pointer to a device is    *)
(* its address with the form it is accessed through: comp_new() returns *)
(* the cached one, and comp_make_shared() may return the uncached alias  *)
(* of the same object (platform_shared_get()).  The registry entry, the  *)
(* buffers and the pipelines hold pointers, and the code compares them   *)
(* with ==.  Buffers and pipelines are identified by their registry id.  *)
(*                                                                         *)
(* Functions outside src/ (pipeline_connect, pipeline_complete,          *)
(* comp_make_shared, ipc_get_ppl_src/sink_comp, pipeline_free, the       *)
(* allocators and drivers) are modelled from spec.md, by their outcomes. *)
(***************************************************************************)
EXTENDS Naturals, FiniteSets

LOCAL Gr == INSTANCE Graphs

(***************************************************************************)
(* The host sends the descriptors of one topology, in any order and any   *)
(* number of times: Kind[id] says which new IPC carries id, CoreOf[id]   *)
(* and PplOf[id] its core and pipeline_id, SchedOf[id] the sched_ids a  *)
(* pipeline's descriptor may carry.  Connect and free IPCs name any id.                          *)
(***************************************************************************)
CONSTANTS
    Cores,          \* CONFIG_CORE_COUNT core ids
    Ids,            \* comp ids the host uses, shared by all three kinds
    PplIds,         \* pipeline_id values
    Kind,           \* Kind[id] \in {"comp", "buffer", "pipeline"}
    CoreOf,         \* core of the descriptor of id
    PplOf,          \* pipeline_id of the descriptor of id
    SchedOf,        \* sched_id values of a pipeline descriptor
    Addrs,          \* heap addresses a comp_dev can be allocated at
    NULL,
    PromoteMayFail, \* comp_make_shared() can fail to reallocate
    SharedAlias     \* platform_shared_get() returns the uncached alias

ASSUME NULL \notin Ids \cup Addrs
ASSUME Kind \in [Ids -> {"comp", "buffer", "pipeline"}]
ASSUME CoreOf \in [Ids -> Cores] /\ PplOf \in [Ids -> PplIds]
ASSUME SchedOf \in [Ids -> SUBSET Ids]
ASSUME PromoteMayFail \in BOOLEAN /\ SharedAlias \in BOOLEAN

VARIABLES
    reg,        \* ipc->comp_list: reg[id] is the struct ipc_comp_dev of id
    dev,        \* dev[a]: the struct comp_dev at address a (any form)
    ret,        \* return value of the last IPC handler
    leaked,     \* a struct pipeline was allocated and never freed
    uaf,        \* a handler wrote through a pointer to a freed pipeline
    fault       \* undefined behaviour reached: {"null_cd", "type_confusion"}

vars == <<reg, dev, ret, leaked, uaf, fault>>

OK == "OK"
Errors == {"EINVAL", "ENODEV", "ENOMEM"}

\* Pointers to a comp_dev, and the device a pointer designates.
Ptrs == Addrs \X {"cached", "uncached"}
Obj(q) == q[1]
D(q) == dev[Obj(q)]

\* The registry entries, one record shape per COMP_TYPE_*.
None == [type |-> "none"]
CompEntry(c, a) == [type |-> "comp", core |-> c, cd |-> a]
BufEntry(c, p) == [type |-> "buffer", core |-> c, ppl |-> p,
                   source |-> NULL, sink |-> NULL, inter_core |-> FALSE]
PipeEntry(c, p, s) == [type |-> "pipeline", core |-> c, ppl |-> p, sched |-> s,
                       source_comp |-> NULL, sink_comp |-> NULL,
                       sched_comp |-> NULL, complete |-> FALSE]

\* A comp_dev as created by comp_new(): state READY, lists empty.
NoDev == [alloc |-> FALSE, id |-> NULL, core |-> NULL, ppl |-> NULL,
          state |-> "ready", shared |-> FALSE, pipeline |-> NULL,
          bsource |-> {}, bsink |-> {}]
NewDev(id, c, p) == [NoDev EXCEPT !.alloc = TRUE, !.id = id, !.core = c, !.ppl = p]

Is(id, t) == reg[id].type = t
Comps == {i \in Ids : Is(i, "comp")}
Buffers == {i \in Ids : Is(i, "buffer")}
Pipelines == {i \in Ids : Is(i, "pipeline")}

Init ==
    /\ reg = [i \in Ids |-> None]
    /\ dev = [a \in Addrs |-> NoDev]
    /\ ret = OK
    /\ leaked = FALSE
    /\ uaf = FALSE
    /\ fault = {}

\* Result of a handler that returns before changing anything.
Reject(e) == ret' = e /\ UNCHANGED <<reg, dev, leaked, uaf, fault>>

(***************************************************************************)
(* A handler reaches undefined behaviour: it dereferences a NULL comp_dev *)
(* (kind "null_cd") or uses the union member of an ipc_comp_dev of       *)
(* another COMP_TYPE_* (kind "type_confusion").  The DSP takes an        *)
(* exception and stops processing IPCs until the host reloads it.        *)
(***************************************************************************)
Fault(kind) == fault' = {kind} /\ UNCHANGED <<reg, dev, ret, leaked, uaf>>

-----------------------------------------------------------------------------
(***************************************************************************)
(* ipc_comp_new() with comp_new(): a duplicate id is refused; the driver  *)
(* lookup, the size check or the driver's create() can fail (-EINVAL);   *)
(* allocating the ipc_comp_dev can fail after the device was created and *)
(* it is rfree()d again (-ENOMEM); otherwise the device is created at a  *)
(* free address and appended to the registry.                            *)
(***************************************************************************)
IpcCompNew(id, c, p) ==
    /\ fault = {}
    /\ \/ Reject("EINVAL")          \* id exists, or comp_new() returned NULL
       \/ Is(id, "none") /\ Reject("ENOMEM")           \* icd alloc failed
       \/ /\ Is(id, "none")
          /\ \E a \in Addrs :
               /\ ~dev[a].alloc
               /\ dev' = [dev EXCEPT ![a] = NewDev(id, c, p)]
               /\ reg' = [reg EXCEPT ![id] = CompEntry(c, <<a, "cached">>)]
          /\ ret' = OK
          /\ UNCHANGED <<leaked, uaf, fault>>

(***************************************************************************)
(* ipc_buffer_new() with buffer_new(): a duplicate id is refused,        *)
(* buffer_alloc() or the ipc_comp_dev allocation can fail (-ENOMEM, the  *)
(* buffer is freed again); otherwise an unconnected buffer is added.     *)
(***************************************************************************)
IpcBufferNew(id, c, p) ==
    /\ fault = {}
    /\ \/ ~Is(id, "none") /\ Reject("EINVAL")
       \/ Is(id, "none") /\ Reject("ENOMEM")  \* buffer or container alloc
       \/ /\ Is(id, "none")
          /\ reg' = [reg EXCEPT ![id] = BufEntry(c, p)]
          /\ ret' = OK
          /\ UNCHANGED <<dev, leaked, uaf, fault>>

(***************************************************************************)
(* ipc_pipeline_new(): refused if the comp id exists or a pipeline with  *)
(* that pipeline_id exists; pipeline_new() can fail (-ENOMEM); when       *)
(* pipeline_schedule_config() or pipeline_xrun_set_limit() fails the     *)
(* handler returns without freeing the new pipeline; when the container  *)
(* allocation fails the pipeline is freed (-ENOMEM).                      *)
(***************************************************************************)
IpcPipelineNew(id, p, s, c) ==
    /\ fault = {}
    /\ \/ ~Is(id, "none") /\ Reject("EINVAL")
       \/ /\ Is(id, "none")
          /\ \E q \in Pipelines : reg[q].ppl = p
          /\ Reject("EINVAL")
       \/ /\ Is(id, "none")
          /\ \A q \in Pipelines : reg[q].ppl # p
          /\ \/ Reject("ENOMEM")          \* pipeline_new() or container alloc
             \/ /\ ret' = "EINVAL"                      \* config failed
                /\ leaked' = TRUE
                /\ UNCHANGED <<reg, dev, uaf, fault>>
             \/ /\ reg' = [reg EXCEPT ![id] = PipeEntry(c, p, s)]
                /\ ret' = OK
                /\ UNCHANGED <<dev, leaked, uaf, fault>>

-----------------------------------------------------------------------------
(***************************************************************************)
(* ipc_comp_to_buffer_connect() (dir = "source": the component feeds the *)
(* buffer) and ipc_buffer_to_comp_connect() (dir = "sink"), executed on  *)
(* the component's core.  For an edge between cores the buffer is marked *)
(* inter_core and, if not shared yet, comp->cd replaced by what          *)
(* comp_make_shared() returns: the same device, flagged shared, through  *)
(* the uncached alias when SharedAlias.  Pointers to the device taken    *)
(* before (buffer ends, pipeline endpoints) keep the cached form.  When  *)
(* comp_make_shared() fails, NULL is stored in comp->cd and -ENOMEM      *)
(* returned.  pipeline_connect() links both sides with the new comp->cd. *)
(***************************************************************************)
\* comp_make_shared(): the pointer it returns for a device.
MakeShared(q) == IF SharedAlias THEN <<Obj(q), "uncached">> ELSE q

\* pipeline_connect(): the buffer's slot and the component's list.
WithSlot(r, b, a, dir) ==
    IF dir = "source" THEN [r EXCEPT ![b].source = a]
                      ELSE [r EXCEPT ![b].sink = a]

WithList(d, a, b, dir) ==
    IF dir = "source" THEN [d EXCEPT ![a].bsink = @ \cup {b}]
                      ELSE [d EXCEPT ![a].bsource = @ \cup {b}]

\* mutant: ipc_buffer_to_comp_connect() marks the buffer but skips the promotion
BufferCompConnectSinkUnpromoted(b, i, dir) ==
    LET q == reg[i].cd
        cross == reg[b].core # reg[i].core
        promote == cross /\ dir = "source" /\ ~D(q).shared
        nq == IF promote THEN MakeShared(q) ELSE q
        marked == IF cross THEN [reg EXCEPT ![b].inter_core = TRUE] ELSE reg
        promoted == IF promote THEN [dev EXCEPT ![Obj(q)].shared = TRUE] ELSE dev
    IN
    \/ q = NULL /\ Fault("null_cd")
    \/ /\ q # NULL
       /\ reg' = WithSlot([marked EXCEPT ![i].cd = nq], b, nq, dir)
       /\ dev' = WithList(promoted, Obj(q), b, dir)
       /\ ret' = OK
       /\ UNCHANGED <<leaked, uaf, fault>>

BufferCompConnect(b, i, dir) ==
    LET q == reg[i].cd
        cross == reg[b].core # reg[i].core
        promote == cross /\ ~D(q).shared
        nq == IF promote THEN MakeShared(q) ELSE q
        marked == IF cross THEN [reg EXCEPT ![b].inter_core = TRUE] ELSE reg
        promoted == IF promote THEN [dev EXCEPT ![Obj(q)].shared = TRUE] ELSE dev
    IN
    \/ q = NULL /\ Fault("null_cd")
    \/ /\ q # NULL
       /\ reg' = WithSlot([marked EXCEPT ![i].cd = nq], b, nq, dir)
       /\ dev' = WithList(promoted, Obj(q), b, dir)
       /\ ret' = OK
       /\ UNCHANGED <<leaked, uaf, fault>>
    \/ /\ q # NULL /\ promote /\ PromoteMayFail
       /\ reg' = [marked EXCEPT ![i].cd = NULL]
       /\ ret' = "ENOMEM"
       /\ UNCHANGED <<dev, leaked, uaf, fault>>

(***************************************************************************)
(* ipc_comp_connect(): both ids must exist and be a buffer and a         *)
(* component, in either order; anything else is -EINVAL.                 *)
(***************************************************************************)
IpcCompConnect(s, k) ==
    /\ fault = {}
    /\ \/ (Is(s, "none") \/ Is(k, "none")) /\ Reject("EINVAL")
       \/ Is(s, "buffer") /\ Is(k, "comp") /\ BufferCompConnect(s, k, "sink")
       \/ Is(s, "comp") /\ Is(k, "buffer") /\ BufferCompConnect(k, s, "source")
       \/ /\ ~Is(s, "none") /\ ~Is(k, "none")
          /\ ~(Is(s, "buffer") /\ Is(k, "comp"))
          /\ ~(Is(s, "comp") /\ Is(k, "buffer"))
          /\ Reject("EINVAL")

-----------------------------------------------------------------------------
(***************************************************************************)
(* The endpoints ipc_get_ppl_src_comp() and ipc_get_ppl_sink_comp()      *)
(* return: components of pipeline_id p none of whose upstream (resp.     *)
(* downstream) buffers belongs to p.  Any of them may be the one found.  *)
(* An entry belongs to pipeline p when ipc_comp_pipe_id() returns p.     *)
(***************************************************************************)
(* ipc_comp_pipe_id() is the pipeline_id of an entry, read through the   *)
(* member its COMP_TYPE_* selects: the device's ipc_config for a         *)
(* component (dev_comp_pipe_id(), which dereferences icd->cd), the       *)
(* comp_buffer for a buffer and the struct pipeline for a pipeline.      *)
IpcCompPipeId(i) ==
    CASE Is(i, "comp") -> D(reg[i].cd).ppl
      [] Is(i, "buffer") \/ Is(i, "pipeline") -> reg[i].ppl
      [] OTHER -> "EINVAL"

InPpl(b, p) == Is(b, "buffer") /\ IpcCompPipeId(b) = p
PplComps(p) == {reg[i].cd : i \in {j \in Comps : IpcCompPipeId(j) = p}}
SrcEnds(p) == {q \in PplComps(p) : \A b \in D(q).bsource : ~InPpl(b, p)}
SinkEnds(p) == {q \in PplComps(p) : \A b \in D(q).bsink : ~InPpl(b, p)}
NullComp == \E i \in Comps : reg[i].cd = NULL

(***************************************************************************)
(* ipc_pipeline_complete(), on the pipeline's core.  The scheduling      *)
(* component must exist, be a component and share the pipeline's core;   *)
(* p->sched_comp is stored before the endpoints are looked up, and        *)
(* either lookup can fail.  pipeline_complete() refuses a pipeline       *)
(* completed before; otherwise it walks downstream from the source,      *)
(* through each component's sink buffers to the buffer's sink, and sets *)
(* cd->pipeline on every component of the same pipeline_id it reaches    *)
(* (the walk does not pass a component of another pipeline), then binds *)
(* source_comp and sink_comp.                                              *)
(***************************************************************************)
WalkGraph(p) ==
    LET N == {a \in Addrs : dev[a].alloc /\ dev[a].ppl = p}
    IN [node |-> N,
        edge |-> {e \in N \X N :
                    \E b \in dev[e[1]].bsink :
                        Is(b, "buffer") /\ reg[b].sink # NULL
                        /\ Obj(reg[b].sink) = e[2]}]

Walked(src, p) == {Obj(src)} \cup Gr!Descendants(WalkGraph(p), Obj(src))

IpcPipelineComplete(id) ==
    /\ fault = {}
    /\ \/ Is(id, "none") /\ Reject("EINVAL")
       \/ Is(id, "comp") /\ Fault("type_confusion")
       \/ Is(id, "buffer") /\ Fault("type_confusion")
       \/ /\ Is(id, "pipeline")
          /\ LET pe == reg[id]
                 s == pe.sched
                 withSched == [reg EXCEPT ![id].sched_comp = reg[s].cd]
             IN
             \/ ~Is(s, "comp") /\ Reject("EINVAL")
             \/ Is(s, "comp") /\ reg[s].core # pe.core /\ Reject("EINVAL")
             \/ /\ Is(s, "comp") /\ reg[s].core = pe.core
                /\ \/ NullComp /\ Fault("null_cd")
                   \/ /\ ~NullComp
                      /\ SrcEnds(pe.ppl) = {} \/ SinkEnds(pe.ppl) = {}
                      /\ reg' = withSched
                      /\ ret' = "EINVAL"
                      /\ UNCHANGED <<dev, leaked, uaf, fault>>
                   \/ /\ ~NullComp
                      /\ SrcEnds(pe.ppl) # {} /\ SinkEnds(pe.ppl) # {}
                      /\ pe.complete
                      /\ reg' = withSched
                      /\ ret' = "EINVAL"
                      /\ UNCHANGED <<dev, leaked, uaf, fault>>
                   \/ /\ ~NullComp /\ ~pe.complete
                      /\ \E src \in SrcEnds(pe.ppl), snk \in SinkEnds(pe.ppl) :
                           /\ reg' = [withSched EXCEPT ![id].source_comp = src,
                                                       ![id].sink_comp = snk,
                                                       ![id].complete = TRUE]
                           /\ dev' = [a \in Addrs |->
                                       IF a \in Walked(src, pe.ppl)
                                       THEN [dev[a] EXCEPT !.pipeline = id]
                                       ELSE dev[a]]
                      /\ ret' = OK
                      /\ UNCHANGED <<leaked, uaf, fault>>

(***************************************************************************)
(* ipc_comp_free(), on the component's core: refused unless the device   *)
(* is in COMP_STATE_READY; the pipeline the device points at has every   *)
(* source/sink/sched pointer equal to icd->cd cleared, then the device is *)
(* freed and the entry removed.  Pointers to the device in another form, *)
(* and buffers still pointing at it, are left as they are.              *)
(***************************************************************************)
Unbind(pe, q) ==
    [pe EXCEPT !.source_comp = IF @ = q THEN NULL ELSE @,
               !.sink_comp = IF @ = q THEN NULL ELSE @,
               !.sched_comp = IF @ = q THEN NULL ELSE @]

IpcCompFree(id) ==
    /\ fault = {}
    /\ \/ Is(id, "none") /\ Reject("ENODEV")
       \/ (Is(id, "buffer") \/ Is(id, "pipeline")) /\ Fault("type_confusion")
       \/ /\ Is(id, "comp")
          /\ LET cd == reg[id].cd
                 pp == D(cd).pipeline
             IN
             \/ cd = NULL /\ Fault("null_cd")
             \/ cd # NULL /\ D(cd).state # "ready" /\ Reject("EINVAL")
             \/ /\ cd # NULL /\ D(cd).state = "ready"
                /\ reg' = [i \in Ids |->
                             IF i = id THEN None
                             ELSE IF i = pp /\ Is(pp, "pipeline") THEN Unbind(reg[i], cd)
                             ELSE reg[i]]
                /\ uaf' = (uaf \/ (pp # NULL /\ ~Is(pp, "pipeline")))
                /\ dev' = [dev EXCEPT ![Obj(cd)] = NoDev]
                /\ ret' = OK
                /\ UNCHANGED <<leaked, fault>>

(***************************************************************************)
(* ipc_buffer_free(), on the buffer's core.  The registry is scanned for *)
(* components whose device is the buffer's sink or source and not READY. *)
(* Both ends active is refused; otherwise every active end is            *)
(* disconnected and the buffer freed.  The scan dereferences the end     *)
(* pointer whenever it equals an entry's cd, a NULL one included; an end *)
(* held in another form than the entry's cd is not found.                *)
(***************************************************************************)
Active(q) == q # NULL /\ D(q).state # "ready" /\ \E i \in Comps : reg[i].cd = q

IpcBufferFree(id) ==
    /\ fault = {}
    /\ \/ Is(id, "none") /\ Reject("ENODEV")
       \/ (Is(id, "comp") \/ Is(id, "pipeline")) /\ Fault("type_confusion")
       \/ /\ Is(id, "buffer")
          /\ LET b == reg[id] IN
             \/ /\ NullComp /\ NULL \in {b.sink, b.source}
                /\ Fault("null_cd")
             \/ /\ ~(NullComp /\ NULL \in {b.sink, b.source})
                /\ Active(b.sink) /\ Active(b.source)
                /\ Reject("EINVAL")
             \/ /\ ~(NullComp /\ NULL \in {b.sink, b.source})
                /\ ~(Active(b.sink) /\ Active(b.source))
                /\ dev' = [a \in Addrs |->
                     [dev[a] EXCEPT
                        !.bsource = IF Active(b.sink) /\ a = Obj(b.sink)
                                    THEN @ \ {id} ELSE @,
                        !.bsink = IF Active(b.source) /\ a = Obj(b.source)
                                  THEN @ \ {id} ELSE @]]
                /\ reg' = [reg EXCEPT ![id] = None]
                /\ ret' = OK
                /\ UNCHANGED <<leaked, uaf, fault>>

(***************************************************************************)
(* ipc_pipeline_free(), on the pipeline's core: pipeline_free() may      *)
(* refuse, otherwise the entry is removed.  Components keep their        *)
(* pointer to the freed pipeline.                                          *)
(***************************************************************************)
IpcPipelineFree(id) ==
    /\ fault = {}
    /\ \/ Is(id, "none") /\ Reject("ENODEV")
       \/ (Is(id, "comp") \/ Is(id, "buffer")) /\ Fault("type_confusion")
       \/ Is(id, "pipeline") /\ Reject("EINVAL")       \* pipeline_free() < 0
       \/ /\ Is(id, "pipeline")
          /\ reg' = [reg EXCEPT ![id] = None]
          /\ ret' = OK
          /\ UNCHANGED <<dev, leaked, uaf, fault>>

-----------------------------------------------------------------------------
(***************************************************************************)
(* The environment.  Pipeline triggers, outside src/, move a component    *)
(* between COMP_STATE_READY and the active states.  After an exception    *)
(* the host reloads the firmware, which starts from an empty topology.   *)
(***************************************************************************)
Trigger(a) ==
    /\ fault = {}
    /\ dev[a].alloc
    /\ dev' = [dev EXCEPT ![a].state = IF @ = "ready" THEN "active" ELSE "ready"]
    /\ UNCHANGED <<reg, ret, leaked, uaf, fault>>

Reload ==
    /\ fault # {}
    /\ reg' = [i \in Ids |-> None]
    /\ dev' = [a \in Addrs |-> NoDev]
    /\ ret' = OK
    /\ fault' = {}
    /\ UNCHANGED <<leaked, uaf>>

Next ==
    \/ \E id \in Ids :
          \/ Kind[id] = "comp" /\ IpcCompNew(id, CoreOf[id], PplOf[id])
          \/ Kind[id] = "buffer" /\ IpcBufferNew(id, CoreOf[id], PplOf[id])
          \/ Kind[id] = "pipeline"
             /\ \E s \in SchedOf[id] : IpcPipelineNew(id, PplOf[id], s, CoreOf[id])
    \/ \E s, k \in Ids : IpcCompConnect(s, k)
    \/ \E id \in Ids :
          \/ IpcPipelineComplete(id)
          \/ IpcCompFree(id)
          \/ IpcBufferFree(id)
          \/ IpcPipelineFree(id)
    \/ \E a \in Addrs : Trigger(a)
    \/ Reload

Spec == Init /\ [][Next]_vars

-----------------------------------------------------------------------------
Entry ==
    {None}
    \cup [type : {"comp"}, core : Cores, cd : Ptrs \cup {NULL}]
    \cup [type : {"buffer"}, core : Cores, ppl : PplIds,
          source : Ptrs \cup {NULL}, sink : Ptrs \cup {NULL},
          inter_core : BOOLEAN]
    \cup [type : {"pipeline"}, core : Cores, ppl : PplIds, sched : Ids,
          source_comp : Ptrs \cup {NULL}, sink_comp : Ptrs \cup {NULL},
          sched_comp : Ptrs \cup {NULL}, complete : BOOLEAN]

Dev ==
    {NoDev}
    \cup [alloc : {TRUE}, id : Ids, core : Cores, ppl : PplIds,
          state : {"ready", "active"}, shared : BOOLEAN,
          pipeline : Ids \cup {NULL}, bsource : SUBSET Ids, bsink : SUBSET Ids]

TypeOK ==
    /\ reg \in [Ids -> Entry]
    /\ dev \in [Addrs -> Dev]
    /\ ret \in {OK} \cup Errors
    /\ leaked \in BOOLEAN
    /\ uaf \in BOOLEAN
    /\ fault \subseteq {"null_cd", "type_confusion"}

\* Buffer b and the device at a are connected: each side points at the other.
Edge(b, a) ==
    \/ reg[b].source # NULL /\ Obj(reg[b].source) = a /\ b \in dev[a].bsink
    \/ reg[b].sink # NULL /\ Obj(reg[b].sink) = a /\ b \in dev[a].bsource

(***************************************************************************)
(* Every edge between a buffer and a component of another core, however  *)
(* it was made (either connect direction, in any order, the component    *)
(* already shared or not), has the buffer marked inter_core and the      *)
(* component in shared form: the buffer and component code rely on these *)
(* flags to do the cache maintenance a cross-core edge needs.            *)
(***************************************************************************)
CrossCoreEdgesMarked ==
    \A b \in Buffers, a \in Addrs :
        Edge(b, a) /\ dev[a].core # reg[b].core
            => reg[b].inter_core /\ dev[a].shared

(***************************************************************************)
(* A pipeline's source_comp, sink_comp and sched_comp never point at a    *)
(* freed device (spec.md 3: pipeline references to components are        *)
(* cleared when the referenced component is freed, never left dangling). *)
(* ipc_comp_free() clears them only through the device's pipeline        *)
(* pointer, which pipeline_complete() sets on the components its walk    *)
(* reaches, and only where they equal icd->cd in the same form.          *)
(***************************************************************************)
PipelineRefsLive ==
    \A p \in Pipelines :
        \A q \in {reg[p].source_comp, reg[p].sink_comp, reg[p].sched_comp} \ {NULL} :
            D(q).alloc

(***************************************************************************)
(* A buffer's source and sink pointers, whenever they name a live device, *)
(* name a device connected to the buffer.  ipc_buffer_free() finds the    *)
(* buffer's ends by comparing these pointers with the cd of every live    *)
(* component and disconnects the active ones: a component freed while    *)
(* connected, whose address a later comp_new() reuses, would make the     *)
(* scan treat an unrelated component as the buffer's end (ABA).           *)
(***************************************************************************)
BufferEndsConnected ==
    \A b \in Buffers :
        /\ reg[b].source # NULL /\ D(reg[b].source).alloc
              => b \in D(reg[b].source).bsink
        /\ reg[b].sink # NULL /\ D(reg[b].sink).alloc
              => b \in D(reg[b].sink).bsource

(***************************************************************************)
(* No handler dereferences a NULL comp_dev: every component entry keeps   *)
(* a device, even after a connect whose comp_make_shared() failed.        *)
(***************************************************************************)
NoNullDeviceDeref == "null_cd" \notin fault

(***************************************************************************)
(* No handler treats the ipc_comp_dev of one COMP_TYPE_* as another: a    *)
(* free or complete naming the id of an entry of another kind is refused *)
(* (spec.md 4.5: free_component/free_buffer/free_pipeline of an id that  *)
(* is not such an entity fails).                                          *)
(***************************************************************************)
NoTypeConfusion == "type_confusion" \notin fault

(***************************************************************************)
(* A failed ipc_pipeline_new() releases the pipeline it allocated         *)
(* (spec.md 4.3: if either configuration step fails the partially built  *)
(* pipeline's resources must be released).                                *)
(***************************************************************************)
NoPipelineLeak == ~leaked

(***************************************************************************)
(* ipc_comp_free() never writes through the device's pipeline pointer     *)
(* after that pipeline was freed by ipc_pipeline_free().                  *)
(***************************************************************************)
NoUseAfterFree == ~uaf
=============================================================================
