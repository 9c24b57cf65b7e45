----------------------------- MODULE Coherency ------------------------------
(***************************************************************************)
(* The cache maintenance around one struct comp_buffer in                 *)
(* src/ipc/ipc3/helper.c: buffer_new() and the two connect helpers.       *)
(*                                                                         *)
(* The cores' data caches are not coherent.  The buffer object lives in  *)
(* memory `mem`; cache[c] is core c's line holding it (Invalid, or a copy *)
(* that is dirty when core c wrote it and did not write it back).  A      *)
(* core reads its line if valid and memory otherwise, and writes into its *)
(* line.  dcache_invalidate_region() drops the line, dirty data           *)
(* included; dcache_writeback_invalidate_region() writes a dirty line     *)
(* back and drops it.  The hardware may evict a line at any time, writing *)
(* it back if dirty.                                                       *)
(*                                                                         *)
(* `logical` is the buffer as a sequentially consistent memory would hold *)
(* it after the same handlers: what every core is meant to read.  Topology *)
(* IPCs are processed one at a time, each on its component's core.        *)
(***************************************************************************)
EXTENDS FiniteSets

CONSTANTS
    Cores,          \* CONFIG_CORE_COUNT core ids
    BufCore,        \* desc->comp.core of the buffer
    Comps,          \* components that get connected to the buffer
    CompCore,       \* CompCore[x]: icd->core of component x
    NULL,
    ReadCores,      \* cores where other code reads the buffer
    PromoteMayFail  \* comp_make_shared() can fail

ASSUME BufCore \in Cores /\ CompCore \in [Comps -> Cores]
ASSUME NULL \notin Comps /\ PromoteMayFail \in BOOLEAN
ASSUME ReadCores \subseteq Cores

VARIABLES
    mem,        \* the buffer object in memory
    cache,      \* cache[c]: core c's cache line of the buffer object
    logical,    \* the buffer under sequentially consistent memory
    created,    \* buffer_new() has run
    shared,     \* shared[x]: comp->cd->is_shared
    lost        \* components whose icd->cd was set to NULL

vars == <<mem, cache, logical, created, shared, lost>>

Buf == [source : Comps \cup {NULL}, sink : Comps \cup {NULL}, inter_core : BOOLEAN]
Invalid == [valid |-> FALSE]
Line(v, d) == [valid |-> TRUE, val |-> v, dirty |-> d]

\* The fields buffer_new() fills in: no ends, not shared between cores.
NewBuf == [source |-> NULL, sink |-> NULL, inter_core |-> FALSE]

\* What core c reads: its line if it holds one, memory otherwise.
View(c) == IF cache[c].valid THEN cache[c].val ELSE mem

\* buffer_alloc() returns memory holding anything.
Init ==
    /\ mem \in Buf
    /\ cache = [c \in Cores |-> Invalid]
    /\ logical = mem
    /\ created = FALSE
    /\ shared = [x \in Comps |-> FALSE]
    /\ lost = {}

(***************************************************************************)
(* buffer_new() on the IPC core: buffer_alloc(), the fields written       *)
(* through the cache, then dcache_writeback_invalidate_region() so that   *)
(* other cores see the initialised object.                                *)
(***************************************************************************)
\* mutant: the final writeback of buffer_new() is missing
BufferNewNoWriteback ==
    /\ ~created
    /\ cache' = [cache EXCEPT ![BufCore] = Line(NewBuf, TRUE)]
    /\ logical' = NewBuf
    /\ created' = TRUE
    /\ UNCHANGED <<mem, shared, lost>>

BufferNew ==
    /\ ~created
    /\ mem' = NewBuf
    /\ cache' = [cache EXCEPT ![BufCore] = Invalid]
    /\ logical' = NewBuf
    /\ created' = TRUE
    /\ UNCHANGED <<shared, lost>>

(***************************************************************************)
(* ipc_comp_to_buffer_connect() (dir = "source") and                       *)
(* ipc_buffer_to_comp_connect() (dir = "sink"), on the component's core c. *)
(* Across cores the line is invalidated first and inter_core set; if the  *)
(* component is not shared yet comp_make_shared() runs and may fail, and  *)
(* then the handler returns -ENOMEM with the marked line still dirty.     *)
(* Otherwise pipeline_connect() stores the component in the buffer's     *)
(* slot and the line is written back and invalidated.                     *)
(***************************************************************************)
WithEnd(v, x, dir) ==
    IF dir = "source" THEN [v EXCEPT !.source = x] ELSE [v EXCEPT !.sink = x]

Mark(v, cross) == IF cross THEN [v EXCEPT !.inter_core = TRUE] ELSE v

\* mutant: the cross-core path writes without invalidating its line first
ConnectNoInvalidate(x, dir) ==
    LET c == CompCore[x]
        cross == c # BufCore
        marked == Mark(View(c), cross)
    IN
    /\ created /\ x \notin lost
    /\ mem' = WithEnd(marked, x, dir)
    /\ cache' = [cache EXCEPT ![c] = Invalid]
    /\ logical' = WithEnd(Mark(logical, cross), x, dir)
    /\ shared' = IF cross THEN [shared EXCEPT ![x] = TRUE] ELSE shared
    /\ UNCHANGED <<created, lost>>

Connect(x, dir) ==
    LET c == CompCore[x]
        cross == c # BufCore
        seen == IF cross THEN mem ELSE View(c)   \* invalidated across cores
        marked == Mark(seen, cross)
    IN
    /\ created /\ x \notin lost
    /\ \/ /\ cross /\ ~shared[x] /\ PromoteMayFail     \* -ENOMEM
          /\ cache' = [cache EXCEPT ![c] = Line(marked, TRUE)]
          /\ logical' = Mark(logical, TRUE)
          /\ lost' = lost \cup {x}
          /\ UNCHANGED <<mem, shared>>
       \/ /\ mem' = WithEnd(marked, x, dir)
          /\ cache' = [cache EXCEPT ![c] = Invalid]
          /\ logical' = WithEnd(Mark(logical, cross), x, dir)
          /\ shared' = IF cross THEN [shared EXCEPT ![x] = TRUE] ELSE shared
          /\ UNCHANGED lost
    /\ UNCHANGED created

(***************************************************************************)
(* Code on core c other than these handlers (the component's data path,  *)
(* the endpoint searches of ipc_pipeline_complete()) reads the buffer.    *)
(* A buffer not yet marked inter_core is read without invalidating first, *)
(* so the line is filled from memory and kept.                            *)
(***************************************************************************)
Read(c) ==
    /\ created /\ c \in ReadCores
    /\ ~cache[c].valid
    /\ cache' = [cache EXCEPT ![c] = Line(mem, FALSE)]
    /\ UNCHANGED <<mem, logical, created, shared, lost>>

\* The hardware evicts core c's line, writing it back if dirty.
Evict(c) ==
    /\ cache[c].valid
    /\ mem' = IF cache[c].dirty THEN cache[c].val ELSE mem
    /\ cache' = [cache EXCEPT ![c] = Invalid]
    /\ UNCHANGED <<logical, created, shared, lost>>

Next ==
    \/ BufferNew
    \/ \E x \in Comps, dir \in {"source", "sink"} : Connect(x, dir)
    \/ \E c \in Cores : Read(c) \/ Evict(c)

Spec == Init /\ [][Next]_vars

-----------------------------------------------------------------------------
TypeOK ==
    /\ mem \in Buf
    /\ cache \in [Cores -> {Invalid} \cup [valid : {TRUE}, val : Buf,
                                           dirty : BOOLEAN]]
    /\ logical \in Buf
    /\ created \in BOOLEAN
    /\ shared \in [Comps -> BOOLEAN]
    /\ lost \subseteq Comps

Dirty(c) == cache[c].valid /\ cache[c].dirty

(***************************************************************************)
(* No write to the buffer is lost: once buffer_new() has returned, the    *)
(* dirty lines, or memory when no core holds one, contain every change    *)
(* the connects made on any core.  A connect that writes back a copy read *)
(* before another core's change, or a line left dirty and evicted over a  *)
(* later change, drops an end or the inter_core mark (spec.md 4.6).       *)
(***************************************************************************)
NoLostUpdate ==
    created =>
        IF \E c \in Cores : Dirty(c)
        THEN \A c \in Cores : Dirty(c) => cache[c].val = logical
        ELSE mem = logical
=============================================================================
