\* Freeing a component must clear every pipeline reference to it: sched_comp, source_comp and sink_comp.
CONSTANTS
    Cores <- MC_Cores
    Ids <- MC_Ids
    PplIds <- MC_PplIds
    Kind <- MC_Kind
    CoreOf <- MC_CoreOf
    PplOf <- MC_PplOf
    SchedOf <- MC_SchedOf
    Addrs = {a1, a2}
    NULL = NULL
    PromoteMayFail = FALSE
    SharedAlias = TRUE
SPECIFICATION Spec
SYMMETRY MC_Symmetry
INVARIANT PipelineRefsLive
