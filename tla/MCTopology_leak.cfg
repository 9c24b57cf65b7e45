\* pipeline_schedule_config() or pipeline_xrun_set_limit() fails in ipc_pipeline_new().
CONSTANTS
    Cores <- MC_Cores
    Ids <- MC_Ids
    PplIds <- MC_PplIds
    Kind <- MC_Kind
    CoreOf <- MC_CoreOf
    PplOf <- MC_PplOf
    SchedOf <- MC_SchedOf
    Addrs = {a1, a2}
    NULL = NULL
    PromoteMayFail = FALSE
    SharedAlias = TRUE
SPECIFICATION Spec
SYMMETRY MC_Symmetry
INVARIANT NoPipelineLeak
