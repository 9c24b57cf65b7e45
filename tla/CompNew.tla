------------------------------- MODULE CompNew -------------------------------
(***************************************************************************)
(* comp_new() of src/ipc/ipc3/helper.c: get_drv() finds the driver, the   *)
(* common config is size-checked, comp_common_builder() and               *)
(* comp_specific_builder() fill two stack records, and the driver's       *)
(* create() is handed both.                                                *)
(*                                                                         *)
(* The builders copy fields; the model keeps where each value a driver    *)
(* receives comes from: "desc" (copied from the descriptor), "zero" (left *)
(* by memset) or "garbage" (the uninitialised stack).  The union          *)
(* ipc_config_specific is abstracted to the member written and what the   *)
(* rest of it holds.                                                       *)
(***************************************************************************)
EXTENDS GetDrv

CONSTANTS
    KindOf,     \* KindOf[t]: the group of SOF_COMP_* type t in the switch
    Library     \* CONFIG_LIBRARY: the test bench build

Kinds == {"host", "dai", "volume", "src", "tone", "asrc", "process",
          "buffer", "other"}

ASSUME KindOf \in [Types -> Kinds] /\ Library \in BOOLEAN

CommonFields == {"core", "id", "pipeline_id", "type"}
CfgFields == {"frame_fmt", "periods_sink", "periods_source", "xrun_action"}
Prov == {"desc", "zero", "garbage"}

VARIABLES
    handed,     \* what the last create() call received, NULL if none ran
    cdev        \* comp_new()'s return: "dev" or NULL

cnvars == <<msg, drv, ext_at, handed, cdev>>

\* The union member comp_specific_builder() writes for type t ("none": default).
Member(t) ==
    IF KindOf[t] \in {"host", "dai"} /\ Library THEN "file"
    ELSE IF KindOf[t] \in {"buffer", "other"} THEN "none"
    ELSE KindOf[t]

\* comp_common_builder(): memset, then the ids, then the sof_ipc_comp_config
\* fields unless the descriptor is a buffer.
CommonBuilder(m) ==
    [f \in CommonFields \cup CfgFields |->
        IF f \in CommonFields \/ KindOf[m.type] # "buffer" THEN "desc" ELSE "zero"]

\* comp_specific_builder(): memset, then the member selected by comp->type.
SpecificBuilder(m) == [written |-> Member(m.type), rest |-> "zero"]

\* No comp_new() has run yet.
CNInit ==
    /\ Init
    /\ handed = NULL
    /\ cdev = NULL

(***************************************************************************)
(* comp_new(comp): NULL when no driver is found or the config header's   *)
(* size is invalid; otherwise both builders run and create() is called,  *)
(* which may fail.                                                         *)
(***************************************************************************)
CompNewStep(m) ==
    /\ GetDrv(m)
    /\ \/ /\ GetDrvOf(m)[1] = 0
          /\ handed' = NULL /\ cdev' = NULL
       \/ /\ GetDrvOf(m)[1] # 0                     \* IPC_IS_SIZE_INVALID
          /\ handed' = NULL /\ cdev' = NULL
       \/ /\ GetDrvOf(m)[1] # 0
          /\ handed' = [drv |-> GetDrvOf(m)[1], config |-> CommonBuilder(m),
                        spec |-> SpecificBuilder(m)]
          /\ cdev' \in {"dev", NULL}

CNNext == \E m \in Msgs : CompNewStep(m)

CNSpec == CNInit /\ [][CNNext]_cnvars

-----------------------------------------------------------------------------
\* What the driver reads from the union: the member of its own type.
DriverRead(h) ==
    LET w == Member(Drivers[h.drv].type) IN
    IF w = "none" THEN "none"
    ELSE IF w = h.spec.written THEN "desc"
    ELSE IF h.spec.written = "none" THEN h.spec.rest
    ELSE "alias"

(***************************************************************************)
(* The driver create() belongs to reads the union member that was        *)
(* written for it.  get_drv() may pick the driver by UUID, while          *)
(* comp_specific_builder() selects the member by comp->type.              *)
(***************************************************************************)
VariantMatches == handed # NULL => DriverRead(handed) \in {"desc", "none"}
=============================================================================
