-------------------------- MODULE MCScheduleDomain --------------------------
(***************************************************************************)
(* Model-checking instance of ScheduleDomain: two cores, each with up to  *)
(* two tasks, so that a core's last-task and not-last-task unregisters    *)
(* both happen while the other core runs its own steps.  Ticks are scaled *)
(* to 0..3 with 3 standing for UINT64_MAX.                                 *)
(***************************************************************************)
EXTENDS ScheduleDomain

MC_Cores == {0, 1}
MC_Starts == {0, 2}
====
