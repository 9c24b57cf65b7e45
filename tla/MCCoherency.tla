----------------------------- MODULE MCCoherency ----------------------------
(***************************************************************************)
(* Model-checking instance of Coherency: the buffer on core 0, component *)
(* y on core 0 (same-core edges) and x1, x2 on core 1 (cross-core edges), *)
(* so that a core-1 connect and a core-0 connect of the same buffer can  *)
(* follow each other in any order, with evictions anywhere in between.   *)
(***************************************************************************)
EXTENDS Coherency, TLC

CONSTANTS y, x1, x2

MC_Cores == {0, 1}
MC_Comps == {y, x1, x2}
MC_CompCore == (y :> 0 @@ x1 :> 1 @@ x2 :> 1)
\* Every component on core 1: all edges cross cores.
MC_CompCoreRemote == [x \in MC_Comps |-> 1]
====
