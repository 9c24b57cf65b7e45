----------------------------- MODULE MCTopology -----------------------------
(***************************************************************************)
(* Model-checking instance of Topology.  The topology: pipeline 4 on core *)
(* 0 scheduled by component 1 (core 0), feeding buffer 3 (core 0) into    *)
(* component 2 on core 1, so that the 3 -> 2 edge crosses cores.  Two     *)
(* device addresses let a freed component's address be reused.           *)
(***************************************************************************)
EXTENDS Topology, TLC

MC_Cores == {0, 1}
MC_Ids == {1, 2, 3, 4}
MC_PplIds == {1}
MC_Kind == (1 :> "comp" @@ 2 :> "comp" @@ 3 :> "buffer" @@ 4 :> "pipeline")
MC_CoreOf == (1 :> 0 @@ 2 :> 1 @@ 3 :> 0 @@ 4 :> 0)
MC_PplOf == [i \in MC_Ids |-> 1]
MC_SchedOf == [i \in MC_Ids |-> {1, 2}]

\* Heap addresses are interchangeable.
MC_Symmetry == Permutations(Addrs)
====
