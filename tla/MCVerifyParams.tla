--------------------------- MODULE MCVerifyParams ---------------------------
(***************************************************************************)
(* Model-checking instance of VerifyParams: three buffers with two values *)
(* per field, laid out as a component with one source and two sinks, two *)
(* sources and one sink, and the two kinds of endpoint.                   *)
(***************************************************************************)
EXTENDS VerifyParams

CONSTANTS b1, b2, b3

MC_Bufs == {b1, b2, b3}
MC_Layouts == {<< <<b1>>, <<b2, b3>> >>, << <<b1, b2>>, <<b3>> >>,
               << <<>>, <<b1, b2>> >>, << <<b1>>, <<>> >>}
\* Callers pass all-zero, all-one, and one-rate-only parameters.
MC_Args == {[f \in Fields |-> 0], [f \in Fields |-> 1],
            [f \in Fields |-> IF f = "rate" THEN 1 ELSE 0]}
\* The same layouts and a component with no buffer at all.
MC_LayoutsUnconnected == MC_Layouts \cup {<< <<>>, <<>> >>}
====
