--------------------------- MODULE MCSessionSync ---------------------------
(* Instances of SessionSync for TLC: an input i in the output directory of *)
(* the first root, its copy, and outputs o1 and o2 in one root each.       *)
EXTENDS SessionSync, TLC

CONSTANTS i, i_1, o1, o2, r1, r2, c1, c2

MCOutputsOf == (r1 :> {i, i_1, o1}) @@ (r2 :> {o2})
MCInputs == (i :> c1)
MCDeps == (i :> c2)
MCCopyOf == (i :> i_1)

(* one root with one output *)
MCOneOutputsOf == (r1 :> {i, i_1, o1})

(* one root where only the input and its copy change *)
MCInputOutputsOf == (r1 :> {i, i_1})
=============================================================================
