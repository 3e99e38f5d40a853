------------------------------ MODULE MCDownload ------------------------------
(***************************************************************************)
(* Small instances of Download: e1 and e2, of two manifests, belong at f,  *)
(* and e3 belongs at the path that a first copy of f would take.           *)
(***************************************************************************)
EXTENDS Download

CONSTANTS e1, e2, e3

MCPaths == {"f", "f (1)"} \X (0..MaxCopies)
MCPathOf == [e \in Entries |-> IF e = e3 THEN <<"f", 1>> ELSE <<"f", 0>>]
MCCopyPath ==
  [p \in Originals |-> [n \in 1..MaxCopies |-> <<IF p = <<"f", 0>> THEN "f" ELSE "f (1)", n>>]]
MCUserPaths == {<<"f", 0>>, <<"f", 1>>}
=============================================================================
