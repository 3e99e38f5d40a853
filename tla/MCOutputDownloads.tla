-------------------------- MODULE MCOutputDownloads --------------------------
(***************************************************************************)
(* Small instances of OutputDownloads: two attempts of a task and a chunk, *)
(* in a job with two roots with outputs, root 1 lying in root 2: f of root *)
(* 1 and g of root 2 are the same file.  The attempts a1 and a12 are made  *)
(* in two sessions, or as actions 1 and 12 of one.                         *)
(***************************************************************************)
EXTENDS OutputDownloads

CONSTANTS a1, a12, a2, t, c, f, g, n1

MCUnitOf == [a \in Actions |-> IF a = a2 THEN c ELSE t]
MCStepOf == [u \in {t, c} |-> u]
MCSessionsApart == [a \in Actions |-> {a}]
MCOneSession == [a \in Actions |-> IF a = a1 THEN {a1, a12} ELSE {a}]
MCOutputSets ==
  [a \in Actions |-> [r \in Roots |->
     IF a = a2 /\ r = 1 THEN {{f}} ELSE {{}, {IF r = 1 THEN f ELSE g}}]]
MCSkews == [a \in Actions |-> IF a = a2 THEN {0} ELSE {0, 1}]
MCPlaceOf ==
  [r \in Roots |-> [p \in Paths |-> IF <<r, p>> \in {<<1, f>>, <<2, g>>} THEN "x" ELSE Unmapped]]
MCPrefixOf == [r \in JobRoots |-> r]

(* The patterns "1/*f" and "n1/*f": g is f in a directory.                 *)
MCFilterGroups == {{<<1, f>>, <<1, g>>, <<2, g>>, <<n1, f>>, <<n1, g>>}}
MCLocalDirs == {1, 2, n1}

Input(r, p) == [root |-> r, path |-> p, version |-> n1]
MCInputGroups ==
  {{Input(1, f), Input(2, f), Input(3, f)},
   {Input(1, f), Input(1, g), Input(3, f), Input(3, g)}}

(* Once an object is there, its steps and properties do not look at the    *)
(* job, which does not change any more: states that differ in it are one.  *)
View == IF Opened THEN <<mappingVars>> ELSE <<outputVars, mappingVars>>
=============================================================================
