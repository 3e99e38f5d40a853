---------------------------- MODULE MCWorkstation ----------------------------
(* An instance of Workstation for TLC.                                     *)
EXTENDS Workstation, TLC

(* hashing: two tasks that process the same file *)
CONSTANTS t1, t2, h1, m1, m2, m3, c1, c2

MCFileOf == (t1 :> h1) @@ (t2 :> h1)

(* grouping: the location l with a location lm in it, the shared location  *)
(* s, a link h to the file lf in lm; on another drive a file u and a link  *)
(* hd, to lf too                                                           *)
CONSTANTS r, l, lm, lf, lg, s, sx, h, d, u, hd

MCAbove == (r :> {r}) @@ (l :> {l, r}) @@ (lm :> {lm, l, r}) @@ (lf :> {lf, lm, l, r})
           @@ (lg :> {lg, l, r}) @@ (s :> {s, r}) @@ (sx :> {sx, s, r})
           @@ (h :> {h, r}) @@ (d :> {d}) @@ (u :> {u, d}) @@ (hd :> {hd, d})
MCReal == [p \in GPaths |-> IF p \in {h, hd} THEN lf ELSE p]
MCLength == [p \in GPaths |-> Cardinality(MCAbove[p])]
MCGDisks == {[p \in GPaths |-> IF p \in {r, l, lm, s, d} THEN "dir"
                               ELSE IF p \in S THEN "none" ELSE "file"] : S \in {{}, {lg}}}

Asking(inputs, outputs, references, profile, strct) ==
  [inputs |-> inputs, outputs |-> outputs, references |-> references,
   profile |-> profile, strict |-> strct]
MCGRequests ==
  {Asking({lf, lg}, {lm}, {}, TRUE, FALSE), Asking({h, u}, {}, {lg}, TRUE, FALSE),
   Asking({lg, sx}, {l}, {}, TRUE, TRUE), Asking({lf, u}, {lm}, {}, FALSE, FALSE),
   Asking({hd}, {lm}, {}, TRUE, FALSE)}

(* progress: three files of one asset root, one of another *)
CONSTANTS p1, p2, p3, p4

MCBatchOf == (p1 :> 1) @@ (p2 :> 1) @@ (p3 :> 1) @@ (p4 :> 2)

(* snapshots: two files, contents of one size and of another *)
CONSTANTS f1, f2, b1, b2, bb

MCSize == (b1 :> 1) @@ (b2 :> 1) @@ (bb :> 2)
MCVersion == [content |-> b1, mtime |-> 2]
MCSDisks == {(f1 :> MCVersion) @@ (f2 :> MCVersion)}

(* path mapping: a location in a location, names that occur twice, parts   *)
(* that differ in case                                                     *)
CONSTANTS top, x, X, y, n1, n2, n3, to1, to2, to3

MCLower == [p \in {top, x, X, y} |-> IF p = X THEN x ELSE p]
At(name, where) == [name |-> name, path |-> where]
MCMPaths == {<<top>>, <<top, x, y>>, <<top, X, X>>, <<y>>}
MCSources ==
  {<<At(n1, <<top, x>>), At(n2, <<top, x, y>>), At(n3, <<top>>)>>,
   <<At(n2, <<top, X, x>>), At(n1, <<top, X>>), At(n2, <<top, x>>)>>,
   <<At(n1, <<y>>), At(n3, <<>>)>>}
MCTargets ==
  {<<At(n1, to1), At(n2, to2)>>, <<At(n2, to2), At(n3, to3), At(n2, to1)>>, <<>>}

(* the state file: two runs, one job with one session *)
CONSTANTS w1, w2, j1, s1
=============================================================================
