--------------------------- MODULE OutputDownloads ---------------------------
(***************************************************************************)
(* OutputDownloader and InputDownloader: the constructor reads the groups  *)
(* of files of a job at some moment of the job's life, and the user sends  *)
(* them where they are to go.  What the job does afterwards the object     *)
(* never sees, so the job's steps end where the object's begin.            *)
(***************************************************************************)
EXTENDS JobOutputs, RootMapping

CONSTANT InputGroups   \* what the input manifests of the job may list

ASSUME OutputDownloadsAssumption ==
  /\ Roots \subseteq JobRoots /\ Paths \subseteq Names
  /\ \A F \in InputGroups : \A x \in F : x.root \in JobRoots /\ x.path \in Names

vars == <<outputVars, mappingVars>>

TypeOK == OutputsTypeOK /\ MappingTypeOK

Init == OutputsInit /\ MappingInit

(* The order in which the roots come into the dictionary is that in which  *)
(* the manifests were listed.                                              *)
Orders(S) ==
  {roots \in [1..Cardinality(S) -> S] :
     \A i, j \in DOMAIN roots : roots[i] = roots[j] => i = j}

Open(files) ==
  /\ files # {}
  /\ \E roots \in Orders({x.root : x \in files}) : Construct(files, roots)
  /\ UNCHANGED outputVars

(* One version of every path, the newest one.                              *)
SamePath(x, y) == x.root = y.root /\ x.path = y.path
Merges(ms) ==
  {files \in SUBSET Versions(ms) :
     /\ \A v \in Versions(ms) : \E x \in files : SamePath(x, v)
     /\ \A x, y \in files : SamePath(x, y) => x = y}

OpenInputs == \E files \in InputGroups : Open(files)
OpenJob == \E files \in Merges(Selected(bucket)) : Open(files)
OpenStep(s) == \E files \in Merges(Selected(InStep(s))) : Open(files)
OpenTask(t) == \E files \in Merges(Selected(InTask(t))) : Open(files)
OpenAction(u, a) == Open(Listed(ByAction(u, a)))

Next ==
  \/ ~Opened /\ OutputsNext /\ UNCHANGED mappingVars
  \/ ~Opened /\ (OpenInputs \/ OpenJob)
  \/ ~Opened /\ \E u \in Units : OpenStep(StepOf[u]) \/ OpenTask(u)
  \/ ~Opened /\ \E a \in Actions : OpenAction(UnitOf[a], a)
  \/ MappingNext /\ UNCHANGED outputVars

Spec == Init /\ [][Next]_vars
=============================================================================
