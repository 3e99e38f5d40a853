----------------------------- MODULE AssetGroups -----------------------------
(***************************************************************************)
(* S3AssetManager.prepare_paths_for_upload: the paths of a submission are  *)
(* sorted into groups, one for every file system location of type LOCAL    *)
(* and one for every top directory, and every group gets the root path     *)
(* that the worker will map to a directory of the session.  What is on     *)
(* disk is asked through a cache of stat results that lives as long as the *)
(* manager, while other programs create and remove files.                  *)
(* A path is a node of a tree: Above[p] is p with the directories above    *)
(* it, Real[p] is where p leads when symbolic links are followed, and      *)
(* Length[l] is the length of the text of l.  Upper and lower case, which  *)
(* differ on POSIX only, are not told apart.                               *)
(***************************************************************************)
EXTENDS Naturals, FiniteSets

CONSTANTS
  GPaths, Above, Real, Length,
  Local, Shared,   \* the locations of the storage profile
  GDisks,          \* what may be on disk at first
  GRows,           \* rows of the stat cache (lru_cache maxsize)
  GRequests,       \* the requests a caller may make
  GCalls, GChanges \* bounds: calls with one manager, changes of the disk

ASSUME TreeAssumption ==
  /\ IsFiniteSet(GPaths) /\ GPaths # {}
  /\ Above \in [GPaths -> SUBSET GPaths]
  /\ \A p \in GPaths : p \in Above[p]
  /\ \A p \in GPaths : \A q \in Above[p] : Above[q] \subseteq Above[p]
  /\ \A p, q \in GPaths : q \in Above[p] /\ p \in Above[q] => p = q
  /\ \A p \in GPaths : \A q, r \in Above[p] : q \in Above[r] \/ r \in Above[q]
  /\ Real \in [GPaths -> GPaths] /\ \A p \in GPaths : Real[Real[p]] = Real[p]
  /\ Length \in [GPaths -> Nat]
  /\ \A p \in GPaths : \A q \in Above[p] \ {p} : Length[q] < Length[p]

(* A path exists in a directory only; locations are directories, and the   *)
(* links that are looked at lead to files.                                 *)
Kinds == {"none", "file", "dir"}

ASSUME DiskAssumption ==
  /\ GDisks # {} /\ GDisks \subseteq [GPaths -> Kinds]
  /\ \A d \in GDisks :
       /\ \A p \in GPaths : d[p] # "none" => \A q \in Above[p] \ {p} : d[q] = "dir"
       /\ \A l \in Local : d[Real[l]] = "dir"
       /\ \A p \in GPaths : Real[p] # p => d[p] = "file"

ASSUME GroupsAssumption ==
  /\ Local \subseteq GPaths /\ Shared \subseteq GPaths
  /\ GRows \in Nat \ {0} /\ GCalls \in Nat /\ GChanges \in Nat
  /\ GRequests \subseteq [inputs : SUBSET GPaths, outputs : SUBSET GPaths,
                          references : SUBSET GPaths, profile : BOOLEAN, strict : BOOLEAN]

VARIABLES
  kind,     \* what is on disk at every path, and
  kinds,    \* history: what was there since the manager was made, and
  recent,   \* since the current call began
  stat,     \* _FileStatCache: the results lru_cache keeps
  gphase,   \* the loop prepare_paths_for_upload is in
  request,  \* the arguments of the call
  todo,     \* the paths the loop has not come to yet
  refs,     \* referenced_paths, to which missing inputs are added
  bad,      \* missing_input_paths and misconfigured_directories
  groups,   \* groupings; an empty group is one that does not exist
  roots,    \* root_path of every group
  unsized,  \* inputs whose size get_size took for 0
  gcalls, gchanges

diskVarsG == <<kind, kinds, recent, gchanges>>
callVars == <<request, refs, bad, groups, roots, unsized, gcalls>>
groupVars == <<diskVarsG, stat, gphase, todo, callVars>>

GroupParts == {"inputs", "outputs", "references"}
NoMembers == [part \in GroupParts |-> {}]
NoRequest == [inputs |-> {}, outputs |-> {}, references |-> {}, profile |-> FALSE, strict |-> FALSE]

GroupsTypeOK ==
  /\ kind \in [GPaths -> Kinds]
  /\ kinds \in [GPaths -> SUBSET Kinds] /\ recent \in [GPaths -> SUBSET Kinds]
  /\ stat \in [GPaths -> Kinds \cup {"unknown"}]
  /\ gphase \in {"idle", "inputs", "outputs", "references", "roots", "sizes", "done", "error"}
  /\ request \in GRequests \cup {NoRequest}
  /\ todo \subseteq GPaths /\ refs \subseteq GPaths /\ bad \subseteq GPaths
  /\ groups \in [GPaths -> [GroupParts -> SUBSET GPaths]]
  /\ roots \in [GPaths -> GPaths]
  /\ unsized \subseteq GPaths
  /\ gcalls \in 0..GCalls /\ gchanges \in 0..GChanges

-----------------------------------------------------------------------------
(* The tree *)

Deepest(S) == CHOOSE p \in S : S \subseteq Above[p]
TopDirectory(p) == CHOOSE q \in Above[p] : Above[q] = {q}
Parent(p) == IF Above[p] = {p} THEN p ELSE Deepest(Above[p] \ {p})
CommonParts(S) == {q \in GPaths : \A p \in S : q \in Above[p]}
CommonPath(S) == Deepest(CommonParts(S))

(* _is_relative_to resolves both paths. *)
IsUnder(p, l) == Real[l] \in Above[Real[p]]

LocalNow == IF request.profile THEN Local ELSE {}
SharedNow == IF request.profile THEN Shared ELSE {}
IsShared(p) == \E l \in SharedNow : IsUnder(p, l)

(* _find_matched_root_from_local_type_locations: the longest location the  *)
(* path is under, or its top directory                                     *)
MatchesOf(p) == {l \in LocalNow : IsUnder(p, l)}
LongestMatch(p) == CHOOSE l \in MatchesOf(p) : \A m \in MatchesOf(p) : Length[m] <= Length[l]
ShortestMatch(p) == CHOOSE l \in MatchesOf(p) : \A m \in MatchesOf(p) : Length[m] >= Length[l]
KeyShortest(p) == IF MatchesOf(p) = {} THEN TopDirectory(p) ELSE ShortestMatch(p)
Key(p) == IF MatchesOf(p) = {} THEN TopDirectory(p) ELSE LongestMatch(p)

AddTo(p, part) == groups' = [groups EXCEPT ![Key(p)][part] = @ \cup {p}]

Members(k) == groups[k].inputs \cup groups[k].outputs \cup groups[k].references
GroupKeys == {k \in GPaths : Members(k) # {}}

(* The root is the common path of the members, or the directory of it when *)
(* that is a file, which is asked of the disk and not of the cache.  A     *)
(* link may lead from one drive to a location on another, and its group    *)
(* has no common path.                                                     *)
RootAlwaysParent(k) == Parent(CommonPath(Members(k)))
RootOf(k) == LET c == CommonPath(Members(k))
             IN  IF kind[Real[c]] = "file" THEN Parent(c) ELSE c

-----------------------------------------------------------------------------
(* The stat cache *)

(* exists() and is_dir(): a cached result is believed unless it is None,   *)
(* in which case the disk is asked once more.                              *)
Seen(p) == IF stat[p] \in {"file", "dir"} THEN stat[p] ELSE kind[Real[p]]

(* lru_cache makes room by forgetting another row. *)
Asks(p) ==
  IF stat[p] # "unknown" THEN UNCHANGED stat
  ELSE LET rows == {q \in GPaths : stat[q] # "unknown"}
       IN  IF Cardinality(rows) < GRows
           THEN stat' = [stat EXCEPT ![p] = kind[Real[p]]]
           ELSE \E q \in rows : stat' = [stat EXCEPT ![p] = kind[Real[p]], ![q] = "unknown"]

-----------------------------------------------------------------------------
GroupsInit ==
  /\ kind \in GDisks
  /\ kinds = [p \in GPaths |-> {kind[p]}] /\ recent = [p \in GPaths |-> {kind[p]}]
  /\ stat = [p \in GPaths |-> "unknown"]
  /\ gphase = "idle" /\ request = NoRequest
  /\ todo = {} /\ refs = {} /\ bad = {} /\ unsized = {}
  /\ groups = [k \in GPaths |-> NoMembers] /\ roots = [k \in GPaths |-> k]
  /\ gcalls = 0 /\ gchanges = 0

(* prepare_paths_for_upload is called, again perhaps, on one manager. *)
Prepare ==
  /\ gphase \in {"idle", "done", "error"} /\ gcalls < GCalls
  /\ request' \in GRequests
  /\ gphase' = "inputs" /\ todo' = request'.inputs /\ refs' = request'.references
  /\ bad' = {} /\ unsized' = {}
  /\ groups' = [k \in GPaths |-> NoMembers] /\ roots' = [k \in GPaths |-> k]
  /\ recent' = [p \in GPaths |-> {kind[p]}]
  /\ gcalls' = gcalls + 1
  /\ UNCHANGED <<kind, kinds, gchanges, stat>>

(* the loop over the input paths *)
MissingInput(p) ==
  /\ Seen(p) = "none"
  /\ IF request.strict THEN bad' = bad \cup {p} /\ UNCHANGED refs
                       ELSE refs' = refs \cup {p} /\ UNCHANGED bad
  /\ UNCHANGED groups

DirectoryInput(p) ==
  /\ Seen(p) = "dir"
  /\ bad' = bad \cup {p}
  /\ UNCHANGED <<refs, groups>>

FileInput(p) ==
  /\ Seen(p) = "file"
  /\ IF IsShared(p) THEN UNCHANGED groups ELSE AddTo(p, "inputs")
  /\ UNCHANGED <<refs, bad>>

GroupInput(p) ==
  /\ gphase = "inputs" /\ p \in todo
  /\ todo' = todo \ {p}
  /\ Asks(p)
  /\ MissingInput(p) \/ DirectoryInput(p) \/ FileInput(p)
  /\ UNCHANGED <<diskVarsG, gphase, request, roots, unsized, gcalls>>

InputsDone ==
  /\ gphase = "inputs" /\ todo = {}
  /\ IF bad # {} THEN gphase' = "error" /\ UNCHANGED todo      \* MisconfiguredInputsError
                 ELSE gphase' = "outputs" /\ todo' = request.outputs
  /\ UNCHANGED <<diskVarsG, stat, callVars>>

(* The loops over the output paths and over the references do not look at  *)
(* the disk.                                                               *)
GroupOther(p, part) ==
  /\ gphase = part /\ p \in todo
  /\ todo' = todo \ {p}
  /\ IF IsShared(p) THEN UNCHANGED groups ELSE AddTo(p, part)
  /\ UNCHANGED <<diskVarsG, stat, gphase, request, refs, bad, roots, unsized, gcalls>>

OutputsDone ==
  /\ gphase = "outputs" /\ todo = {}
  /\ gphase' = "references" /\ todo' = refs
  /\ UNCHANGED <<diskVarsG, stat, callVars>>

ReferencesDone ==
  /\ gphase = "references" /\ todo = {}
  /\ gphase' = "roots" /\ todo' = GroupKeys
  /\ UNCHANGED <<diskVarsG, stat, callVars>>

SetRoot(k) ==
  /\ gphase = "roots" /\ k \in todo
  /\ IF CommonParts(Members(k)) = {}
     THEN gphase' = "error" /\ todo' = {} /\ UNCHANGED roots       \* ValueError
     ELSE /\ todo' = todo \ {k} /\ roots' = [roots EXCEPT ![k] = RootOf(k)]
          /\ UNCHANGED gphase
  /\ UNCHANGED <<diskVarsG, stat, request, refs, bad, groups, unsized, gcalls>>

RootsDone ==
  /\ gphase = "roots" /\ todo = {}
  /\ gphase' = "sizes" /\ todo' = UNION {groups[k].inputs : k \in GPaths}
  /\ UNCHANGED <<diskVarsG, stat, callVars>>

(* get_size asks the cache only: a file without a stat result counts as 0. *)
SizeOf(p) ==
  /\ gphase = "sizes" /\ p \in todo
  /\ todo' = todo \ {p}
  /\ Asks(p)
  /\ unsized' = IF stat'[p] = "none" THEN unsized \cup {p} ELSE unsized
  /\ UNCHANGED <<diskVarsG, gphase, request, refs, bad, groups, roots, gcalls>>

SizesDone ==
  /\ gphase = "sizes" /\ todo = {}
  /\ gphase' = "done"
  /\ UNCHANGED <<diskVarsG, stat, todo, callVars>>

-----------------------------------------------------------------------------
(* Other programs create and remove files and directories; the locations   *)
(* themselves stay.                                                        *)
ChangeDisk(p, k) ==
  /\ gchanges < GChanges /\ gchanges' = gchanges + 1
  /\ kind' = [kind EXCEPT ![p] = k]
  /\ kinds' = [kinds EXCEPT ![p] = @ \cup {k}]
  /\ recent' = [recent EXCEPT ![p] = @ \cup {k}]
  /\ UNCHANGED <<stat, gphase, todo, callVars>>

Appear(p) ==
  /\ kind[p] = "none" /\ Real[p] = p /\ \A q \in Above[p] \ {p} : kind[q] = "dir"
  /\ \E k \in {"file", "dir"} : ChangeDisk(p, k)

Vanish(p) ==
  /\ kind[p] # "none" /\ Real[p] = p /\ \A l \in Local : Real[l] # p
  /\ \A q \in GPaths : p \in Above[q] /\ q # p => kind[q] = "none"
  /\ ChangeDisk(p, "none")

PrepareStep ==
  \/ \E p \in GPaths : GroupInput(p) \/ SizeOf(p) \/ SetRoot(p)
  \/ \E p \in GPaths, part \in {"outputs", "references"} : GroupOther(p, part)
  \/ InputsDone \/ OutputsDone \/ ReferencesDone \/ RootsDone \/ SizesDone

GroupsNext ==
  \/ Prepare \/ PrepareStep
  \/ \E p \in GPaths : Appear(p) \/ Vanish(p)

GroupsSpec == GroupsInit /\ [][GroupsNext]_groupVars

-----------------------------------------------------------------------------
(* What a submission relies on when it is given its groups. *)

(* Group k is the one p belongs to: that of the most specific location p   *)
(* is under, or of its top directory when it is under none.  The code      *)
(* compares the texts of the locations, which says nothing of locations    *)
(* that are links; and when a top directory is a location, the links in it *)
(* that lead elsewhere are in its group.                                   *)
BelongsTo(p, k) ==
  \/ /\ k \in LocalNow /\ IsUnder(p, k)
     /\ Real[k] = k => \A l \in LocalNow : Real[l] = l /\ IsUnder(p, l) => l \in Above[k]
  \/ /\ k \in Above[p] /\ Above[k] = {k}
     /\ \A l \in LocalNow : ~IsUnder(p, l)

(* Whatever the order of the sets and whatever the disk does meanwhile,    *)
(* every path that is not shared is in the one group it belongs to, under  *)
(* what it was given as; an input only moves to the references if it was   *)
(* missing at some moment of the call, and is only believed to exist, or   *)
(* to have no size, if that was so since the manager was made: stat        *)
(* results are never forgotten by time.                                    *)
AsAsked(p, k) ==
  /\ p \in groups[k].outputs <=> p \in request.outputs
  /\ p \in request.references => p \in groups[k].references
  /\ p \in groups[k].references \ request.references =>
       /\ p \in request.inputs /\ ~request.strict
       /\ "none" \in recent[Real[p]]
  /\ p \in groups[k].inputs => p \in request.inputs /\ "file" \in kinds[Real[p]]
  /\ p \in request.inputs => p \in groups[k].inputs \cup groups[k].references

GroupedRight ==
  gphase = "done" =>
    /\ \A p \in request.inputs \cup request.outputs \cup request.references :
         IF IsShared(p) THEN \A k \in GPaths : p \notin Members(k)
         ELSE \E k \in GPaths : BelongsTo(p, k) /\ AsAsked(p, k)
    /\ \A k \in GPaths : \A p \in Members(k) : BelongsTo(p, k) /\ AsAsked(p, k)
    /\ \A j, k \in GPaths : j # k => Members(j) \cap Members(k) = {}
    /\ \A p \in unsized : "none" \in kinds[Real[p]]

(* Every member is under the root of its group, and no two groups have the *)
(* same root, by which the worker tells them apart; a location's root does *)
(* not leave the location.  Groups with links in them are exempt: the      *)
(* grouping follows links, the common path does not.                       *)
LinkFree(k) == Real[k] = k /\ \A p \in Members(k) : Real[p] = p

RootsApart ==
  gphase \in {"sizes", "done"} =>
    \A k \in GroupKeys :
      /\ \A p \in Members(k) : roots[k] \in Above[p]
      /\ LinkFree(k) => /\ k \in Above[roots[k]]
                        /\ \A j \in GroupKeys : LinkFree(j) /\ roots[j] = roots[k] => j = k
=============================================================================
