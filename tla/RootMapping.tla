------------------------------ MODULE RootMapping ------------------------------
(***************************************************************************)
(* The root mapping of a downloader (_BaseFilterableDownloader): the files *)
(* of a job, grouped by asset root, may be sent to other directories by    *)
(* set_root_path and narrowed by apply_include_filters, in any order and   *)
(* number.  Both record what was asked and compute the groups anew from    *)
(* the initial ones, applying the mappings in the order of the dictionary  *)
(* and then the filters.                                                   *)
(***************************************************************************)
EXTENDS Naturals, FiniteSets, Sequences

CONSTANTS
  JobRoots,     \* the roots of the initial groups
  LocalDirs,    \* directories the user may send them to, job roots included
  Names,        \* paths relative to a root
  NestedNames,  \* those with a directory in them
  PrefixOf,     \* PrefixOf[r]: root r with "/", "\" and ":" replaced by "_"
  FilterGroups, \* sets of <<root, path>> that a list of patterns lets pass
  MaxCalls      \* bound on the calls

ASSUME RootMappingAssumption ==
  /\ IsFiniteSet(JobRoots) /\ DOMAIN PrefixOf = JobRoots /\ NestedNames \subseteq Names /\ MaxCalls \in Nat
  /\ \A G \in FilterGroups : G \subseteq (JobRoots \cup LocalDirs) \X Names

VARIABLES
  initial,  \* _initial_paths_by_root: records with a root, a path and a version
  order,    \* the order of its keys
  maps,     \* _root_mappings, with the order of its keys
  filters,  \* _include_filter_groups
  shown,    \* paths_by_root: an initial record, where it is now and its name there
  calls     \* the number of calls so far

mappingVars == <<initial, order, maps, filters, shown, calls>>

AllRoots == JobRoots \cup LocalDirs
Opened == order # << >>

MappingTypeOK ==
  /\ \A x \in initial : x.root \in JobRoots /\ x.path \in Names
  /\ \A i, j \in 1..Len(order) : order[i] \in JobRoots /\ (order[i] = order[j] => i = j)
  /\ \A i, j \in 1..Len(maps) :
       /\ maps[i].from \in JobRoots /\ maps[i].to \in LocalDirs
       /\ maps[i].from = maps[j].from => i = j
  /\ filters \subseteq FilterGroups
  /\ \A s \in shown : s.root \in AllRoots /\ s.of \in initial
  /\ calls \in 0..MaxCalls

MappingInit ==
  /\ initial = {} /\ order = << >> /\ maps = << >>
  /\ filters = {} /\ shown = {} /\ calls = 0

-----------------------------------------------------------------------------
(* One turn of the loop over the mappings.  A file whose name is taken at  *)
(* the new root gets the old root's name in front of its own, which        *)
(* Path.with_name refuses for a name with a separator in it.               *)
NamesAt(placed, r) == {s.name : s \in {x \in placed : x.root = r}}
PrefixedNever(from, name) == name
Prefixed(from, name) == [name EXCEPT !.prefix = <<PrefixOf[from]>> \o @]
Collides(placed, m, s) == s.root = m.from /\ m.to # m.from /\ s.name \in NamesAt(placed, m.to)
MovedOver(placed, m) ==
  {IF s.root # m.from THEN s ELSE [s EXCEPT !.root = m.to] : s \in {x \in placed : ~Collides(placed, m, x)}}
Moved(placed, m) ==
  {IF s.root # m.from THEN s
   ELSE [s EXCEPT !.root = m.to, !.name = IF Collides(placed, m, s) THEN Prefixed(m.from, @) ELSE @] :
     s \in placed}
Refused(placed, m) == \E s \in placed : Collides(placed, m, s) /\ s.name.path \in NestedNames

AtHome(files) == {[root |-> x.root, name |-> [prefix |-> << >>, path |-> x.path], of |-> x] : x \in files}

(* The groups after the first n mappings.                                  *)
Placed(files, ms) ==
  LET after[n \in 0..Len(ms)] == IF n = 0 THEN AtHome(files) ELSE Moved(after[n - 1], ms[n])
  IN  after
Raises(files, ms) == \E n \in 1..Len(ms) : Refused(Placed(files, ms)[n - 1], ms[n])
Passes(groups, s) == \A G \in groups : <<s.root, s.name.path>> \in G

(* _rebuild: an exception leaves paths_by_root as it was.                  *)
Rebuild(files, ms, groups, before) ==
  IF Raises(files, ms) THEN before
  ELSE {s \in Placed(files, ms)[Len(ms)] : Passes(groups, s)}

(* The constructor.                                                        *)
Construct(files, roots) ==
  /\ ~Opened
  /\ initial' = files /\ order' = roots
  /\ shown' = Rebuild(files, << >>, {}, {})
  /\ UNCHANGED <<maps, filters, calls>>

IndexIn(ms, r) == {i \in 1..Len(ms) : ms[i].from = r}
MapOf(ms, r) == IF IndexIn(ms, r) = {} THEN r ELSE ms[CHOOSE i \in IndexIn(ms, r) : TRUE].to

WithMappingAppended(ms, m) == Append(ms, m)
WithMappingKept(ms, m) == IF IndexIn(ms, m.from) = {} THEN Append(ms, m) ELSE ms

(* What a dictionary does: a key that is there keeps its place.            *)
WithMapping(ms, m) ==
  IF IndexIn(ms, m.from) = {} THEN Append(ms, m)
  ELSE [ms EXCEPT ![CHOOSE i \in IndexIn(ms, m.from) : TRUE] = m]

MeantUnmapped(old) == {k \in 1..Len(order) : order[k] = old}

(* The first initial root that is mapped to what the user calls old; where *)
(* there is none, set_root_path raises and changes nothing.                *)
Meant(old) ==
  {k \in 1..Len(order) :
     MapOf(maps, order[k]) = old /\ \A j \in 1..(k - 1) : MapOf(maps, order[j]) # old}

SetRootPath(old, new) ==
  /\ Opened /\ calls < MaxCalls /\ new # old
  /\ \E k \in Meant(old) : maps' = WithMapping(maps, [from |-> order[k], to |-> new])
  /\ shown' = Rebuild(initial, maps', filters, shown)
  /\ calls' = calls + 1
  /\ UNCHANGED <<initial, order, filters>>

ApplyIncludeFilters(G) ==
  /\ Opened /\ calls < MaxCalls
  /\ filters' = filters \cup {G}
  /\ shown' = Rebuild(initial, maps, filters', shown)
  /\ calls' = calls + 1
  /\ UNCHANGED <<initial, order, maps>>

MappingNext ==
  \/ \E old \in AllRoots, new \in LocalDirs : SetRootPath(old, new)
  \/ \E G \in FilterGroups : ApplyIncludeFilters(G)

-----------------------------------------------------------------------------
Stuck == Raises(initial, maps)   \* the last rebuild raised

(* Whatever is sent wherever, every file is shown, once, unless a filter   *)
(* keeps it out.                                                           *)
NothingLost ==
  /\ \A s, u \in shown : s.of = u.of => s = u
  /\ filters = {} => {s.of : s \in shown} = initial

(* Two files are under one name only if they were so from the start: what  *)
(* merging roots brings together is told apart, unless two of the roots    *)
(* that were sent elsewhere are alike when they are written as prefixes.   *)
PrefixesMeet ==
  \E i, j \in 1..Len(maps) : i # j /\ PrefixOf[maps[i].from] = PrefixOf[maps[j].from]
NamesApart ==
  \A s, u \in shown :
    s.root = u.root /\ s.name = u.name
      => (s.of.root = u.of.root \/ PrefixesMeet) /\ s.of.path = u.of.path

(* The user can go on moving any root that is shown, unless the last call  *)
(* raised while it computed the groups.                                    *)
ShownCanMove == ~Stuck => \A s \in shown : Meant(s.root) # {}

(* A call sends the files of the root that is meant where it was asked to, *)
(* and no file that was elsewhere moves.  The exception is a directory     *)
(* that is itself a root of the job, and is mapped on later in the         *)
(* dictionary: what is, or was, sent there goes on with it.                *)
SentOn(new) == \E i \in 1..Len(maps) : maps[i].from = new /\ maps[i].to # new
SentAsAsked(old, new) ==
  SetRootPath(old, new) /\ filters = {} /\ ~Stuck /\ ~Stuck' =>
    \A k \in Meant(old) : \A u \in shown' :
      /\ u.of.root = order[k] => u.root = new \/ SentOn(new)
      /\ u.of.root # order[k] =>
           \A s \in shown : s.of = u.of /\ s.root # old => u.root = s.root \/ SentOn(old)
MovedWhereAsked == [][\A old \in AllRoots, new \in LocalDirs : SentAsAsked(old, new)]_mappingVars

===============================================================================
