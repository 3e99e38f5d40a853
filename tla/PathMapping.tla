----------------------------- MODULE PathMapping -----------------------------
(***************************************************************************)
(* _path_mapping.py: the rules that take the paths of one storage profile  *)
(* to those of another, the trie they are put into, and the walk down the  *)
(* trie that maps a path.  A path is the sequence of its parts; the path   *)
(* of a location in the target profile is a name, to which the parts that  *)
(* remain are joined.  The incremental download maps every path of a job's *)
(* manifests so, from the profile the job was submitted with.              *)
(***************************************************************************)
EXTENDS Naturals, Sequences

CONSTANTS
  Parts, Lower,       \* Lower[p]: part p in lower case
  MPaths,             \* the paths to be mapped
  Sources, Targets,   \* fileSystemLocations of the profiles, as sequences
  Destinations,
  Unmapped,
  MCalls              \* bound: paths mapped with one applier

ASSUME MappingAssumption ==
  /\ Lower \in [Parts -> Parts] /\ \A p \in Parts : Lower[Lower[p]] = Lower[p]
  /\ MPaths \subseteq Seq(Parts)
  /\ \A s \in Sources \cup Targets : Len(s) \in Nat /\ DOMAIN s = 1..Len(s)
  /\ \A s \in Sources : \A i \in DOMAIN s : s[i].path \in Seq(Parts)
  /\ \A t \in Targets : \A i \in DOMAIN t : t[i].path \in Destinations
  /\ Unmapped \notin [to : Destinations, rest : Seq(Parts)] \cup Destinations
  /\ MCalls \in Nat

VARIABLES
  mphase,     \* "idle", "insert", "ready", "walk", "mapped" or "raised"
  profiles,   \* the two profiles: locations, Windows paths, the same id
  rules,      \* path_mapping_rules
  inserted,   \* the number of rules in the trie
  trie,       \* the nodes of the trie, with the destination of each, if any
  path,       \* the path that is mapped
  depth,      \* the number of its parts that were walked
  match,      \* the destination matched last and the parts that remain
  strict,     \* strict_transform, or transform
  mcalls

mapWork == <<path, depth, match, strict, mcalls>>
mappingVars == <<mphase, profiles, rules, inserted, trie, mapWork>>

Inputs == [source : Sources, target : Targets, windows : BOOLEAN, same : BOOLEAN]
NoProfiles == [source |-> <<>>, target |-> <<>>, windows |-> FALSE, same |-> TRUE]
IsMatch(m) == m = Unmapped \/ (m.to \in Destinations /\ m.rest \in Seq(Parts))

MappingTypeOK ==
  /\ mphase \in {"idle", "insert", "ready", "walk", "mapped", "raised"}
  /\ profiles \in Inputs \cup {NoProfiles}
  /\ \A i \in DOMAIN rules : rules[i].from \in Seq(Parts) /\ rules[i].to \in Destinations
  /\ inserted \in 0..Len(rules)
  /\ \A n \in DOMAIN trie : n \in Seq(Parts) /\ trie[n] \in Destinations \cup {Unmapped}
  /\ path \in MPaths \cup {<<>>} /\ depth \in 0..Len(path)
  /\ IsMatch(match)
  /\ strict \in BOOLEAN /\ mcalls \in 0..MCalls

MappingInit ==
  /\ mphase = "idle" /\ profiles = NoProfiles
  /\ rules = <<>> /\ inserted = 0 /\ trie = [n \in {<<>>} |-> Unmapped]
  /\ path = <<>> /\ depth = 0 /\ match = Unmapped /\ strict = FALSE /\ mcalls = 0

-----------------------------------------------------------------------------
(* _generate_path_mapping_rules: locations go into dictionaries by their   *)
(* name, where the last one of a name counts and the first one keeps its   *)
(* place; every name that both profiles have gives a rule.                 *)
LastOf(locations, name) ==
  LET named == {i \in DOMAIN locations : locations[i].name = name}
  IN  locations[CHOOSE i \in named : \A j \in named : j <= i].path

Has(locations, name) == \E i \in DOMAIN locations : locations[i].name = name

RulesFor(p) ==
  LET First(i) == \A j \in 1..(i - 1) : p.source[j].name # p.source[i].name
      Gives(i) == First(i) /\ Has(p.target, p.source[i].name)
      rule(i) == [from |-> LastOf(p.source, p.source[i].name),
                  to |-> LastOf(p.target, p.source[i].name)]
      upTo[i \in 0..Len(p.source)] ==
        IF i = 0 THEN <<>> ELSE IF Gives(i) THEN Append(upTo[i - 1], rule(i)) ELSE upTo[i - 1]
  IN  upTo[Len(p.source)]

GenerateRules ==
  /\ mphase = "idle"
  /\ profiles' \in Inputs
  /\ rules' = IF profiles'.same THEN <<>> ELSE RulesFor(profiles')
  /\ mphase' = "insert"
  /\ UNCHANGED <<inserted, trie, mapWork>>

-----------------------------------------------------------------------------
(* _PathMappingRuleApplier *)

Normal(parts) == IF profiles.windows THEN [i \in DOMAIN parts |-> Lower[parts[i]]] ELSE parts
Prefix(parts, n) == SubSeq(parts, 1, n)

(* A rule makes the nodes on its way that are missing, and sets the        *)
(* destination of the last.                                                *)
InsertRule ==
  /\ mphase = "insert" /\ inserted < Len(rules)
  /\ LET rule == rules[inserted + 1]
         node == Normal(rule.from)
         way == {Prefix(node, n) : n \in 0..Len(node)}
     IN  trie' = [n \in DOMAIN trie \cup way |->
                    IF n = node THEN rule.to
                    ELSE IF n \in DOMAIN trie THEN trie[n] ELSE Unmapped]
  /\ inserted' = inserted + 1
  /\ UNCHANGED <<mphase, profiles, rules, mapWork>>

InsertDone ==
  /\ mphase = "insert" /\ inserted = Len(rules)
  /\ mphase' = "ready"
  /\ UNCHANGED <<profiles, rules, inserted, trie, mapWork>>

(* transform or strict_transform is called; without any rule nothing is    *)
(* walked.                                                                 *)
TransformPath ==
  /\ mphase \in {"ready", "mapped", "raised"} /\ mcalls < MCalls
  /\ path' \in MPaths /\ strict' \in BOOLEAN
  /\ depth' = 0 /\ match' = Unmapped /\ mcalls' = mcalls + 1
  /\ mphase' = IF rules # <<>> THEN "walk" ELSE IF strict' THEN "raised" ELSE "mapped"
  /\ UNCHANGED <<profiles, rules, inserted, trie>>

NextNode == Prefix(Normal(path), depth + 1)
OnTheWay == depth < Len(path) /\ NextNode \in DOMAIN trie

(* A destination on the way replaces the one matched before.               *)
MatchFirst(to) == IF match # Unmapped THEN match
                  ELSE [to |-> to, rest |-> SubSeq(path, depth + 2, Len(path))]
Match(to) == [to |-> to, rest |-> SubSeq(path, depth + 2, Len(path))]

WalkPart ==
  /\ mphase = "walk" /\ OnTheWay
  /\ match' = IF trie[NextNode] = Unmapped THEN match ELSE Match(trie[NextNode])
  /\ depth' = depth + 1
  /\ UNCHANGED <<mphase, profiles, rules, inserted, trie, path, strict, mcalls>>

WalkDone ==
  /\ mphase = "walk" /\ ~OnTheWay
  /\ mphase' = IF strict /\ match = Unmapped THEN "raised" ELSE "mapped"
  /\ UNCHANGED <<profiles, rules, inserted, trie, mapWork>>

MappingNext ==
  \/ GenerateRules \/ InsertRule \/ InsertDone \/ TransformPath \/ WalkPart \/ WalkDone

MappingSpec == MappingInit /\ [][MappingNext]_mappingVars

-----------------------------------------------------------------------------
(* A path is mapped by the longest of the locations it is under that both  *)
(* profiles have, and keeps the case of what remains of it; it stays       *)
(* unmapped, which strict_transform raises for, only if it is under none.  *)
(* When locations of several names are the same, any of them may count.    *)
Names == {profiles.source[i].name : i \in DOMAIN profiles.source}

UnderLocation(name) ==
  LET from == LastOf(profiles.source, name)
  IN  /\ Has(profiles.target, name) /\ Len(from) \in 1..Len(path)
      /\ Normal(from) = Normal(Prefix(path, Len(from)))

LongestLocations ==
  LET length(name) == Len(LastOf(profiles.source, name))
      under == {name \in Names : UnderLocation(name)}
  IN  {name \in under : \A other \in under : length(other) <= length(name)}

LongestRuleWins ==
  mphase \in {"mapped", "raised"} =>
    IF profiles.same \/ LongestLocations = {}
    THEN match = Unmapped /\ (mphase = "raised" <=> strict)
    ELSE /\ mphase = "mapped"
         /\ \E name \in LongestLocations :
              match = [to |-> LastOf(profiles.target, name),
                       rest |-> SubSeq(path, Len(LastOf(profiles.source, name)) + 1, Len(path))]
=============================================================================
