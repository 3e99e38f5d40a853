------------------------ MODULE OutputDownloads_proofs ------------------------
(***************************************************************************)
(* Theorems about the downloaders of a job's files, for every value of the *)
(* constants.                                                              *)
(* 1. JobOutputs, for every job, every schedule of its session actions and *)
(*    every clock: which manifests count, and that the ways of asking for  *)
(*    them agree.                                                          *)
(* 2. RootMapping, for any roots, files, mappings and filters, in any      *)
(*    order and number: where the files are sent, and under which name.    *)
(* 3. OutputDownloads, which composes the two.                             *)
(***************************************************************************)
EXTENDS OutputDownloads, Loops, FiniteSetTheorems, TLAPS

-----------------------------------------------------------------------------
(* 1. JobOutputs                                                           *)

(* The parts of the inductive invariant: manifests are of actions that     *)
(* have begun; two attempts of a unit have different stamps; the attempts  *)
(* on record as earlier are of the same unit, and of two attempts one is   *)
(* on the other's record; nothing was uploaded in the future; and any      *)
(* manifests there are have a newest one among them.                       *)
BegunInv  == \A m \in bucket : state[m.action] # "waiting"
StampsInv == \A u \in Units : \A a, b \in Attempts(u) : stamp[a] = stamp[b] => a = b
BeganInv  == \A a \in Actions : \A b \in began[a] : UnitOf[b] = UnitOf[a]
OrderInv  == \A u \in Units : \A a, b \in Attempts(u) : a = b \/ a \in began[b] \/ b \in began[a]
ClockInv  == \A m \in bucket : m.modified <= clock
NewestInv ==
  \A ms \in SUBSET bucket :
    ms # {} => \E m \in ms : \A n \in ms : n.modified <= m.modified
OutputsInv == OutputsTypeOK /\ BegunInv /\ StampsInv /\ BeganInv /\ OrderInv /\ ClockInv /\ NewestInv

(* Nothing has begun. *)
LEMMA InitOutputsInv == OutputsInit => OutputsInv
<1> SUFFICES ASSUME OutputsInit PROVE OutputsInv
  OBVIOUS
<1>1. OutputsTypeOK
  BY JobOutputsAssumption DEF OutputsInit, OutputsTypeOK
<1> QED
  BY <1>1 DEF OutputsInit, OutputsInv, BegunInv, StampsInv, BeganInv, OrderInv, ClockInv, NewestInv, Attempts

(* An action that begins has a stamp that no attempt of its unit has.      *)
LEMMA StartOutputsInv ==
  ASSUME OutputsInv, NEW a \in Actions, NEW skew \in Skews[a], Start(a, skew)
  PROVE  OutputsInv'
<1> USE DEF OutputsInv, Start
<1>1. skew \in Nat
  BY JobOutputsAssumption
<1>2. OutputsTypeOK'
  BY <1>1 DEF OutputsTypeOK, Attempts
<1>3. BegunInv'
  BY DEF BegunInv, OutputsTypeOK, Manifests
<1>4. StampsInv'
  <2> SUFFICES ASSUME NEW u \in Units, NEW b \in Attempts(u)', NEW c \in Attempts(u)',
                      stamp'[b] = stamp'[c]
               PROVE  b = c
    BY DEF StampsInv
  <2>1. b \in Attempts(u) \/ b = a
    BY DEF Attempts, OutputsTypeOK
  <2>2. c \in Attempts(u) \/ c = a
    BY DEF Attempts, OutputsTypeOK
  <2>3. UnitOf[b] = u /\ UnitOf[c] = u /\ b \in Actions /\ c \in Actions
    BY DEF Attempts
  <2>4. \A d \in Actions : d # a => stamp'[d] = stamp[d]
    BY DEF OutputsTypeOK
  <2>5. stamp'[a] = clock + skew
    BY DEF OutputsTypeOK
  <2>6. CASE b # a /\ c # a
    BY <2>1, <2>2, <2>3, <2>4, <2>6 DEF StampsInv
  <2>7. CASE b = a /\ c # a
    BY <2>2, <2>3, <2>4, <2>5, <2>7
  <2>8. CASE b # a /\ c = a
    BY <2>1, <2>3, <2>4, <2>5, <2>8
  <2> QED
    BY <2>6, <2>7, <2>8
<1>5. BeganInv'
  BY DEF BeganInv, Attempts, OutputsTypeOK
<1>6. OrderInv'
  <2> SUFFICES ASSUME NEW u \in Units, NEW b \in Attempts(u)', NEW c \in Attempts(u)'
               PROVE  b = c \/ b \in began'[c] \/ c \in began'[b]
    BY DEF OrderInv
  <2>1. (b \in Attempts(u) \/ b = a) /\ (c \in Attempts(u) \/ c = a)
    BY DEF Attempts, OutputsTypeOK
  <2>2. UnitOf[b] = u /\ UnitOf[c] = u /\ b \in Actions /\ c \in Actions
    BY DEF Attempts
  <2>3. began'[a] = Attempts(UnitOf[a]) /\ \A d \in Actions : d # a => began'[d] = began[d]
    BY DEF OutputsTypeOK
  <2> QED
    BY <2>1, <2>2, <2>3 DEF OrderInv
<1>7. ClockInv' /\ NewestInv'
  BY DEF ClockInv, NewestInv
<1> QED
  BY <1>2, <1>3, <1>4, <1>5, <1>6, <1>7

(* A manifest that is uploaded is as new as any.                           *)
LEMMA SyncRootOutputsInv ==
  ASSUME OutputsInv, NEW a \in Actions, NEW outputs \in SUBSET Paths, SyncRoot(a, outputs)
  PROVE  OutputsInv'
<1> USE DEF OutputsInv
<1> DEFINE new == [action |-> a, root |-> next[a], modified |-> clock, paths |-> outputs]
<1>1. next[a] \in Roots /\ next[a] + 1 \in 1..(LastRoot + 1)
  BY JobOutputsAssumption DEF SyncRoot, OutputsTypeOK, Roots
<1>2. new \in Manifests
  BY <1>1 DEF Manifests, OutputsTypeOK
<1>3. bucket' \subseteq bucket \cup {new}
  BY DEF SyncRoot
<1>4. OutputsTypeOK'
  BY <1>1, <1>2, <1>3 DEF OutputsTypeOK, SyncRoot
<1>5. BegunInv'
  BY <1>3 DEF BegunInv, SyncRoot
<1>6. StampsInv' /\ BeganInv' /\ OrderInv'
  BY DEF StampsInv, BeganInv, OrderInv, SyncRoot, Attempts
<1>7. ClockInv'
  BY <1>3 DEF ClockInv, SyncRoot, OutputsTypeOK
<1>8. NewestInv'
  <2> SUFFICES ASSUME NEW ms \in SUBSET bucket', ms # {}
               PROVE  \E m \in ms : \A n \in ms : n.modified <= m.modified
    BY DEF NewestInv
  <2>1. CASE new \in ms
    <3>1. \A n \in ms : n.modified <= clock
      BY <1>3 DEF ClockInv, OutputsTypeOK
    <3> QED
      BY <2>1, <3>1
  <2>2. CASE new \notin ms
    BY <1>3, <2>2 DEF NewestInv
  <2> QED
    BY <2>1, <2>2
<1> QED
  BY <1>4, <1>5, <1>6, <1>7, <1>8

(* Every step keeps the invariant.                                         *)
LEMMA NextOutputsInv == OutputsInv /\ [OutputsNext]_outputVars => OutputsInv'
<1> SUFFICES ASSUME OutputsInv, [OutputsNext]_outputVars PROVE OutputsInv'
  OBVIOUS
<1>1. ASSUME NEW a \in Actions, NEW skew \in Skews[a], Start(a, skew) PROVE OutputsInv'
  BY <1>1, StartOutputsInv
<1>2. ASSUME NEW a \in Actions, NEW outputs \in SUBSET Paths, SyncRoot(a, outputs) PROVE OutputsInv'
  BY <1>2, SyncRootOutputsInv
<1>3. ASSUME NEW a \in Actions, SyncDone(a) \/ SyncFails(a) PROVE OutputsInv'
  <2>1. OutputsTypeOK'
    BY <1>3 DEF OutputsInv, OutputsTypeOK, SyncDone, SyncFails
  <2>2. BegunInv' /\ BeganInv' /\ ClockInv' /\ NewestInv'
    BY <1>3 DEF OutputsInv, OutputsTypeOK, Manifests, SyncDone, SyncFails,
                BegunInv, BeganInv, ClockInv, NewestInv
  <2>3. \A u \in Units : Attempts(u)' = Attempts(u)
    BY <1>3 DEF OutputsInv, OutputsTypeOK, SyncDone, SyncFails, Attempts
  <2>4. StampsInv' /\ OrderInv'
    BY <1>3, <2>3 DEF OutputsInv, StampsInv, OrderInv, SyncDone, SyncFails
  <2> QED
    BY <2>1, <2>2, <2>4 DEF OutputsInv
<1>4. CASE Tick
  <2>1. OutputsTypeOK' /\ BegunInv' /\ BeganInv' /\ NewestInv'
    BY <1>4 DEF OutputsInv, Tick, workVars, OutputsTypeOK, BegunInv, BeganInv, NewestInv
  <2>2. StampsInv' /\ OrderInv'
    BY <1>4 DEF OutputsInv, Tick, workVars, StampsInv, OrderInv, Attempts
  <2>3. ClockInv'
    BY <1>4 DEF OutputsInv, Tick, workVars, ClockInv, OutputsTypeOK, Manifests
  <2> QED
    BY <2>1, <2>2, <2>3 DEF OutputsInv
<1>5. CASE UNCHANGED outputVars
  BY <1>5 DEF OutputsInv, outputVars, workVars, OutputsTypeOK, BegunInv, StampsInv, BeganInv,
              OrderInv, ClockInv, NewestInv, Attempts
<1> QED
  BY <1>1, <1>2, <1>3, <1>4, <1>5 DEF OutputsNext

(* The invariant holds of every job.                                       *)
LEMMA OutputsInvariance == OutputsSpec => []OutputsInv
<1> QED
  BY InitOutputsInv, NextOutputsInv, PTL DEF OutputsSpec

(* The variables have their types.                                         *)
THEOREM OutputsTyped == OutputsSpec => []OutputsTypeOK
<1>1. OutputsInv => OutputsTypeOK
  BY DEF OutputsInv
<1> QED
  BY OutputsInvariance, <1>1, PTL

-----------------------------------------------------------------------------
(* What is listed comes from a manifest that counts.                       *)
LEMMA ListedFrom ==
  ASSUME NEW ms, NEW v \in Versions(ms)
  PROVE  \E m \in ms : \E p \in m.paths : v = Entry(m, p) /\ Wins(ms, m, p)
BY DEF Versions

(* A manifest's winning path is listed.                                    *)
LEMMA WinnerListed ==
  ASSUME NEW ms, NEW m \in ms, NEW p \in m.paths, Wins(ms, m, p)
  PROVE  Entry(m, p) \in Versions(ms)
BY DEF Versions

(* Two manifests of a task that both count are of one attempt: their       *)
(* stamps are equal.                                                       *)
LEMMA OneAttempt ==
  ASSUME OutputsInv, NEW m \in Selected(bucket), NEW n \in Selected(bucket), SameTask(m, n)
  PROVE  m.action = n.action
<1>1. m \in bucket /\ n \in bucket /\ SameTask(n, m)
  BY DEF Selected, SameTask
<1>2. NotBefore(m, n) /\ NotBefore(n, m)
  BY <1>1 DEF Selected
<1>3. m.action \in Actions /\ n.action \in Actions
  BY <1>1 DEF OutputsInv, OutputsTypeOK, Manifests
<1>4. stamp[m.action] = stamp[n.action]
  BY <1>2, <1>3 DEF NotBefore, OutputsInv, OutputsTypeOK
<1>5. UnitOf[m.action] \in Units
  BY <1>3 DEF Units
<1>6. m.action \in Attempts(UnitOf[m.action]) /\ n.action \in Attempts(UnitOf[m.action])
  BY <1>1, <1>3 DEF Attempts, SameTask, OutputsInv, BegunInv
<1> QED
  BY <1>4, <1>5, <1>6 DEF OutputsInv, StampsInv

(* A download never lists files of two attempts of a task, although their  *)
(* workers upload the manifests of their roots side by side.               *)
THEOREM OneAttemptListed == OutputsSpec => []AttemptsNotMixed
<1>1. OutputsInv => AttemptsNotMixed
  <2> SUFFICES ASSUME OutputsInv, NEW v \in Versions(Selected(bucket)), NEW w \in Versions(Selected(bucket)),
                      UnitOf[v.version] = UnitOf[w.version], UnitOf[v.version] \in Tasks
               PROVE  v.version = w.version
    BY DEF AttemptsNotMixed
  <2>1. PICK m \in Selected(bucket) : v.version = m.action
    BY ListedFrom DEF Entry
  <2>2. PICK n \in Selected(bucket) : w.version = n.action
    BY ListedFrom DEF Entry
  <2> QED
    BY <2>1, <2>2, OneAttempt DEF SameTask
<1> QED
  BY OutputsInvariance, <1>1, PTL

(* Where something may be listed, the newest of it is.                     *)
LEMMA NewestListed ==
  ASSUME OutputsInv, NEW m \in Selected(bucket), NEW p \in m.paths
  PROVE  \E n \in Selected(bucket) : /\ n.root = m.root /\ n.modified >= m.modified
                                    /\ Entry(n, p) \in Versions(Selected(bucket))
<1> DEFINE rivals == {n \in Selected(bucket) : n.root = m.root /\ p \in n.paths}
<1>1. rivals \in SUBSET bucket /\ m \in rivals
  BY DEF Selected
<1>2. PICK n \in rivals : \A k \in rivals : k.modified <= n.modified
  BY <1>1 DEF OutputsInv, NewestInv
<1>3. n \in Selected(bucket) /\ p \in n.paths /\ Wins(Selected(bucket), n, p)
  BY <1>2 DEF Wins, Over
<1>4. Entry(n, p) \in Versions(Selected(bucket))
  BY <1>3, WinnerListed
<1>5. n.modified \in Nat /\ m.modified \in Nat
  BY <1>1 DEF OutputsInv, OutputsTypeOK, Manifests
<1> QED
  BY <1>1, <1>2, <1>4, <1>5

(* As long as the clocks of the workers keep the order of its attempts,    *)
(* a task's last attempt is the one that counts: none of its outputs is    *)
(* left out but for a newer version, none of an earlier attempt is listed. *)
THEOREM LastAttemptListed == OutputsSpec => []LastAttemptCounts
<1>1. OutputsInv => LastAttemptCounts
  <2> SUFFICES ASSUME OutputsInv, NEW a \in Actions,
                      Last(a), UnitOf[a] \in Tasks, InOrder(UnitOf[a])
               PROVE  /\ \A v \in Versions(Selected(bucket)) : v.version \notin began[a]
                      /\ \A m \in bucket : m.action = a => \A p \in m.paths :
                           \E n \in Selected(bucket) :
                             /\ n.root = m.root /\ n.modified >= m.modified
                             /\ Entry(n, p) \in Versions(Selected(bucket))
    BY DEF LastAttemptCounts
  <2>1. a \in Attempts(UnitOf[a])
    BY DEF Last, Attempts
  <2>2. ASSUME NEW v \in Versions(Selected(bucket)), v.version \in began[a] PROVE FALSE
    <3>1. PICK n \in Selected(bucket) : v.version = n.action
      BY ListedFrom DEF Entry
    <3>2. PICK m \in bucket : m.action = a
      BY DEF Last
    <3>3. SameTask(n, m)
      BY <2>2, <3>1, <3>2 DEF SameTask, OutputsInv, BeganInv
    <3>4. stamp[a] <= stamp[n.action]
      BY <3>2, <3>3 DEF Selected, NotBefore
    <3>5. stamp[n.action] < stamp[a]
      BY <2>1, <2>2, <3>1 DEF InOrder
    <3>6. n.action \in Actions
      BY DEF Selected, OutputsInv, OutputsTypeOK, Manifests
    <3> QED
      BY <3>4, <3>5, <3>6 DEF OutputsInv, OutputsTypeOK
  <2>3. ASSUME NEW m \in bucket, m.action = a PROVE m \in Selected(bucket)
    <3> SUFFICES ASSUME NEW n \in bucket, SameTask(m, n)
                 PROVE  stamp[n.action] <= stamp[a]
      BY <2>3 DEF Selected, NotBefore
    <3>1. n.action \in Attempts(UnitOf[a])
      BY <2>3 DEF SameTask, Attempts, OutputsInv, BegunInv, OutputsTypeOK, Manifests
    <3>2. n.action = a \/ n.action \in began[a]
      <4>1. UnitOf[a] \in Units
        BY DEF Units
      <4>2. a = n.action \/ a \in began[n.action] \/ n.action \in began[a]
        BY <3>1, <2>1, <4>1 DEF OutputsInv, OrderInv
      <4> QED
        BY <3>1, <4>2 DEF Last
    <3>3. n.action \in Actions
      BY <3>1 DEF Attempts
    <3> QED
      BY <2>1, <3>2, <3>3 DEF InOrder, OutputsInv, OutputsTypeOK
  <2> QED
    BY <2>2, <2>3, NewestListed
<1> QED
  BY OutputsInvariance, <1>1, PTL

(* A dependent step is given what a download of the job lists of the steps *)
(* it depends on.                                                          *)
THEOREM StepsAlwaysAgree == OutputsSpec => []StepsAgree
<1>1. StepsAgree
  <2> SUFFICES ASSUME NEW v \in Versions(Selected(bucket))
               PROVE  v \in Versions(Selected(InStep(StepOf[UnitOf[v.version]])))
    BY DEF StepsAgree
  <2>1. PICK m \in Selected(bucket) : \E p \in m.paths : v = Entry(m, p) /\ Wins(Selected(bucket), m, p)
    BY ListedFrom
  <2>2. PICK p \in m.paths : v = Entry(m, p) /\ Wins(Selected(bucket), m, p)
    BY <2>1
  <2> DEFINE step == InStep(StepOf[UnitOf[m.action]])
  <2>3. m \in Selected(step)
    BY DEF Selected, InStep
  <2>4. Selected(step) \subseteq Selected(bucket)
    BY DEF Selected, InStep, SameTask
  <2>5. Wins(Selected(step), m, p)
    BY <2>2, <2>4 DEF Wins
  <2>6. Entry(m, p) \in Versions(Selected(step))
    BY <2>3, <2>5, WinnerListed
  <2> QED
    BY <2>2, <2>6 DEF Entry
<1> QED
  BY <1>1, PTL

(* Without second attempts, the version an incremental download has of a   *)
(* place is one that the download of the job lists there too, if it was    *)
(* told of all the actions with outputs there.                             *)
THEOREM IncrementalAlwaysAgrees == OutputsSpec => []IncrementalAgrees
<1>1. OutputsInv => IncrementalAgrees
  <2> SUFFICES ASSUME OutputsInv, \A m, n \in bucket : SameTask(m, n) => m.action = n.action,
                      NEW as \in SUBSET Actions, NEW v \in Incremental(as),
                      \A m \in bucket : At(m, v.place) # {} => m.action \in as
               PROVE  \E w \in Versions(Selected(bucket)) :
                        w.version = v.version /\ PlaceOf[w.root][w.path] = v.place
    BY DEF IncrementalAgrees
  <2>1. PICK m \in FromActions(as) : /\ m.action = v.version /\ At(m, v.place) # {}
                                     /\ WinsPlace(FromActions(as), m, v.place)
    BY DEF Incremental
  <2> m \in bucket
    BY DEF FromActions
  <2>2. PICK p \in m.paths : PlaceOf[m.root][p] = v.place
    BY <2>1 DEF At
  <2>3. stamp[m.action] <= stamp[m.action]
    BY DEF OutputsInv, OutputsTypeOK, Manifests
  <2>4. m \in Selected(bucket)
    BY <2>3 DEF Selected, NotBefore
  <2>5. Wins(Selected(bucket), m, p)
    <3> SUFFICES ASSUME NEW n \in Selected(bucket), n.root = m.root, p \in n.paths
                 PROVE  Over(m, n)
      BY DEF Wins
    <3>1. n \in bucket /\ At(n, v.place) # {}
      BY <2>2 DEF At, Selected
    <3> QED
      BY <2>1, <3>1 DEF WinsPlace, FromActions
  <2>6. Entry(m, p) \in Versions(Selected(bucket))
    BY <2>4, <2>5, WinnerListed
  <2> QED
    BY <2>1, <2>2, <2>6 DEF Entry
<1> QED
  BY OutputsInvariance, <1>1, PTL

-----------------------------------------------------------------------------
(* 2. RootMapping                                                          *)

Prefixes == {PrefixOf[r] : r \in JobRoots}
PlacedNames == [prefix : Seq(Prefixes), path : Names]
PlacedFile(files) == [root : AllRoots, name : PlacedNames, of : files]
MapEntry == [from : JobRoots, to : LocalDirs]
OfTheJob(files) == \A x \in files : x.root \in JobRoots /\ x.path \in Names
KeysDiffer(ms) == \A i, j \in 1..Len(ms) : ms[i].from = ms[j].from => i = j

(* Where and under which name a file is after one mapping.                 *)
MovedFile(placed, m, s) ==
  IF s.root # m.from THEN s
  ELSE [s EXCEPT !.root = m.to, !.name = IF Collides(placed, m, s) THEN Prefixed(m.from, @) ELSE @]

(* In a turn of the loop, t becomes s.                                     *)
Becomes(placed, m, t, s) ==
  /\ s.of = t.of
  /\ s.root = IF t.root = m.from THEN m.to ELSE t.root
  /\ s.name.path = t.name.path
  /\ s.name.prefix =
       IF Collides(placed, m, t) THEN <<PrefixOf[m.from]>> \o t.name.prefix ELSE t.name.prefix

(* What becomes of a file that is placed when a mapping is applied.        *)
LEMMA MovedFileFields ==
  ASSUME NEW files, NEW placed, NEW m \in MapEntry, NEW s \in PlacedFile(files)
  PROVE  /\ MovedFile(placed, m, s) \in PlacedFile(files)
         /\ Becomes(placed, m, s, MovedFile(placed, m, s))
<1>1. /\ s.name \in PlacedNames /\ s.root \in AllRoots /\ s.of \in files
      /\ s = [root |-> s.root, name |-> s.name, of |-> s.of]
      /\ s.name.prefix \in Seq(Prefixes) /\ s.name.path \in Names
      /\ s.name = [prefix |-> s.name.prefix, path |-> s.name.path]
  BY DEF PlacedFile, PlacedNames
<1>2. m.from \in JobRoots /\ m.to \in AllRoots /\ PrefixOf[m.from] \in Prefixes
  BY DEF MapEntry, AllRoots, Prefixes
<1> DEFINE q == <<PrefixOf[m.from]>> \o s.name.prefix
           n == IF Collides(placed, m, s) THEN Prefixed(m.from, s.name) ELSE s.name
<1>3. q \in Seq(Prefixes)
  BY <1>1, <1>2
<1>4. Prefixed(m.from, s.name) = [prefix |-> q, path |-> s.name.path]
  BY <1>1 DEF Prefixed
<1> HIDE DEF q
<1>5. /\ n \in PlacedNames /\ n.path = s.name.path
      /\ n.prefix = IF Collides(placed, m, s) THEN q ELSE s.name.prefix
  BY <1>1, <1>3, <1>4 DEF PlacedNames
<1> HIDE DEF n
<1>6. CASE s.root # m.from
  BY <1>1, <1>6 DEF MovedFile, Collides, Becomes
<1>7. CASE s.root = m.from
  <2>1. MovedFile(placed, m, s) = [root |-> m.to, name |-> n, of |-> s.of]
    BY <1>1, <1>7 DEF MovedFile, n
  <2>2. MovedFile(placed, m, s) \in PlacedFile(files)
    BY <1>1, <1>2, <1>5, <2>1 DEF PlacedFile
  <2> QED
    BY <1>5, <1>7, <2>1, <2>2 DEF q, Becomes
<1> QED
  BY <1>6, <1>7

(* Moved is what becomes of all the files that are placed.                 *)
LEMMA MovedIsMoved ==
  ASSUME NEW placed, NEW m
  PROVE  Moved(placed, m) = {MovedFile(placed, m, s) : s \in placed}
  BY DEF Moved, MovedFile

(* A mapping leaves files of the job that are placed somewhere.            *)
LEMMA MovedType ==
  ASSUME NEW files, NEW placed \in SUBSET PlacedFile(files), NEW m \in MapEntry
  PROVE  Moved(placed, m) \in SUBSET PlacedFile(files)
<1>1. \A s \in placed : MovedFile(placed, m, s) \in PlacedFile(files)
  BY MovedFileFields
<1> QED
  BY <1>1, MovedIsMoved

(* At home are files of the job, each where its manifest has it.           *)
LEMMA AtHomeType ==
  ASSUME NEW files, OfTheJob(files)
  PROVE  AtHome(files) \in SUBSET PlacedFile(files)
<1> SUFFICES ASSUME NEW x \in files
             PROVE  [root |-> x.root, name |-> [prefix |-> << >>, path |-> x.path], of |-> x] \in PlacedFile(files)
  BY DEF AtHome
<1>1. x.root \in AllRoots /\ x.path \in Names
  BY DEF OfTheJob, AllRoots
<1> QED
  BY <1>1 DEF PlacedFile, PlacedNames

(* _rebuild goes from the groups of the job through the mappings.          *)
LEMMA PlacedLoop ==
  ASSUME NEW files, OfTheJob(files), NEW ms \in Seq(MapEntry)
  PROVE  /\ Placed(files, ms) \in [0..Len(ms) -> SUBSET PlacedFile(files)]
         /\ Placed(files, ms)[0] = AtHome(files)
         /\ \A n \in 1..Len(ms) : Placed(files, ms)[n] = Moved(Placed(files, ms)[n - 1], ms[n])
<1> DEFINE N == Len(ms)
           X == SUBSET PlacedFile(files)
           c == AtHome(files)
           Turn(i, x) == Moved(x, ms[i])
           G == [i \in 1..N |-> [x \in X |-> Turn(i, x)]]
           D(f) == [n \in 0..N |-> IF n = 0 THEN c ELSE Turn(n, f[n - 1])]
           d == CHOOSE f : f = D(f)
<1>1. N \in Nat /\ c \in X
  BY AtHomeType
<1>2. \A i \in 1..N, x \in X : Turn(i, x) \in X
  <2>1. \A i \in 1..N : ms[i] \in MapEntry
    OBVIOUS
  <2> QED
    BY <2>1, MovedType
<1>3. Placed(files, ms) = d
  BY DEF Placed
<1> HIDE DEF N, X, c, Turn
<1>4. PICK f \in [0..N -> X] : f[0] = c /\ \A i \in 1..N : f[i] = G[i][f[i - 1]]
  <2>1. G \in [1..N -> [X -> X]]
    BY <1>2
  <2> HIDE DEF G
  <2> QED
    BY <1>1, <2>1, LoopExists
<1>5. \A i \in 1..N : f[i] = Turn(i, f[i - 1])
  <2> SUFFICES ASSUME NEW i \in 1..N PROVE f[i] = Turn(i, f[i - 1])
    OBVIOUS
  <2>1. f[i - 1] \in X
    BY <1>1
  <2> QED
    BY <1>4, <2>1
<1>6. f = D(f)
  BY <1>1, <1>4, <1>5
<1>7. d = D(d)
  <2> HIDE DEF D
  <2> QED
    BY <1>6
<1> HIDE DEF d
<1>8. d[0] = c /\ \A i \in 1..N : d[i] = Turn(i, d[i - 1])
  BY <1>1, <1>7
<1>9. d \in [0..N -> X]
  <2> DEFINE T == {n \in 0..N : d[n] \in X}
  <2>1. 0 \in T
    BY <1>1, <1>8
  <2>2. \A n \in 0..(N - 1) : n \in T => n + 1 \in T
    <3> SUFFICES ASSUME NEW n \in 0..(N - 1), d[n] \in X PROVE n + 1 \in 0..N /\ d[n + 1] \in X
      OBVIOUS
    <3>1. n + 1 \in 1..N /\ n + 1 - 1 = n
      BY <1>1
    <3> QED
      BY <1>1, <1>2, <1>8, <3>1
  <2>3. \A n \in 0..N : n \in T
    <3> HIDE DEF T
    <3> QED
      BY <1>1, <2>1, <2>2, Induct
  <2>4. d = [n \in 0..N |-> IF n = 0 THEN c ELSE Turn(n, d[n - 1])]
    BY <1>7
  <2> QED
    BY <2>3, <2>4
<1> QED
  BY <1>3, <1>8, <1>9 DEF N, X, Turn, c

(* Placed files that agree in everything are one.                          *)
LEMMA SameFile ==
  ASSUME NEW files, NEW s \in PlacedFile(files), NEW u \in PlacedFile(files),
         s.of = u.of, s.root = u.root, s.name = u.name
  PROVE  s = u
  BY DEF PlacedFile

(* Names that agree in prefix and path are one.                            *)
LEMMA SameName ==
  ASSUME NEW files, NEW s \in PlacedFile(files), NEW u \in PlacedFile(files),
         s.name.prefix = u.name.prefix, s.name.path = u.name.path
  PROVE  s.name = u.name
<1>1. s.name \in PlacedNames /\ u.name \in PlacedNames
  BY DEF PlacedFile
<1> QED
  BY <1>1 DEF PlacedNames

(* The files before and after the n-th mapping are placed files of the     *)
(* job.                                                                    *)
LEMMA StageOf ==
  ASSUME NEW files, OfTheJob(files), NEW ms \in Seq(MapEntry), NEW n \in 0..(Len(ms) - 1)
  PROVE  /\ n \in Nat /\ n + 1 \in 1..Len(ms) /\ n + 1 \in 0..Len(ms) /\ n \in 0..Len(ms)
         /\ ms[n + 1] \in MapEntry
         /\ Placed(files, ms)[n] \in SUBSET PlacedFile(files)
         /\ Placed(files, ms)[n + 1] \in SUBSET PlacedFile(files)
<1>1. n \in Nat /\ n + 1 \in 1..Len(ms) /\ n + 1 \in 0..Len(ms) /\ n \in 0..Len(ms)
  OBVIOUS
<1>2. ms[n + 1] \in MapEntry
  BY <1>1
<1>3. Placed(files, ms) \in [0..Len(ms) -> SUBSET PlacedFile(files)]
  BY PlacedLoop
<1> QED
  BY <1>1, <1>2, <1>3

(* Every file is somewhere after a mapping, and nothing else is.           *)
LEMMA TurnOf ==
  ASSUME NEW files, OfTheJob(files), NEW ms \in Seq(MapEntry), NEW n \in 0..(Len(ms) - 1)
  PROVE  /\ \A t \in Placed(files, ms)[n] : \E s \in Placed(files, ms)[n + 1] :
              Becomes(Placed(files, ms)[n], ms[n + 1], t, s)
         /\ \A s \in Placed(files, ms)[n + 1] : \E t \in Placed(files, ms)[n] :
              Becomes(Placed(files, ms)[n], ms[n + 1], t, s)
<1> DEFINE before == Placed(files, ms)[n]
           after == Placed(files, ms)[n + 1]
           m == ms[n + 1]
<1>1. before \in SUBSET PlacedFile(files) /\ m \in MapEntry
  BY StageOf
<1>2. after = Moved(before, m)
  <2>1. n + 1 \in 1..Len(ms) /\ n + 1 - 1 = n
    BY StageOf
  <2> QED
    BY <2>1, PlacedLoop
<1> HIDE DEF before, after, m
<1>3. after = {MovedFile(before, m, t) : t \in before}
  BY <1>2, MovedIsMoved
<1>4. ASSUME NEW t \in before PROVE Becomes(before, m, t, MovedFile(before, m, t))
  <2>1. t \in PlacedFile(files)
    BY <1>1
  <2> QED
    BY <1>1, <2>1, MovedFileFields
<1>5. \A t \in before : \E s \in after : Becomes(before, m, t, s)
  BY <1>3, <1>4
<1>6. \A s \in after : \E t \in before : Becomes(before, m, t, s)
  BY <1>3, <1>4
<1> QED
  BY <1>5, <1>6 DEF before, after, m

(* Every file of the job is placed once, wherever its root is sent.        *)
EachOnce(placed, files) ==
  /\ \A s, u \in placed : s.of = u.of => s = u
  /\ \A x \in files : \E s \in placed : s.of = x
  /\ \A s \in placed : s.name.path = s.of.path

(* At home every file is in its own root, once, without a prefix.          *)
LEMMA AtHomeFields ==
  ASSUME NEW files, OfTheJob(files)
  PROVE  /\ \A s \in AtHome(files) : /\ s.of \in files /\ s.root = s.of.root
                                     /\ s.name.path = s.of.path /\ s.name.prefix = << >>
         /\ \A s, u \in AtHome(files) : s.of = u.of => s = u
         /\ \A x \in files : \E s \in AtHome(files) : s.of = x
<1> DEFINE Home(x) == [root |-> x.root, name |-> [prefix |-> << >>, path |-> x.path], of |-> x]
<1>1. AtHome(files) = {Home(x) : x \in files}
  BY DEF AtHome
<1>2. \A x \in files : /\ Home(x).of = x /\ Home(x).root = x.root
                       /\ Home(x).name.path = x.path /\ Home(x).name.prefix = << >>
  OBVIOUS
<1> HIDE DEF Home
<1> QED
  BY <1>1, <1>2

(* However many mappings are applied, every file is placed once.           *)
LEMMA EveryFilePlaced ==
  ASSUME NEW files, OfTheJob(files), NEW ms \in Seq(MapEntry)
  PROVE  \A n \in 0..Len(ms) : EachOnce(Placed(files, ms)[n], files)
<1> DEFINE P == Placed(files, ms)
           N == Len(ms)
           T == {n \in 0..N : EachOnce(P[n], files)}
<1>1. 0 \in T
  <2>1. P[0] = AtHome(files)
    BY PlacedLoop
  <2>2. EachOnce(AtHome(files), files)
    BY AtHomeFields DEF EachOnce
  <2> QED
    BY <2>1, <2>2
<1>2. ASSUME NEW n \in 0..(N - 1), n \in T PROVE n + 1 \in T
  <2> DEFINE before == P[n]
             after == P[n + 1]
             m == ms[n + 1]
  <2>1. /\ n + 1 \in 0..N /\ m \in MapEntry
        /\ before \in SUBSET PlacedFile(files) /\ after \in SUBSET PlacedFile(files)
    BY StageOf
  <2>2. \A t \in before : \E s \in after : Becomes(before, m, t, s)
    BY TurnOf
  <2>3. \A s \in after : \E t \in before : Becomes(before, m, t, s)
    BY TurnOf
  <2>4. EachOnce(before, files)
    BY <1>2
  <2> HIDE DEF before, after, m
  <2>5. ASSUME NEW s \in after, NEW u \in after, s.of = u.of PROVE s = u
    <3>1. PICK s0 \in before : Becomes(before, m, s0, s)
      BY <2>3
    <3>2. PICK u0 \in before : Becomes(before, m, u0, u)
      BY <2>3
    <3>3. s0 = u0
      <4>1. s0.of = u0.of
        BY <2>5, <3>1, <3>2 DEF Becomes
      <4> QED
        BY <2>4, <4>1 DEF EachOnce
    <3>4. s.root = u.root /\ s.name.prefix = u.name.prefix /\ s.name.path = u.name.path
      BY <3>1, <3>2, <3>3 DEF Becomes
    <3>5. s \in PlacedFile(files) /\ u \in PlacedFile(files)
      BY <2>1
    <3>6. s.name = u.name
      BY <3>4, <3>5, SameName
    <3> QED
      BY <2>5, <3>4, <3>5, <3>6, SameFile
  <2>6. \A x \in files : \E s \in after : s.of = x
    BY <2>2, <2>4 DEF EachOnce, Becomes
  <2>7. \A s \in after : s.name.path = s.of.path
    BY <2>3, <2>4 DEF EachOnce, Becomes
  <2>8. EachOnce(after, files)
    BY <2>5, <2>6, <2>7 DEF EachOnce
  <2> QED
    BY <2>1, <2>8 DEF after
<1>3. \A n \in 0..N : n \in T
  <2> HIDE DEF T
  <2> QED
    BY <1>1, <1>2, Induct
<1> QED
  BY <1>3

(* Two files of different roots get the same name in one place only if two *)
(* of the roots are alike as prefixes: a file is named after the root it   *)
(* was last sent away from, from which it is sent once.                    *)
PrefixesDiffer(ms) ==
  \A i, j \in 1..Len(ms) : PrefixOf[ms[i].from] = PrefixOf[ms[j].from] => i = j

ToldApart(placed, ms, n) ==
  /\ \A s, u \in placed : s.root = u.root /\ s.name = u.name => s.of.root = u.of.root
  /\ \A s \in placed : Len(s.name.prefix) # 0 =>
       \E j \in 1..n : Head(s.name.prefix) = PrefixOf[ms[j].from]

(* If prefixes differ, files that meet in one directory keep different     *)
(* names.                                                                  *)
LEMMA NamesToldApart ==
  ASSUME NEW files, OfTheJob(files), NEW ms \in Seq(MapEntry), PrefixesDiffer(ms)
  PROVE  \A n \in 0..Len(ms) : ToldApart(Placed(files, ms)[n], ms, n)
<1> DEFINE P == Placed(files, ms)
           N == Len(ms)
           T == {n \in 0..N : ToldApart(P[n], ms, n)}
<1>1. 0 \in T
  <2>1. P[0] = AtHome(files)
    BY PlacedLoop
  <2>2. ToldApart(AtHome(files), ms, 0)
    BY AtHomeFields DEF ToldApart
  <2> QED
    BY <2>1, <2>2
<1>2. ASSUME NEW n \in 0..(N - 1), n \in T PROVE n + 1 \in T
  <2> DEFINE before == P[n]
             after == P[n + 1]
             m == ms[n + 1]
  <2>1. /\ n \in Nat /\ n + 1 \in 0..N /\ n + 1 \in 1..N /\ m \in MapEntry
        /\ before \in SUBSET PlacedFile(files) /\ after \in SUBSET PlacedFile(files)
    BY StageOf
  <2>2. \A s \in after : \E t \in before : Becomes(before, m, t, s)
    BY TurnOf
  <2>3. ToldApart(before, ms, n)
    BY <1>2
  <2>4. \A j \in 1..n : PrefixOf[ms[j].from] # PrefixOf[m.from]
    <3>1. \A j \in 1..n : j \in 1..N /\ j # n + 1
      BY <2>1
    <3> QED
      BY <2>1, <3>1 DEF PrefixesDiffer
  <2> HIDE DEF before, after
  <2> DEFINE q == PrefixOf[m.from]
  <2>5. q \in Prefixes
    BY <2>1 DEF MapEntry, Prefixes
  <2>6. \A t \in before : Len(t.name.prefix) # 0 => Head(t.name.prefix) # q
    BY <2>3, <2>4 DEF ToldApart
  <2>7. \A t \in before : t.name.prefix \in Seq(Prefixes)
    BY <2>1 DEF PlacedFile, PlacedNames
  <2> HIDE DEF q
  <2>8. ASSUME NEW p \in Seq(Prefixes)
        PROVE  Len(<<q>> \o p) # 0 /\ Head(<<q>> \o p) = q /\ Tail(<<q>> \o p) = p
    <3>1. Len(<<q>> \o p) = Len(p) + 1 /\ (<<q>> \o p) \in Seq(Prefixes)
      BY <2>5
    <3>2. \A i \in 1..Len(p) : (<<q>> \o p)[i + 1] = p[i]
      OBVIOUS
    <3> QED
      BY <2>5, <3>1, <3>2
  <2>9. ASSUME NEW s \in after, NEW u \in after, s.root = u.root, s.name = u.name
        PROVE  s.of.root = u.of.root
    <3>1. PICK s0 \in before : Becomes(before, m, s0, s)
      BY <2>2
    <3>2. PICK u0 \in before : Becomes(before, m, u0, u)
      BY <2>2
    <3> DEFINE cs == Collides(before, m, s0)
               cu == Collides(before, m, u0)
    <3>3. s.of = s0.of /\ u.of = u0.of
      BY <3>1, <3>2 DEF Becomes
    <3>4. /\ s.root = IF s0.root = m.from THEN m.to ELSE s0.root
          /\ u.root = IF u0.root = m.from THEN m.to ELSE u0.root
      BY <3>1, <3>2 DEF Becomes
    <3>5. s0.name.path = u0.name.path
      BY <2>9, <3>1, <3>2 DEF Becomes
    <3>6. (IF cs THEN <<q>> \o s0.name.prefix ELSE s0.name.prefix)
             = (IF cu THEN <<q>> \o u0.name.prefix ELSE u0.name.prefix)
      BY <2>9, <3>1, <3>2 DEF Becomes, q
    <3>7. s0.name.prefix \in Seq(Prefixes) /\ u0.name.prefix \in Seq(Prefixes)
      BY <2>7
    <3>8. CASE cs <=> cu
      <4>1. s0.name.prefix = u0.name.prefix
        <5> HIDE DEF cs, cu
        <5>1. CASE cs /\ cu
          <6>1. <<q>> \o s0.name.prefix = <<q>> \o u0.name.prefix
            BY <3>6, <5>1
          <6> QED
            BY <2>8, <3>7, <6>1
        <5>2. CASE ~cs /\ ~cu
          BY <3>6, <5>2
        <5> QED
          BY <3>8, <5>1, <5>2
      <4>2. s0.name = u0.name
        <5>1. s0 \in PlacedFile(files) /\ u0 \in PlacedFile(files)
          BY <2>1
        <5> QED
          BY <3>5, <4>1, <5>1, SameName
      <4>3. s0.root = u0.root
        <5> SUFFICES ASSUME s0.root # u0.root PROVE FALSE
          OBVIOUS
        <5>1. \/ s0.root = m.from /\ u0.root = m.to /\ m.to # m.from
              \/ u0.root = m.from /\ s0.root = m.to /\ m.to # m.from
          BY <2>9, <3>4
        <5>2. CASE s0.root = m.from /\ u0.root = m.to /\ m.to # m.from
          <6>1. cs /\ ~cu
            BY <4>2, <5>2 DEF Collides, NamesAt
          <6> QED
            BY <3>8, <6>1
        <5>3. CASE u0.root = m.from /\ s0.root = m.to /\ m.to # m.from
          <6>1. cu /\ ~cs
            BY <4>2, <5>3 DEF Collides, NamesAt
          <6> QED
            BY <3>8, <6>1
        <5> QED
          BY <5>1, <5>2, <5>3
      <4> QED
        BY <2>3, <3>3, <4>2, <4>3 DEF ToldApart
    <3> HIDE DEF cs, cu
    <3>9. CASE cs /\ ~cu
      <4>1. <<q>> \o s0.name.prefix = u0.name.prefix
        BY <3>6, <3>9
      <4> QED
        BY <2>6, <2>8, <3>7, <4>1
    <3>10. CASE ~cs /\ cu
      <4>1. <<q>> \o u0.name.prefix = s0.name.prefix
        BY <3>6, <3>10
      <4> QED
        BY <2>6, <2>8, <3>7, <4>1
    <3> QED
      BY <3>8, <3>9, <3>10
  <2>10. ASSUME NEW s \in after, Len(s.name.prefix) # 0
         PROVE  \E j \in 1..(n + 1) : Head(s.name.prefix) = PrefixOf[ms[j].from]
    <3>1. PICK t \in before : Becomes(before, m, t, s)
      BY <2>2
    <3>2. CASE Collides(before, m, t)
      <4>1. s.name.prefix = <<q>> \o t.name.prefix
        BY <3>1, <3>2 DEF Becomes, q
      <4>2. Head(s.name.prefix) = PrefixOf[ms[n + 1].from]
        BY <2>7, <2>8, <4>1 DEF q
      <4> QED
        BY <2>1, <4>2
    <3>3. CASE ~Collides(before, m, t)
      <4>1. s.name.prefix = t.name.prefix
        BY <3>1, <3>3 DEF Becomes
      <4>2. PICK j \in 1..n : Head(t.name.prefix) = PrefixOf[ms[j].from]
        BY <2>3, <2>10, <4>1 DEF ToldApart
      <4> QED
        BY <2>1, <4>1, <4>2
    <3> QED
      BY <3>2, <3>3
  <2>11. ToldApart(after, ms, n + 1)
    BY <2>9, <2>10 DEF ToldApart
  <2> QED
    BY <2>1, <2>11 DEF after
<1>3. \A n \in 0..N : n \in T
  <2> HIDE DEF T
  <2> QED
    BY <1>1, <1>2, Induct
<1> QED
  BY <1>3

(* A file is where a mapping sent it, or at home, which is not mapped.     *)
Routed(placed, ms, n) ==
  \A s \in placed : \/ \E j \in 1..n : s.root = ms[j].to
                    \/ s.root = s.of.root /\ \A j \in 1..n : ms[j].from # s.root

(* At every turn of the loop a file is in a directory that a mapping so    *)
(* far leads to, or at home in a root that none of them moves.             *)
LEMMA EveryFileRouted ==
  ASSUME NEW files, OfTheJob(files), NEW ms \in Seq(MapEntry)
  PROVE  \A n \in 0..Len(ms) : Routed(Placed(files, ms)[n], ms, n)
<1> DEFINE P == Placed(files, ms)
           N == Len(ms)
           T == {n \in 0..N : Routed(P[n], ms, n)}
<1>1. 0 \in T
  <2>1. P[0] = AtHome(files)
    BY PlacedLoop
  <2>2. Routed(AtHome(files), ms, 0)
    BY AtHomeFields DEF Routed
  <2> QED
    BY <2>1, <2>2
<1>2. ASSUME NEW n \in 0..(N - 1), n \in T PROVE n + 1 \in T
  <2> DEFINE before == P[n]
             after == P[n + 1]
  <2>1. n \in Nat /\ n + 1 \in 0..N /\ n + 1 \in 1..N
    BY StageOf
  <2>2. \A s \in after : \E t \in before : Becomes(before, ms[n + 1], t, s)
    BY TurnOf
  <2>3. Routed(before, ms, n)
    BY <1>2
  <2> HIDE DEF before, after
  <2>4. ASSUME NEW s \in after
        PROVE  \/ \E j \in 1..(n + 1) : s.root = ms[j].to
               \/ s.root = s.of.root /\ \A j \in 1..(n + 1) : ms[j].from # s.root
    <3>1. PICK t \in before : Becomes(before, ms[n + 1], t, s)
      BY <2>2
    <3>2. CASE t.root = ms[n + 1].from
      <4>1. s.root = ms[n + 1].to
        BY <3>1, <3>2 DEF Becomes
      <4> QED
        BY <2>1, <4>1
    <3>3. CASE t.root # ms[n + 1].from
      <4>1. s.root = t.root /\ s.of = t.of
        BY <3>1, <3>3 DEF Becomes
      <4>2. CASE \E j \in 1..n : t.root = ms[j].to
        BY <2>1, <4>1, <4>2
      <4>3. CASE t.root = t.of.root /\ \A j \in 1..n : ms[j].from # t.root
        <5>1. \A j \in 1..(n + 1) : j \in 1..n \/ j = n + 1
          BY <2>1
        <5> QED
          BY <3>3, <4>1, <4>3, <5>1
      <4> QED
        BY <2>3, <4>2, <4>3 DEF Routed
    <3> QED
      BY <3>2, <3>3
  <2>5. Routed(after, ms, n + 1)
    BY <2>4 DEF Routed
  <2> QED
    BY <2>1, <2>5 DEF after
<1>3. \A n \in 0..N : n \in T
  <2> HIDE DEF T
  <2> QED
    BY <1>1, <1>2, Induct
<1> QED
  BY <1>3

(* The dictionary before and after its entry m is set: what is different   *)
(* is entry i.                                                             *)
Differ(ms, after, i, m) ==
  /\ i \in 1..Len(after) /\ after[i] = m
  /\ \/ Len(after) = Len(ms) /\ ms[i].from = m.from
     \/ /\ Len(after) = Len(ms) + 1 /\ i = Len(ms) + 1
        /\ \A j \in 1..Len(ms) : ms[j].from # m.from
  /\ \A j \in 1..Len(ms) : j # i => after[j] = ms[j]

(* A mapping that is set replaces the one of its root or comes last.       *)
LEMMA WithMappingSets ==
  ASSUME NEW ms \in Seq(MapEntry), KeysDiffer(ms), NEW m \in MapEntry
  PROVE  /\ WithMapping(ms, m) \in Seq(MapEntry)
         /\ \E i \in 1..Len(WithMapping(ms, m)) : Differ(ms, WithMapping(ms, m), i, m)
<1>1. CASE IndexIn(ms, m.from) = {}
  <2>1. WithMapping(ms, m) = Append(ms, m)
    BY <1>1 DEF WithMapping
  <2>2. \A j \in 1..Len(ms) : ms[j].from # m.from
    BY <1>1 DEF IndexIn
  <2>3. Differ(ms, Append(ms, m), Len(ms) + 1, m)
    BY <2>2 DEF Differ
  <2>4. Append(ms, m) \in Seq(MapEntry) /\ Len(ms) + 1 \in 1..Len(Append(ms, m))
    OBVIOUS
  <2> QED
    BY <2>1, <2>3, <2>4
<1>2. CASE IndexIn(ms, m.from) # {}
  <2> DEFINE i == CHOOSE i \in IndexIn(ms, m.from) : TRUE
             after == [ms EXCEPT ![i] = m]
  <2>1. i \in 1..Len(ms) /\ ms[i].from = m.from
    <3>1. i \in IndexIn(ms, m.from)
      BY <1>2
    <3> QED
      BY <3>1 DEF IndexIn
  <2>2. WithMapping(ms, m) = after
    BY <1>2 DEF WithMapping
  <2> HIDE DEF i
  <2>3. after \in Seq(MapEntry) /\ Len(after) = Len(ms) /\ after[i] = m
    BY <2>1
  <2>4. \A j \in 1..Len(ms) : j # i => after[j] = ms[j]
    BY <2>1
  <2> HIDE DEF after
  <2>5. Differ(ms, after, i, m)
    BY <2>1, <2>3, <2>4 DEF Differ
  <2> QED
    BY <2>1, <2>2, <2>3, <2>5
<1> QED
  BY <1>1, <1>2

(* The mappings of other roots stay as they are, and no root has two.      *)
LEMMA DifferKeys ==
  ASSUME NEW ms \in Seq(MapEntry), KeysDiffer(ms), NEW m \in MapEntry,
         NEW after \in Seq(MapEntry), NEW i \in 1..Len(after), Differ(ms, after, i, m)
  PROVE  /\ KeysDiffer(after)
         /\ \A j \in 1..Len(after) : j # i => j \in 1..Len(ms) /\ after[j] = ms[j] /\ after[j].from # m.from
         /\ \A j \in 1..Len(ms) : j \in 1..Len(after) /\ after[j].from = ms[j].from
<1>1. \A j \in 1..Len(after) : j # i => j \in 1..Len(ms)
  BY DEF Differ
<1>2. \A j \in 1..Len(after) : j # i => after[j] = ms[j]
  BY <1>1 DEF Differ
<1>3. \A j \in 1..Len(after) : j # i => after[j].from # m.from
  <2> SUFFICES ASSUME NEW j \in 1..Len(after), j # i PROVE ms[j].from # m.from
    BY <1>2
  <2>1. CASE Len(after) = Len(ms) /\ ms[i].from = m.from
    BY <1>1, <2>1 DEF KeysDiffer
  <2>2. CASE \A k \in 1..Len(ms) : ms[k].from # m.from
    BY <1>1, <2>2
  <2> QED
    BY <2>1, <2>2 DEF Differ
<1>4. \A j \in 1..Len(ms) : j \in 1..Len(after) /\ after[j].from = ms[j].from
  BY DEF Differ
<1>5. KeysDiffer(after)
  <2> SUFFICES ASSUME NEW j \in 1..Len(after), NEW k \in 1..Len(after), after[j].from = after[k].from
               PROVE  j = k
    BY DEF KeysDiffer
  <2>1. after[i].from = m.from
    BY DEF Differ
  <2>2. CASE j = i \/ k = i
    BY <1>3, <2>1, <2>2
  <2>3. CASE j # i /\ k # i
    BY <1>1, <1>2, <2>3 DEF KeysDiffer
  <2> QED
    BY <2>2, <2>3
<1> QED
  BY <1>1, <1>2, <1>3, <1>4, <1>5

(* Where the files of a root are that is sent to another directory, when   *)
(* nothing is sent on from there.                                          *)
SentOnIn(ms, r) == \E i \in 1..Len(ms) : ms[i].from = r /\ ms[i].to # r

(* After a mapping of a root is set, and unless its target is itself       *)
(* mapped on, the files of the root are in the target.                     *)
LEMMA SentThere ==
  ASSUME NEW files, OfTheJob(files), NEW ms \in Seq(MapEntry), KeysDiffer(ms), NEW m \in MapEntry,
         NEW after \in Seq(MapEntry), NEW i \in 1..Len(after), Differ(ms, after, i, m),
         ~SentOnIn(ms, m.to)
  PROVE  \A u \in Placed(files, after)[Len(after)] : u.of.root = m.from => u.root = m.to
<1> DEFINE P == Placed(files, after)
           N == Len(after)
           Right(n) == \A u \in P[n] :
                         u.of.root = m.from => u.root = IF n < i THEN m.from ELSE m.to
           T == {n \in 0..N : Right(n)}
<1>1. 0 \in T
  <2>1. P[0] = AtHome(files)
    BY PlacedLoop
  <2>2. \A u \in AtHome(files) : u.root = u.of.root
    BY AtHomeFields
  <2> QED
    BY <2>1, <2>2
<1>2. ASSUME NEW n \in 0..(N - 1), n \in T PROVE n + 1 \in T
  <2>1. n \in Nat /\ n + 1 \in 0..N /\ n + 1 \in 1..N /\ i \in Nat
    BY StageOf
  <2>2. \A s \in P[n + 1] : \E t \in P[n] : Becomes(P[n], after[n + 1], t, s)
    BY TurnOf
  <2>3. Right(n)
    BY <1>2
  <2> SUFFICES ASSUME NEW u \in P[n + 1], u.of.root = m.from
               PROVE  u.root = IF n + 1 < i THEN m.from ELSE m.to
    BY <2>1
  <2>4. PICK t \in P[n] : Becomes(P[n], after[n + 1], t, u)
    BY <2>2
  <2>5. /\ u.root = IF t.root = after[n + 1].from THEN after[n + 1].to ELSE t.root
        /\ t.of.root = m.from
    BY <2>4 DEF Becomes
  <2>6. t.root = IF n < i THEN m.from ELSE m.to
    BY <2>3, <2>5
  <2>7. CASE n + 1 = i
    <3>1. after[n + 1] = m
      BY <2>7 DEF Differ
    <3> QED
      BY <2>1, <2>5, <2>6, <2>7, <3>1
  <2>8. CASE n + 1 # i
    <3>1. /\ n + 1 \in 1..Len(ms) /\ after[n + 1] = ms[n + 1] /\ after[n + 1].from # m.from
      BY <2>1, <2>8, DifferKeys
    <3>2. CASE n + 1 < i
      <4>1. t.root = m.from
        BY <2>1, <2>6, <3>2
      <4> QED
        BY <2>1, <2>5, <3>1, <3>2, <4>1
    <3>3. CASE n + 1 > i
      <4>1. t.root = m.to
        BY <2>1, <2>6, <3>3
      <4>2. ms[n + 1].from = m.to => ms[n + 1].to = m.to
        BY <3>1 DEF SentOnIn
      <4>3. u.root = m.to
        BY <2>5, <3>1, <4>1, <4>2
      <4> QED
        BY <2>1, <3>3, <4>3
    <3> QED
      BY <2>1, <2>8, <3>2, <3>3
  <2> QED
    BY <2>7, <2>8
<1>3. \A n \in 0..N : n \in T
  <2>1. N \in Nat
    OBVIOUS
  <2> HIDE DEF T, N
  <2> QED
    BY <1>1, <1>2, <2>1, Induct
<1>4. N \in 0..N /\ ~(N < i)
  OBVIOUS
<1> QED
  BY <1>3, <1>4

(* Where the other files are: where they were before the entry was set, or *)
(* they were where its root was sent to, and nothing is sent on from.      *)
Where(ms, r, old) ==
  \/ \E j \in 1..Len(ms) : ms[j].from = r /\ ms[j].to = old
  \/ r = old /\ \A j \in 1..Len(ms) : ms[j].from # r

(* The files that were not where the mapped root was sent before stay in   *)
(* their directories.                                                      *)
LEMMA OthersStay ==
  ASSUME NEW files, OfTheJob(files), NEW ms \in Seq(MapEntry), KeysDiffer(ms), NEW m \in MapEntry,
         NEW after \in Seq(MapEntry), NEW i \in 1..Len(after), Differ(ms, after, i, m),
         NEW old, Where(ms, m.from, old), ~SentOnIn(ms, old)
  PROVE  \A s \in Placed(files, ms)[Len(ms)], u \in Placed(files, after)[Len(after)] :
           s.of = u.of /\ s.root # old => u.root = s.root
<1> DEFINE P == Placed(files, ms)
           Q == Placed(files, after)
           N == Len(ms)
           Near(n) == \A s \in P[n], u \in Q[n] :
                        s.of = u.of => u.root = s.root \/ (n >= i /\ s.root = old)
           T == {n \in 0..N : Near(n)}
<1>1. 0 \in T
  <2>1. P[0] = AtHome(files) /\ Q[0] = AtHome(files)
    BY PlacedLoop
  <2>2. \A u \in AtHome(files) : u.root = u.of.root
    BY AtHomeFields
  <2> QED
    BY <2>1, <2>2
<1>2. N \in Nat /\ i \in Nat /\ (Len(after) = N \/ Len(after) = N + 1)
  BY DEF Differ
<1>3. ASSUME NEW n \in 0..(N - 1), n \in T PROVE n + 1 \in T
  <2>1. /\ n \in Nat /\ n + 1 \in 0..N /\ n + 1 \in 1..N
        /\ n \in 0..(Len(after) - 1)
    BY <1>2
  <2>2. \A s \in P[n + 1] : \E t \in P[n] : Becomes(P[n], ms[n + 1], t, s)
    BY TurnOf
  <2>3. \A s \in Q[n + 1] : \E t \in Q[n] : Becomes(Q[n], after[n + 1], t, s)
    BY <2>1, TurnOf
  <2>4. Near(n)
    BY <1>3
  <2> SUFFICES ASSUME NEW s \in P[n + 1], NEW u \in Q[n + 1], s.of = u.of
               PROVE  u.root = s.root \/ (n + 1 >= i /\ s.root = old)
    BY <2>1
  <2>5. PICK s0 \in P[n] : Becomes(P[n], ms[n + 1], s0, s)
    BY <2>2
  <2>6. PICK u0 \in Q[n] : Becomes(Q[n], after[n + 1], u0, u)
    BY <2>3
  <2>7. /\ s.root = IF s0.root = ms[n + 1].from THEN ms[n + 1].to ELSE s0.root
        /\ s0.of = s.of
    BY <2>5 DEF Becomes
  <2>8. /\ u.root = IF u0.root = after[n + 1].from THEN after[n + 1].to ELSE u0.root
        /\ u0.of = u.of
    BY <2>6 DEF Becomes
  <2>9. u0.root = s0.root \/ (n >= i /\ s0.root = old)
    BY <2>4, <2>7, <2>8
  <2>10. CASE n + 1 = i
    <3>1. after[n + 1] = m /\ ms[n + 1].from = m.from
      BY <1>2, <2>1, <2>10 DEF Differ
    <3>2. u0.root = s0.root
      BY <1>2, <2>1, <2>9, <2>10
    <3>3. ms[n + 1].to = old
      BY <2>1, <3>1 DEF Where, KeysDiffer
    <3> QED
      BY <1>2, <2>1, <2>7, <2>8, <2>10, <3>1, <3>2, <3>3
  <2>11. CASE n + 1 # i
    <3>1. after[n + 1] = ms[n + 1]
      BY <2>1, <2>11 DEF Differ
    <3>2. CASE u0.root = s0.root
      BY <2>7, <2>8, <3>1, <3>2
    <3>3. CASE n >= i /\ s0.root = old
      <4>1. ms[n + 1].from = old => ms[n + 1].to = old
        BY <2>1 DEF SentOnIn
      <4>2. s.root = old
        BY <2>7, <3>3, <4>1
      <4> QED
        BY <1>2, <2>1, <3>3, <4>2
    <3> QED
      BY <2>9, <3>2, <3>3
  <2> QED
    BY <2>10, <2>11
<1>4. \A n \in 0..N : n \in T
  <2> HIDE DEF T
  <2> QED
    BY <1>1, <1>2, <1>3, Induct
<1>5. Near(N)
  BY <1>2, <1>4
<1> SUFFICES ASSUME NEW s \in P[N], NEW u \in Q[Len(after)], s.of = u.of, s.root # old
             PROVE  u.root = s.root
  OBVIOUS
<1>6. CASE Len(after) = N
  BY <1>5, <1>6
<1>7. CASE Len(after) = N + 1
  <2>1. /\ after[N + 1] = m /\ N + 1 = i
        /\ \A j \in 1..N : ms[j].from # m.from
    BY <1>2, <1>7 DEF Differ
  <2>2. m.from = old
    BY <2>1 DEF Where
  <2>3. \A t \in Q[N + 1] : \E u0 \in Q[N] : Becomes(Q[N], after[N + 1], u0, t)
    <3>1. N \in 0..(Len(after) - 1)
      BY <1>2, <1>7
    <3> QED
      BY <3>1, TurnOf
  <2>4. PICK u0 \in Q[N] : Becomes(Q[N], after[N + 1], u0, u)
    BY <1>7, <2>3
  <2>5. /\ u.root = IF u0.root = m.from THEN m.to ELSE u0.root
        /\ u0.of = u.of
    BY <2>1, <2>4 DEF Becomes
  <2>6. u0.root = s.root
    BY <1>2, <1>5, <2>1, <2>5
  <2> QED
    BY <2>2, <2>5, <2>6
<1> QED
  BY <1>2, <1>6, <1>7

(* What a dictionary returns for a root.                                   *)
LEMMA MapOfIs ==
  ASSUME NEW ms \in Seq(MapEntry), KeysDiffer(ms)
  PROVE  /\ \A j \in 1..Len(ms) : MapOf(ms, ms[j].from) = ms[j].to
         /\ \A r : (\A j \in 1..Len(ms) : ms[j].from # r) => MapOf(ms, r) = r
<1>1. ASSUME NEW j \in 1..Len(ms) PROVE MapOf(ms, ms[j].from) = ms[j].to
  <2> DEFINE r == ms[j].from
             i == CHOOSE i \in IndexIn(ms, r) : TRUE
  <2>1. j \in IndexIn(ms, r)
    BY DEF IndexIn
  <2>2. i \in IndexIn(ms, r)
    BY <2>1
  <2>3. i = j
    BY <2>1, <2>2 DEF IndexIn, KeysDiffer
  <2>4. MapOf(ms, r) = ms[i].to
    BY <2>1 DEF MapOf
  <2> QED
    BY <2>3, <2>4
<1>2. ASSUME NEW r, \A j \in 1..Len(ms) : ms[j].from # r PROVE MapOf(ms, r) = r
  BY <1>2 DEF MapOf, IndexIn
<1> QED
  BY <1>1, <1>2

(* MapOf is where the dictionary sends a root, or the root itself.         *)
LEMMA MapOfWhere ==
  ASSUME NEW ms \in Seq(MapEntry), KeysDiffer(ms), NEW r
  PROVE  Where(ms, r, MapOf(ms, r))
<1>1. CASE \E j \in 1..Len(ms) : ms[j].from = r
  BY <1>1, MapOfIs DEF Where
<1>2. CASE \A j \in 1..Len(ms) : ms[j].from # r
  BY <1>2, MapOfIs DEF Where
<1> QED
  BY <1>1, <1>2

(* The groups that _rebuild computes when it does not raise.               *)
Once(placed, groups, files) ==
  /\ \A s, u \in placed : s.of = u.of => s = u
  /\ groups = {} => {s.of : s \in placed} = files
Meet(ms) == \E i, j \in 1..Len(ms) : i # j /\ PrefixOf[ms[i].from] = PrefixOf[ms[j].from]
Apart(placed, ms) ==
  \A s, u \in placed :
    s.root = u.root /\ s.name = u.name => (s.of.root = u.of.root \/ Meet(ms)) /\ s.of.path = u.of.path
Through(files, ms, groups) == {s \in Placed(files, ms)[Len(ms)] : Passes(groups, s)}
Shows(placed, files, ms, groups) == ~Raises(files, ms) => placed = Through(files, ms, groups)

(* What is shown after a rebuild: every file once that the filters leave,  *)
(* with names apart.                                                       *)
LEMMA Rebuilt ==
  ASSUME NEW files, OfTheJob(files), NEW ms \in Seq(MapEntry), NEW groups, ~Raises(files, ms),
         NEW placed, placed = Through(files, ms, groups)
  PROVE  placed \in SUBSET PlacedFile(files) /\ Once(placed, groups, files) /\ Apart(placed, ms)
<1> DEFINE all == Placed(files, ms)[Len(ms)]
<1>1. Len(ms) \in 0..Len(ms) /\ all \in SUBSET PlacedFile(files)
  BY PlacedLoop
<1>2. EachOnce(all, files)
  BY <1>1, EveryFilePlaced
<1>3. placed \in SUBSET PlacedFile(files) /\ placed \subseteq all /\ (groups = {} => placed = all)
  BY <1>1 DEF Passes, Through
<1>4. Apart(placed, ms)
  <2> SUFFICES ASSUME NEW s \in placed, NEW u \in placed, s.root = u.root, s.name = u.name
               PROVE  (s.of.root = u.of.root \/ Meet(ms)) /\ s.of.path = u.of.path
    BY DEF Apart
  <2>1. s \in all /\ u \in all
    BY <1>3
  <2>2. s.name.path = s.of.path /\ u.name.path = u.of.path
    BY <1>2, <2>1 DEF EachOnce
  <2>3. CASE ~Meet(ms)
    <3>1. PrefixesDiffer(ms)
      BY <2>3 DEF Meet, PrefixesDiffer
    <3>2. ToldApart(all, ms, Len(ms))
      BY <1>1, <3>1, NamesToldApart
    <3>3. s.of.root = u.of.root
      BY <2>1, <3>2 DEF ToldApart
    <3> QED
      BY <2>2, <3>3
  <2> QED
    BY <2>2, <2>3
<1>5. Once(placed, groups, files)
  <2>1. {s.of : s \in all} = files
    <3>1. \A s \in all : s.of \in files
      BY <1>1 DEF PlacedFile
    <3> HIDE DEF all
    <3> QED
      BY <1>2, <3>1 DEF EachOnce
  <2> HIDE DEF all
  <2> QED
    BY <1>2, <1>3, <2>1 DEF Once, EachOnce
<1> QED
  BY <1>3, <1>4, <1>5

(* The parts of the inductive invariant: the job's files; the roots in the *)
(* order of the dictionary, with those of all files and mappings in it;    *)
(* the mappings; nothing is there before the object is; the groups that    *)
(* are shown are computed from what was asked, and a rebuild that raises   *)
(* leaves groups that were.                                                *)
InOrderOf(roots, r) == \E k \in 1..Len(roots) : roots[k] = r
RootsOrdered ==
  /\ order \in Seq(JobRoots)
  /\ \A i, j \in 1..Len(order) : order[i] = order[j] => i = j
  /\ \A x \in initial : InOrderOf(order, x.root)
  /\ \A i \in 1..Len(maps) : InOrderOf(order, maps[i].from)
Mapped == maps \in Seq(MapEntry) /\ KeysDiffer(maps)
BeforeOpen == Len(order) = 0 => initial = {} /\ maps = << >> /\ filters = {} /\ shown = {}
Kept == /\ shown \in SUBSET PlacedFile(initial)
        /\ Once(shown, filters, initial) /\ Apart(shown, maps)
        /\ Shows(shown, initial, maps, filters)
Asked == filters \subseteq FilterGroups /\ calls \in 0..MaxCalls
MappingInv == OfTheJob(initial) /\ RootsOrdered /\ Mapped /\ BeforeOpen /\ Kept /\ Asked

(* A downloader is open when it has an order of roots.                     *)
LEMMA OpenedLength == RootsOrdered => (Opened <=> Len(order) # 0)
  BY DEF RootsOrdered, Opened

(* The empty sequence is one of any set.                                   *)
LEMMA EmptySeq ==
  ASSUME NEW S PROVE << >> \in Seq(S) /\ Len(<< >>) = 0
  OBVIOUS

(* Without mappings nothing is raised.                                     *)
LEMMA NothingMapped ==
  ASSUME NEW files, OfTheJob(files)
  PROVE  ~Raises(files, << >>) /\ << >> \in Seq(MapEntry) /\ KeysDiffer(<< >>)
<1>1. << >> \in Seq(MapEntry) /\ Len(<< >>) = 0
  BY EmptySeq
<1> QED
  BY <1>1 DEF Raises, KeysDiffer

(* Before a downloader is opened there is nothing to lose.                 *)
LEMMA InitMappingInv == MappingInit => MappingInv
<1> SUFFICES ASSUME MappingInit PROVE MappingInv
  OBVIOUS
<1>1. /\ initial = {} /\ shown = {} /\ filters = {} /\ calls = 0
      /\ order = << >> /\ maps = << >>
  BY DEF MappingInit
<1>2. OfTheJob({}) /\ Mapped
  <2>1. OfTheJob({})
    BY DEF OfTheJob
  <2>2. << >> \in Seq(MapEntry) /\ KeysDiffer(<< >>)
    BY <2>1, NothingMapped
  <2> QED
    BY <1>1, <2>1, <2>2 DEF Mapped
<1>3. RootsOrdered
  <2>1. order \in Seq(JobRoots) /\ Len(order) = 0 /\ Len(maps) = 0
    BY <1>1, EmptySeq
  <2> QED
    BY <1>1, <2>1 DEF RootsOrdered
<1>4. Kept
  <2>1. Placed({}, << >>)[0] = {}
    <3>1. Placed({}, << >>)[0] = AtHome({})
      BY <1>2, NothingMapped, PlacedLoop
    <3> QED
      BY <3>1 DEF AtHome
  <2>2. Shows({}, {}, << >>, {})
    <3>1. Len(<< >>) = 0
      BY EmptySeq
    <3> QED
      BY <2>1, <3>1 DEF Shows, Through
  <2> QED
    BY <1>1, <2>2 DEF Kept, Once, Apart
<1>5. Asked
  BY <1>1, RootMappingAssumption DEF Asked
<1> QED
  BY <1>1, <1>2, <1>3, <1>4, <1>5 DEF MappingInv, BeforeOpen

(* The constructor: an order of the roots lists each of them, once.        *)
LEMMA OrderListsRoots ==
  ASSUME NEW files, OfTheJob(files), NEW roots \in Orders({x.root : x \in files})
  PROVE  /\ roots \in Seq(JobRoots)
         /\ \A i, j \in 1..Len(roots) : roots[i] = roots[j] => i = j
         /\ \A x \in files : InOrderOf(roots, x.root)
<1> DEFINE S == {x.root : x \in files}
           D == 1..Cardinality(S)
<1>1. IsFiniteSet(S) /\ Cardinality(S) \in Nat
  <2>1. S \subseteq JobRoots
    BY DEF OfTheJob
  <2> HIDE DEF S
  <2> QED
    BY <2>1, RootMappingAssumption, FS_Subset, FS_CardinalityType
<1>2. roots \in [D -> S] /\ \A i, j \in D : i # j => roots[i] # roots[j]
  BY DEF Orders
<1>3. S \subseteq JobRoots /\ \A x \in files : x.root \in S
  BY DEF OfTheJob
<1> HIDE DEF S
<1>4. roots \in Surjection(D, S)
  <2>1. Cardinality(D) = Cardinality(S)
    BY <1>1, FS_Interval
  <2>2. roots \in Injection(D, S)
    BY <1>2 DEF Injection, IsInjective
  <2> HIDE DEF D
  <2> QED
    BY <1>1, <2>1, <2>2, FS_Injection
<1>5. roots \in Seq(JobRoots) /\ Len(roots) = Cardinality(S)
  BY <1>1, <1>2, <1>3
<1>6. \A r \in S : \E k \in D : roots[k] = r
  BY <1>4 DEF Surjection
<1> QED
  BY <1>2, <1>3, <1>5, <1>6 DEF InOrderOf

(* A downloader begins with every file at home.                            *)
LEMMA ConstructMappingInv ==
  ASSUME MappingInv, NEW files, files # {}, OfTheJob(files),
         NEW roots \in Orders({x.root : x \in files}), Construct(files, roots)
  PROVE  MappingInv'
<1>1. Len(order) = 0
  BY OpenedLength DEF MappingInv, Construct
<1>2. maps = << >> /\ filters = {} /\ calls' = calls
  BY <1>1 DEF MappingInv, BeforeOpen, Construct
<1>3. initial' = files /\ order' = roots /\ maps' = << >> /\ filters' = {}
  BY <1>2 DEF Construct
<1>4. ~Raises(files, << >>) /\ << >> \in Seq(MapEntry) /\ KeysDiffer(<< >>)
  BY NothingMapped
<1>5. shown' = Through(files, << >>, {})
  BY <1>4 DEF Construct, Rebuild, Through
<1>6. /\ shown' \in SUBSET PlacedFile(files) /\ Once(shown', {}, files)
      /\ Apart(shown', << >>)
  BY <1>4, <1>5, Rebuilt
<1>7. Shows(shown', files, << >>, {})
  BY <1>5 DEF Shows
<1>8. Kept'
  BY <1>3, <1>6, <1>7 DEF Kept
<1>9. RootsOrdered'
  <2>1. Len(maps') = 0
    BY <1>3, EmptySeq
  <2> QED
    BY <1>3, <2>1, OrderListsRoots DEF RootsOrdered
<1>10. BeforeOpen'
  <2>1. Len(order') # 0
    <3>1. PICK x \in files : TRUE
      OBVIOUS
    <3>2. InOrderOf(roots, x.root) /\ roots \in Seq(JobRoots)
      BY OrderListsRoots
    <3> QED
      BY <1>3, <3>2 DEF InOrderOf
  <2> QED
    BY <2>1 DEF BeforeOpen
<1>11. Asked' /\ Mapped'
  BY <1>2, <1>3, <1>4 DEF Asked, Mapped, MappingInv
<1> QED
  BY <1>3, <1>8, <1>9, <1>10, <1>11 DEF MappingInv

(* A rebuild: what is shown from now on, or still shown if it raises.      *)
LEMMA RebuildKept ==
  ASSUME NEW files, OfTheJob(files), NEW ms \in Seq(MapEntry), NEW groups, NEW was, NEW before,
         NEW gs, was \in SUBSET PlacedFile(files), Once(was, gs, files), groups = {} => gs = {},
         Apart(was, before), Meet(before) => Meet(ms),
         NEW now, now = Rebuild(files, ms, groups, was)
  PROVE  /\ now \in SUBSET PlacedFile(files) /\ Once(now, groups, files)
         /\ Apart(now, ms) /\ Shows(now, files, ms, groups)
<1>1. CASE Raises(files, ms)
  <2>1. now = was
    BY <1>1 DEF Rebuild
  <2> QED
    BY <1>1, <2>1 DEF Once, Apart, Shows
<1>2. CASE ~Raises(files, ms)
  <2>1. now = Through(files, ms, groups)
    BY <1>2 DEF Rebuild, Through
  <2>2. Shows(now, files, ms, groups)
    BY <2>1 DEF Shows
  <2> QED
    BY <1>2, <2>1, <2>2, Rebuilt
<1> QED
  BY <1>1, <1>2

(* A mapping keeps the files, their names and the order of the roots.      *)
LEMMA SetRootPathMappingInv ==
  ASSUME MappingInv, NEW old \in AllRoots, NEW new \in LocalDirs, SetRootPath(old, new)
  PROVE  MappingInv'
<1>1. PICK k \in Meant(old) : maps' = WithMapping(maps, [from |-> order[k], to |-> new])
  BY DEF SetRootPath
<1> DEFINE m == [from |-> order[k], to |-> new]
<1>2. k \in 1..Len(order) /\ m \in MapEntry /\ m.from = order[k]
  BY <1>1 DEF Meant, MappingInv, RootsOrdered, MapEntry
<1>3. maps \in Seq(MapEntry) /\ KeysDiffer(maps)
  BY DEF MappingInv, Mapped
<1> HIDE DEF m
<1>4. maps' = WithMapping(maps, m)
  BY <1>1 DEF m
<1>5. maps' \in Seq(MapEntry)
  BY <1>2, <1>3, <1>4, WithMappingSets
<1>6. PICK i \in 1..Len(maps') : Differ(maps, maps', i, m)
  BY <1>2, <1>3, <1>4, WithMappingSets
<1>7. /\ KeysDiffer(maps')
      /\ \A j \in 1..Len(maps') : j # i => j \in 1..Len(maps) /\ maps'[j] = maps[j]
      /\ \A j \in 1..Len(maps) : j \in 1..Len(maps') /\ maps'[j].from = maps[j].from
  BY <1>2, <1>3, <1>5, <1>6, DifferKeys
<1>8. Meet(maps) => Meet(maps')
  BY <1>7 DEF Meet
<1>9. initial' = initial /\ order' = order /\ filters' = filters /\ calls' \in 0..MaxCalls
  BY RootMappingAssumption DEF SetRootPath, MappingInv, Asked
<1>10. shown' = Rebuild(initial, maps', filters, shown)
  BY DEF SetRootPath
<1>11. /\ shown' \in SUBSET PlacedFile(initial) /\ Once(shown', filters, initial)
       /\ Apart(shown', maps') /\ Shows(shown', initial, maps', filters)
  BY <1>5, <1>8, <1>10, RebuildKept DEF MappingInv, Kept
<1>12. Kept'
  BY <1>9, <1>11 DEF Kept
<1>13. RootsOrdered'
  <2>1. ASSUME NEW j \in 1..Len(maps') PROVE InOrderOf(order, maps'[j].from)
    <3>1. CASE j = i
      <4>1. maps'[j].from = order[k]
        BY <1>2, <1>6, <3>1 DEF Differ
      <4> QED
        BY <1>2, <4>1 DEF InOrderOf
    <3>2. CASE j # i
      BY <1>7, <3>2 DEF MappingInv, RootsOrdered
    <3> QED
      BY <3>1, <3>2
  <2> QED
    BY <1>9, <2>1 DEF RootsOrdered, MappingInv
<1>14. BeforeOpen'
  <2>1. Len(order) # 0
    BY OpenedLength DEF MappingInv, SetRootPath
  <2> QED
    BY <1>9, <2>1 DEF BeforeOpen
<1> QED
  BY <1>5, <1>7, <1>9, <1>12, <1>13, <1>14 DEF MappingInv, Mapped, Asked

(* So do filters, but for the files they leave out.                        *)
LEMMA ApplyIncludeFiltersMappingInv ==
  ASSUME MappingInv, NEW G \in FilterGroups, ApplyIncludeFilters(G)
  PROVE  MappingInv'
<1>1. initial' = initial /\ order' = order /\ maps' = maps /\ calls' \in 0..MaxCalls
  BY RootMappingAssumption DEF ApplyIncludeFilters, MappingInv, Asked
<1>2. filters' = filters \cup {G} /\ shown' = Rebuild(initial, maps, filters', shown)
  BY DEF ApplyIncludeFilters
<1>3. filters' = {} => filters = {}
  BY <1>2
<1>4. /\ shown' \in SUBSET PlacedFile(initial) /\ Once(shown', filters', initial)
      /\ Apart(shown', maps) /\ Shows(shown', initial, maps, filters')
  BY <1>2, <1>3, RebuildKept DEF MappingInv, Kept, Mapped
<1>5. Kept'
  BY <1>1, <1>4 DEF Kept
<1>6. BeforeOpen'
  <2>1. Len(order) # 0
    BY OpenedLength DEF MappingInv, ApplyIncludeFilters
  <2> QED
    BY <1>1, <2>1 DEF BeforeOpen
<1> QED
  BY <1>1, <1>2, <1>5, <1>6 DEF MappingInv, Mapped, Asked, RootsOrdered

(* What the invariant says about the calls that are still to come.         *)
LEMMA MeantFirst ==
  ASSUME MappingInv, NEW old, NEW k \in 1..Len(order), MapOf(maps, order[k]) = old
  PROVE  Meant(old) # {}
<1> DEFINE S == {n \in 1..Len(order) : MapOf(maps, order[n]) = old}
<1>1. S \in SUBSET Nat /\ S # {}
  BY DEF MappingInv, RootsOrdered
<1>2. PICK n \in S : \A j \in S : n <= j
  <2> HIDE DEF S
  <2> QED
    BY <1>1, Least
<1>3. \A j \in 1..(n - 1) : MapOf(maps, order[j]) # old
  <2> SUFFICES ASSUME NEW j \in 1..(n - 1), MapOf(maps, order[j]) = old PROVE FALSE
    OBVIOUS
  <2>1. j \in S
    BY <1>2 DEF MappingInv, RootsOrdered
  <2> QED
    BY <1>1, <1>2, <2>1
<1> QED
  BY <1>2, <1>3 DEF Meant

(* What is shown is in a directory that a root is sent to.                 *)
LEMMA ShownIsMeant == MappingInv => ShownCanMove
<1> SUFFICES ASSUME MappingInv, ~Stuck, NEW s \in shown PROVE Meant(s.root) # {}
  BY DEF ShownCanMove
<1>1. s \in Placed(initial, maps)[Len(maps)]
  BY DEF MappingInv, Kept, Shows, Through, Stuck
<1>2. maps \in Seq(MapEntry) /\ KeysDiffer(maps) /\ OfTheJob(initial) /\ Len(maps) \in 0..Len(maps)
  BY DEF MappingInv, Mapped
<1>3. Routed(Placed(initial, maps)[Len(maps)], maps, Len(maps))
  BY <1>2, EveryFileRouted
<1>4. CASE \E j \in 1..Len(maps) : s.root = maps[j].to
  <2>1. PICK j \in 1..Len(maps) : s.root = maps[j].to
    BY <1>4
  <2>2. PICK k \in 1..Len(order) : order[k] = maps[j].from
    BY DEF MappingInv, RootsOrdered, InOrderOf
  <2>3. MapOf(maps, order[k]) = s.root
    BY <1>2, <2>1, <2>2, MapOfIs
  <2> QED
    BY <2>3, MeantFirst
<1>5. CASE s.root = s.of.root /\ \A j \in 1..Len(maps) : maps[j].from # s.root
  <2>1. s.of \in initial
    BY DEF MappingInv, Kept, PlacedFile
  <2>2. PICK k \in 1..Len(order) : order[k] = s.of.root
    BY <2>1 DEF MappingInv, RootsOrdered, InOrderOf
  <2>3. MapOf(maps, order[k]) = s.root
    BY <1>2, <1>5, <2>2, MapOfIs
  <2> QED
    BY <2>3, MeantFirst
<1> QED
  BY <1>1, <1>3, <1>4, <1>5 DEF Routed

(* A call of set_root_path sends what it was asked to.                     *)
LEMMA EveryCallSends ==
  ASSUME MappingInv, NEW old \in AllRoots, NEW new \in LocalDirs
  PROVE  SentAsAsked(old, new)
<1> SUFFICES ASSUME SetRootPath(old, new), filters = {}, ~Stuck, ~Stuck',
                    NEW k \in Meant(old), NEW u \in shown'
             PROVE  /\ u.of.root = order[k] => u.root = new \/ SentOn(new)
                    /\ u.of.root # order[k] =>
                         \A s \in shown : s.of = u.of /\ s.root # old => u.root = s.root \/ SentOn(old)
  BY DEF SentAsAsked
<1> DEFINE m == [from |-> order[k], to |-> new]
<1>1. maps' = WithMapping(maps, m)
  <2>1. PICK n \in Meant(old) : maps' = WithMapping(maps, [from |-> order[n], to |-> new])
    BY DEF SetRootPath
  <2>2. /\ k \in 1..Len(order) /\ n \in 1..Len(order)
        /\ MapOf(maps, order[k]) = old /\ MapOf(maps, order[n]) = old
        /\ \A j \in 1..(k - 1) : MapOf(maps, order[j]) # old
        /\ \A j \in 1..(n - 1) : MapOf(maps, order[j]) # old
    BY DEF Meant
  <2>3. Len(order) \in Nat
    BY DEF MappingInv, RootsOrdered
  <2>4. n = k
    <3>1. ~(n < k) /\ ~(k < n)
      BY <2>2, <2>3
    <3> QED
      BY <2>2, <2>3, <3>1
  <2> QED
    BY <2>1, <2>4
<1>2. m \in MapEntry /\ m.from = order[k] /\ m.to = new /\ MapOf(maps, order[k]) = old
  BY DEF Meant, MappingInv, RootsOrdered, MapEntry
<1> HIDE DEF m
<1>3. maps \in Seq(MapEntry) /\ KeysDiffer(maps) /\ OfTheJob(initial)
  BY DEF MappingInv, Mapped
<1>4. maps' \in Seq(MapEntry)
  BY <1>1, <1>2, <1>3, WithMappingSets
<1>5. PICK i \in 1..Len(maps') : Differ(maps, maps', i, m)
  BY <1>1, <1>2, <1>3, WithMappingSets
<1>6. initial' = initial /\ filters' = {}
  BY DEF SetRootPath
<1>7. u \in Placed(initial, maps')[Len(maps')]
  <2>1. shown' = Rebuild(initial, maps', filters, shown)
    BY DEF SetRootPath
  <2>2. ~Raises(initial, maps')
    BY <1>6 DEF Stuck
  <2> QED
    BY <2>1, <2>2 DEF Rebuild
<1>8. \A s \in shown : s \in Placed(initial, maps)[Len(maps)]
  BY DEF MappingInv, Kept, Shows, Through, Stuck
<1>9. \A r : SentOn(r) <=> SentOnIn(maps, r)
  BY DEF SentOn, SentOnIn
<1>10. u.of.root = order[k] => u.root = new \/ SentOn(new)
  <2>1. ASSUME ~SentOnIn(maps, m.to)
        PROVE  \A v \in Placed(initial, maps')[Len(maps')] : v.of.root = m.from => v.root = m.to
    BY <1>2, <1>3, <1>4, <1>5, <2>1, SentThere
  <2> QED
    BY <1>2, <1>7, <1>9, <2>1
<1>11. ASSUME NEW s \in shown, s.of = u.of, s.root # old PROVE u.root = s.root \/ SentOn(old)
  <2>1. Where(maps, m.from, old)
    BY <1>2, <1>3, MapOfWhere
  <2>2. ASSUME ~SentOnIn(maps, old)
        PROVE  \A v \in Placed(initial, maps)[Len(maps)], w \in Placed(initial, maps')[Len(maps')] :
                 v.of = w.of /\ v.root # old => w.root = v.root
    BY <1>2, <1>3, <1>4, <1>5, <2>1, <2>2, OthersStay
  <2> QED
    BY <1>7, <1>8, <1>9, <1>11, <2>2
<1> QED
  BY <1>10, <1>11

-----------------------------------------------------------------------------
(* 3. OutputDownloads                                                      *)

Inv == OutputsInv /\ MappingInv

(* What a downloader is opened on are files of the job.                    *)
LEMMA ListedOfTheJob ==
  ASSUME OutputsTypeOK, NEW ms \in SUBSET bucket
  PROVE  OfTheJob(Listed(ms)) /\ \A files \in Merges(ms) : OfTheJob(files)
<1>1. \A m \in bucket : m.root \in JobRoots /\ m.paths \subseteq Names
  BY OutputDownloadsAssumption DEF OutputsTypeOK, Manifests
<1>2. \A x \in Listed(ms) : x.root \in JobRoots /\ x.path \in Names
  <2> SUFFICES ASSUME NEW x \in Listed(ms) PROVE x.root \in JobRoots /\ x.path \in Names
    OBVIOUS
  <2>1. PICK m \in ms : \E p \in m.paths : x = Entry(m, p)
    BY DEF Listed
  <2> QED
    BY <1>1, <2>1 DEF Entry
<1>3. \A x \in Versions(ms) : x.root \in JobRoots /\ x.path \in Names
  <2> SUFFICES ASSUME NEW x \in Versions(ms) PROVE x.root \in JobRoots /\ x.path \in Names
    OBVIOUS
  <2>1. PICK m \in ms : \E p \in m.paths : x = Entry(m, p)
    BY DEF Versions
  <2> QED
    BY <1>1, <2>1 DEF Entry
<1>4. \A files \in Merges(ms) : files \subseteq Versions(ms)
  BY DEF Merges
<1> QED
  BY <1>2, <1>3, <1>4 DEF OfTheJob

(* A downloader is opened with files of the job that really were listed.   *)
LEMMA OpenInv ==
  ASSUME Inv, NEW files, OfTheJob(files), Open(files)
  PROVE  Inv'
<1>1. MappingInv'
  BY ConstructMappingInv DEF Inv, Open
<1>2. OutputsInv'
  BY NextOutputsInv DEF Inv, Open
<1> QED
  BY <1>1, <1>2 DEF Inv

(* Every step of the job and of the downloader keeps the invariant.        *)
LEMMA NextInv == Inv /\ [Next]_vars => Inv'
<1> SUFFICES ASSUME Inv, [Next]_vars PROVE Inv'
  OBVIOUS
<1>1. OutputsTypeOK
  BY DEF Inv, OutputsInv
<1>2. ASSUME UNCHANGED mappingVars PROVE MappingInv'
  BY <1>2 DEF Inv, MappingInv, mappingVars, RootsOrdered, Mapped, BeforeOpen, Kept, Asked
<1>3. ASSUME UNCHANGED outputVars PROVE OutputsInv'
  BY <1>3, NextOutputsInv DEF Inv
<1>4. CASE OutputsNext /\ UNCHANGED mappingVars
  BY <1>2, <1>4, NextOutputsInv DEF Inv
<1>5. CASE OpenInputs
  <2>1. PICK files \in InputGroups : Open(files)
    BY <1>5 DEF OpenInputs
  <2>2. OfTheJob(files)
    BY OutputDownloadsAssumption DEF OfTheJob
  <2> QED
    BY <2>1, <2>2, OpenInv
<1>6. CASE OpenJob
  <2>1. Selected(bucket) \in SUBSET bucket
    BY DEF Selected
  <2> QED
    BY <1>1, <1>6, <2>1, ListedOfTheJob, OpenInv DEF OpenJob
<1>7. ASSUME NEW s, OpenStep(s) PROVE Inv'
  <2>1. Selected(InStep(s)) \in SUBSET bucket
    BY DEF Selected, InStep
  <2> QED
    BY <1>1, <1>7, <2>1, ListedOfTheJob, OpenInv DEF OpenStep
<1>8. ASSUME NEW t, OpenTask(t) PROVE Inv'
  <2>1. Selected(InTask(t)) \in SUBSET bucket
    BY DEF Selected, InTask
  <2> QED
    BY <1>1, <1>8, <2>1, ListedOfTheJob, OpenInv DEF OpenTask
<1>9. ASSUME NEW u, NEW a, OpenAction(u, a) PROVE Inv'
  <2>1. ByAction(u, a) \in SUBSET bucket
    BY DEF ByAction, OfAction, InTask, InStep
  <2> QED
    BY <1>1, <1>9, <2>1, ListedOfTheJob, OpenInv DEF OpenAction
<1>10. CASE MappingNext /\ UNCHANGED outputVars
  BY <1>3, <1>10, SetRootPathMappingInv, ApplyIncludeFiltersMappingInv DEF Inv, MappingNext
<1>11. CASE UNCHANGED vars
  BY <1>2, <1>3, <1>11 DEF Inv, vars
<1> QED
  BY <1>4, <1>5, <1>6, <1>7, <1>8, <1>9, <1>10, <1>11 DEF Next

(* The inductive invariant of the composition holds.                       *)
LEMMA Invariance == Spec => []Inv
<1>1. Init => Inv
  BY InitOutputsInv, InitMappingInv DEF Init, Inv
<1> QED
  BY <1>1, NextInv, PTL DEF Spec

(* Of the job nothing is read any more once the object is there: what was  *)
(* proved of the job's life holds of it beside any object.                 *)
LEMMA JobLivesOn == Spec => OutputsSpec
<1>1. Init => OutputsInit
  BY DEF Init
<1>2. [Next]_vars => [OutputsNext]_outputVars
  BY DEF Next, vars, Open, OpenInputs, OpenJob, OpenStep, OpenTask, OpenAction
<1> QED
  BY <1>1, <1>2, PTL DEF Spec, OutputsSpec

(* The state of the job and of the object has its type.                    *)
THEOREM TypeCorrect == Spec => []TypeOK
<1>1. ASSUME Inv PROVE TypeOK
  <2>1. OutputsTypeOK
    BY <1>1 DEF Inv, OutputsInv
  <2>2. \A x \in initial : x.root \in JobRoots /\ x.path \in Names
    BY <1>1 DEF Inv, MappingInv, OfTheJob
  <2>3. \A i, j \in 1..Len(order) : order[i] \in JobRoots /\ (order[i] = order[j] => i = j)
    BY <1>1 DEF Inv, MappingInv, RootsOrdered
  <2>4. \A i, j \in 1..Len(maps) :
          /\ maps[i].from \in JobRoots /\ maps[i].to \in LocalDirs
          /\ maps[i].from = maps[j].from => i = j
    <3>1. maps \in Seq(MapEntry) /\ KeysDiffer(maps)
      BY <1>1 DEF Inv, MappingInv, Mapped
    <3>2. \A i \in 1..Len(maps) : maps[i] \in MapEntry
      BY <3>1
    <3> QED
      BY <3>1, <3>2 DEF MapEntry, KeysDiffer
  <2>5. \A s \in shown : s.root \in AllRoots /\ s.of \in initial
    BY <1>1 DEF Inv, MappingInv, Kept, PlacedFile
  <2>6. filters \subseteq FilterGroups /\ calls \in 0..MaxCalls
    BY <1>1 DEF Inv, MappingInv, Asked
  <2> QED
    BY <2>1, <2>2, <2>3, <2>4, <2>5, <2>6 DEF TypeOK, MappingTypeOK
<1> QED
  BY Invariance, <1>1, PTL

(* Whatever is sent wherever, in whatever order, and whichever calls raise *)
(* in between, every file of the job is shown once, unless a filter keeps  *)
(* it out.                                                                 *)
THEOREM NoFileLost == Spec => []NothingLost
<1>1. Inv => NothingLost
  BY DEF Inv, MappingInv, Kept, Once, NothingLost
<1> QED
  BY Invariance, <1>1, PTL

(* Sending roots to one directory gives two of their files the same name   *)
(* only if two of the roots that were sent are alike as prefixes.          *)
THEOREM NamesStayApart == Spec => []NamesApart
<1>1. Inv => NamesApart
  BY DEF Inv, MappingInv, Kept, Apart, NamesApart, Meet, PrefixesMeet
<1> QED
  BY Invariance, <1>1, PTL

(* The user can go on moving every root that is shown.                     *)
THEOREM EveryShownCanMove == Spec => []ShownCanMove
<1>1. Inv => ShownCanMove
  BY ShownIsMeant DEF Inv
<1> QED
  BY Invariance, <1>1, PTL

(* A call sends the files that are meant where it was asked to and leaves  *)
(* the others where they were, unless the directory is itself sent on.     *)
THEOREM MovesAsAsked == Spec => MovedWhereAsked
<1>1. Inv => [\A old \in AllRoots, new \in LocalDirs : SentAsAsked(old, new)]_mappingVars
  BY EveryCallSends DEF Inv
<1> QED
  BY Invariance, <1>1, PTL DEF MovedWhereAsked

(* Beside an object, the job's outputs are listed as without one.          *)
THEOREM ListingsStayRight ==
  Spec => [](AttemptsNotMixed /\ LastAttemptCounts /\ StepsAgree /\ IncrementalAgrees)
BY JobLivesOn, OneAttemptListed, LastAttemptListed, StepsAlwaysAgree, IncrementalAlwaysAgrees, PTL
=============================================================================
