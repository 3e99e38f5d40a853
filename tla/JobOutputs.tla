------------------------------ MODULE JobOutputs ------------------------------
(***************************************************************************)
(* The output manifests of a job.  Workers run session actions and upload, *)
(* for every asset root an action has outputs in, one manifest whose key   *)
(* names the step, the task (not for chunks), the time the worker started  *)
(* the action at and the action; the bucket notes when it got the object.  *)
(* The readers list the keys and decide which manifests count: the outputs *)
(* of a job, a step or a task, those of one session action, and those an   *)
(* incremental download of the queue merges.  An action stands for the     *)
(* version of the files it wrote.                                          *)
(***************************************************************************)
EXTENDS Naturals, FiniteSets

CONSTANTS
  Actions,      \* session actions
  UnitOf,       \* UnitOf[a]: the task that a runs, or the step a chunk of which it runs
  Tasks,        \* the units whose keys have a task folder
  StepOf,       \* StepOf[u]: the step of a unit
  Extends,      \* Extends[a]: a, and the actions whose id begins with the id of a
  LastRoot,     \* the job's attachments have the roots 1 .. LastRoot
  Paths,        \* paths of outputs, relative to their root
  OutputSets,   \* OutputSets[a][r]: the sets of outputs that a may have in root r
  Places,       \* absolute paths on the machine that downloads
  PlaceOf,      \* PlaceOf[r][p]: where path p of root r belongs
  Unmapped,     \* no place: no rule maps it, or it is outside the root
  Skews,        \* Skews[a]: by how much the clock of a's worker may be ahead
  MaxTime       \* bound on the clock

Roots == 1..LastRoot
Units == {UnitOf[a] : a \in Actions}

ASSUME JobOutputsAssumption ==
  /\ DOMAIN UnitOf = Actions /\ DOMAIN StepOf = Units /\ Tasks \subseteq Units
  /\ Extends \in [Actions -> SUBSET Actions] /\ \A a \in Actions : a \in Extends[a]
  /\ LastRoot \in Nat /\ MaxTime \in Nat /\ Skews \in [Actions -> SUBSET Nat]
  /\ OutputSets \in [Actions -> [Roots -> SUBSET SUBSET Paths]]
  /\ PlaceOf \in [Roots -> [Paths -> Places \cup {Unmapped}]] /\ Unmapped \notin Places

VARIABLES
  clock,   \* the bucket's clock
  stamp,   \* the time its worker saw when it started
  next,    \* the root sync_outputs visits next
  state,   \* where the action is
  began,   \* history: the attempts of its unit that began before it
  bucket   \* the output manifests

workVars == <<stamp, next, state, began>>
outputVars == <<clock, workVars, bucket>>

Manifests == [action : Actions, root : Roots, modified : Nat, paths : SUBSET Paths]
Attempts(u) == {a \in Actions : UnitOf[a] = u /\ state[a] # "waiting"}

OutputsTypeOK ==
  /\ clock \in Nat
  /\ stamp \in [Actions -> Nat]
  /\ next \in [Actions -> 1..(LastRoot + 1)]
  /\ state \in [Actions -> {"waiting", "running", "done", "failed"}]
  /\ began \in [Actions -> SUBSET Actions]
  /\ bucket \subseteq Manifests

OutputsInit ==
  /\ clock = 0
  /\ stamp = [a \in Actions |-> 0]
  /\ next = [a \in Actions |-> 1]
  /\ state = [a \in Actions |-> "waiting"]
  /\ began = [a \in Actions |-> {}]
  /\ bucket = {}

-----------------------------------------------------------------------------
(* A worker starts an action.  A task may be tried again at any moment: a  *)
(* worker that is taken for lost may still be at it.  Times are read to    *)
(* the microsecond, in which no two attempts of a unit start.  An id ends  *)
(* with the action's number in its session, whose actions run in turn.     *)
Start(a, skew) ==
  /\ state[a] = "waiting"
  /\ \A b \in Actions \ {a} : a \in Extends[b] => state[b] \in {"done", "failed"}
  /\ \A b \in Attempts(UnitOf[a]) : stamp[b] # clock + skew
  /\ state' = [state EXCEPT ![a] = "running"]
  /\ stamp' = [stamp EXCEPT ![a] = clock + skew]
  /\ began' = [began EXCEPT ![a] = Attempts(UnitOf[a])]
  /\ UNCHANGED <<clock, next, bucket>>

(* One turn of the loop of sync_outputs: a root without outputs gets no    *)
(* manifest.                                                               *)
SyncRoot(a, outputs) ==
  /\ state[a] = "running" /\ next[a] <= LastRoot
  /\ outputs \in OutputSets[a][next[a]]
  /\ next' = [next EXCEPT ![a] = @ + 1]
  /\ bucket' = IF outputs = {} THEN bucket
               ELSE bucket \cup
                      {[action |-> a, root |-> next[a], modified |-> clock, paths |-> outputs]}
  /\ UNCHANGED <<clock, stamp, state, began>>

(* The files are uploaded after all the manifests.                         *)
SyncDone(a) ==
  /\ state[a] = "running" /\ next[a] > LastRoot
  /\ state' = [state EXCEPT ![a] = "done"]
  /\ UNCHANGED <<clock, stamp, next, began, bucket>>

(* The hash, an upload or the worker fails: the other roots are not        *)
(* visited.                                                                *)
SyncFails(a) ==
  /\ state[a] = "running"
  /\ state' = [state EXCEPT ![a] = "failed"]
  /\ UNCHANGED <<clock, stamp, next, began, bucket>>

Tick ==
  /\ clock < MaxTime
  /\ clock' = clock + 1
  /\ UNCHANGED <<workVars, bucket>>

OutputsNext ==
  \/ \E a \in Actions : \E skew \in Skews[a] : Start(a, skew)
  \/ \E a \in Actions, outputs \in SUBSET Paths : SyncRoot(a, outputs)
  \/ \E a \in Actions : SyncDone(a) \/ SyncFails(a)
  \/ Tick

OutputsSpec == OutputsInit /\ [][OutputsNext]_outputVars

-----------------------------------------------------------------------------
Entry(m, p) == [root |-> m.root, path |-> p, version |-> m.action]
Listed(ms) == UNION {{Entry(m, p) : p \in m.paths} : m \in ms}

(* The prefixes that are listed.                                           *)
InStepTasksOnly(s) == {m \in bucket : StepOf[UnitOf[m.action]] = s /\ UnitOf[m.action] \in Tasks}
InStep(s) == {m \in bucket : StepOf[UnitOf[m.action]] = s}
InTask(t) == {m \in bucket : UnitOf[m.action] = t /\ t \in Tasks}

(* _get_tasks_manifests_keys_from_s3: of every task folder the last        *)
(* subfolder by name, which begins with the stamp; of chunks, everything.  *)
LaterPerRoot(m, n) == n.root = m.root => stamp[n.action] <= stamp[m.action]
LaterByUpload(m, n) == n.modified <= m.modified
NotBefore(m, n) == stamp[n.action] <= stamp[m.action]
SameTask(m, n) == UnitOf[m.action] \in Tasks /\ UnitOf[n.action] = UnitOf[m.action]
Selected(ms) == {m \in ms : \A n \in ms : SameTask(m, n) => NotBefore(m, n)}

(* Merging in the order of LastModified, a later version over an earlier   *)
(* one.  Among equal times the order of the listing decides: any may win.  *)
Over(m, n) == n.modified <= m.modified
Wins(ms, m, p) == \A n \in ms : n.root = m.root /\ p \in n.paths => Over(m, n)
Versions(ms) == UNION {{Entry(m, p) : p \in {q \in m.paths : Wins(ms, m, q)}} : m \in ms}

(* _get_manifests_by_session_action_id: the keys with the action's id in   *)
(* them, under the task's prefix or else under the step's; not merged.     *)
OfAction(ms, a) == {m \in ms : m.action \in Extends[a]}
ByAction(u, a) ==
  LET inTask == OfAction(InTask(u), a)
  IN  IF inTask # {} THEN inTask ELSE OfAction(InStep(StepOf[u]), a)

(* _add_output_manifests_from_s3: every manifest of the session actions    *)
(* that an incremental download was told of, whose ids it reads from the   *)
(* keys.                                                                   *)
FromActions(as) == {m \in bucket : m.action \in as}

(* _merge_absolute_path_manifest_list: merged after their paths have been  *)
(* made absolute.                                                          *)
At(m, place) == {p \in m.paths : PlaceOf[m.root][p] = place}
WinsPlaceUnsorted(ms, m, place) == TRUE
WinsPlace(ms, m, place) == \A n \in ms : At(n, place) # {} => Over(m, n)
Incremental(as) ==
  {v \in [place : Places, version : Actions] :
     \E m \in FromActions(as) :
       m.action = v.version /\ At(m, v.place) # {} /\ WinsPlace(FromActions(as), m, v.place)}

-----------------------------------------------------------------------------
(* Safety.  What an OutputDownloader, a dependent step and an incremental  *)
(* download would be given if they asked now.                              *)

(* The files a download lists for a task are of one attempt, whatever      *)
(* attempts ran beside each other and whichever roots each got to.         *)
AttemptsNotMixed ==
  \A v, w \in Versions(Selected(bucket)) :
    UnitOf[v.version] = UnitOf[w.version] /\ UnitOf[v.version] \in Tasks => v.version = w.version

(* Worker clocks put the attempts of a task in the order they began in.    *)
InOrder(t) ==
  \A a \in Attempts(t) : \A b \in began[a] : stamp[b] < stamp[a]

(* When the attempt of a task that began last has synced its outputs, each *)
(* of them is listed, or a version no older than it; and no attempt that   *)
(* began before it is, even if its manifests came later.  An attempt       *)
(* without outputs leaves no trace, so it does not count.                  *)
Last(a) ==
  /\ state[a] = "done" /\ \E m \in bucket : m.action = a
  /\ \A b \in Attempts(UnitOf[a]) : a \notin began[b]
LastAttemptCounts ==
  \A a \in Actions : Last(a) /\ UnitOf[a] \in Tasks /\ InOrder(UnitOf[a]) =>
    /\ \A v \in Versions(Selected(bucket)) : v.version \notin began[a]
    /\ \A m \in bucket : m.action = a => \A p \in m.paths :
         \E n \in Selected(bucket) :
           n.root = m.root /\ n.modified >= m.modified /\ Entry(n, p) \in Versions(Selected(bucket))

(* What the download of the whole job lists of a step is what the steps    *)
(* that depend on that one are given.                                      *)
StepsAgree ==
  \A v \in Versions(Selected(bucket)) : v \in Versions(Selected(InStep(StepOf[UnitOf[v.version]])))

(* As long as no task has outputs of two attempts, an incremental download *)
(* puts a version in a place that the job's download would put there, if   *)
(* it was told of all the actions that have outputs in that place.         *)
IncrementalAgrees ==
  (\A m, n \in bucket : SameTask(m, n) => m.action = n.action)
    => \A as \in SUBSET Actions : \A v \in Incremental(as) :
         (\A m \in bucket : At(m, v.place) # {} => m.action \in as)
           => \E w \in Versions(Selected(bucket)) :
                w.version = v.version /\ PlaceOf[w.root][w.path] = v.place

(* Asked for a session action that is done, a download lists the outputs   *)
(* of no other (download.py:802, "retrieves outputs for that specific      *)
(* session action").                                                       *)
ExactAction ==
  \A a \in Actions : state[a] = "done" => \A m \in ByAction(UnitOf[a], a) : m.action = a
=============================================================================
