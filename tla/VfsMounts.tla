------------------------------ MODULE VfsMounts ------------------------------
(***************************************************************************)
(* VFSProcessManager and mount_vfs_from_manifests: the virtual file        *)
(* systems of one session.  A session mounts one VFS process per asset     *)
(* root; a later input sync replaces each by one that serves the merged    *)
(* manifest; cleanup_session unmounts them all.  What is mounted is known  *)
(* from a text file in the session directory, one "mount:pid:manifest"     *)
(* line per process, which every operation reads and rewrites.  A manifest *)
(* is represented by the set of input syncs whose files it lists.          *)
(***************************************************************************)
EXTENDS Naturals, FiniteSets, Sequences, SequencesExt

CONSTANTS
  Mounts,     \* the mount points a session may use
  MaxSyncs,   \* bound on the input syncs of the session
  MaxFaults,  \* bound on what goes wrong in the session
  NoFile, NoMount,
  Faults      \* what may go wrong: VFS processes are "given_up", come up
              \* "late" or die ("dies"), fusermount3 "left" a file system
              \* mounted (or is not installed), or "fails"

ASSUME VfsAssumption ==
  /\ IsFiniteSet(Mounts) /\ NoMount \notin Mounts
  /\ MaxSyncs \in Nat /\ MaxFaults \in Nat
  /\ NoFile \notin Seq(Seq([mount : Mounts, manifest : SUBSET (1..MaxSyncs)]))
  /\ Faults \subseteq {"given_up", "late", "dies", "left", "fails"}

VARIABLES
  roots,    \* the mount points of the session: the local roots of its job
  phase,    \* where the worker is
  sync,     \* the number of the input sync
  todo,     \* the roots this sync still has to mount
  mount,    \* the root being mounted
  final,    \* the manifest it is to be mounted with
  stack,    \* per mount point, the manifests mounted there, the visible one last
  late,     \* VFS processes that were given up before they had mounted
  pidFile,  \* the lines of the pid file; a line is a sequence of entries
  rest,     \* the lines the cleanup still has to read
  faults    \* history: how often a VFS process or fusermount3 has misbehaved

vars == <<roots, phase, sync, todo, mount, final, stack, late, pidFile, rest, faults>>

Manifest == SUBSET (1..MaxSyncs)
Entry == [mount : Mounts, manifest : Manifest]
Line(e) == <<e>>
WellFormed(l) == Len(l) = 1
IsMount(m) == stack[m] # <<>>
Ended == {"closed", "closed_raised"}

TypeOK ==
  /\ roots \subseteq Mounts
  /\ phase \in {"ready", "next", "kill", "start", "record", "cleanup"} \cup Ended
  /\ sync \in 0..MaxSyncs
  /\ todo \subseteq roots /\ mount \in Mounts \cup {NoMount}
  /\ final \in Manifest
  /\ stack \in [Mounts -> Seq(Manifest)]
  /\ late \subseteq Entry
  /\ pidFile \in Seq(Seq(Entry)) \cup {NoFile}
  /\ rest \in Seq(Seq(Entry))
  /\ faults \in 0..MaxFaults
  /\ phase \in {"kill", "start", "record"} => mount \in todo /\ sync \in final

Init ==
  /\ roots \in SUBSET Mounts
  /\ phase = "ready" /\ sync = 0 /\ todo = {} /\ mount = NoMount /\ final = {}
  /\ stack = [m \in Mounts |-> <<>>]
  /\ late = {} /\ pidFile = NoFile /\ rest = <<>> /\ faults = 0

Lines == IF pidFile = NoFile THEN <<>> ELSE pidFile

(* The position of the line of mount point m: the code splits the lines    *)
(* from the first one on, and stops at m's.                                *)
IsLineOf(l, m) == WellFormed(l) /\ l[1].mount = m
Before(ls, i) == \A j \in 1..(i - 1) : WellFormed(ls[j])

Finds(m, i) ==
  /\ i \in DOMAIN Lines /\ IsLineOf(Lines[i], m) /\ Before(Lines, i)
  /\ \A j \in 1..(i - 1) : ~IsLineOf(Lines[j], m)

Unknown(m) == \A i \in DOMAIN Lines : WellFormed(Lines[i]) /\ ~IsLineOf(Lines[i], m)

(* Lines written one after the other without a line break.                 *)
Joined(ls) == IF ls = <<>> THEN <<>> ELSE <<FlattenSeq(ls)>>

MergedNotAtAll(known) == known
MergedForgotten(known) == {sync}

(* merge_asset_manifests, of a mount's old manifest and the new inputs.    *)
Merged(known) == known \cup {sync}

-----------------------------------------------------------------------------
BeginSync ==
  /\ phase = "ready" /\ sync < MaxSyncs
  /\ sync' = sync + 1
  /\ todo' = roots
  /\ phase' = "next"
  /\ UNCHANGED <<roots, mount, final, stack, late, pidFile, rest, faults>>

(* handle_existing_vfs: a root that is mounted already is to be replaced   *)
(* by a mount with the merged manifest, if the pid file knows it.          *)
HandleExisting(m) ==
  /\ phase = "next" /\ m \in todo
  /\ \/ /\ IsMount(m)
        /\ \E i \in DOMAIN Lines :
             /\ Finds(m, i)
             /\ final' = Merged(Lines[i][1].manifest)
        /\ phase' = "kill"
     \/ /\ ~IsMount(m) \/ Unknown(m)
        /\ final' = {sync}
        /\ phase' = "start"
  /\ mount' = m
  /\ UNCHANGED <<roots, sync, todo, stack, late, pidFile, rest, faults>>

(* A line with more than three fields cannot be unpacked: ValueError.      *)
Unparsable(m) == ~Unknown(m) /\ ~\E i \in DOMAIN Lines : Finds(m, i)

ParsingRaises(m) ==
  /\ phase = "next" /\ m \in todo
  /\ IsMount(m) /\ Unparsable(m)
  /\ phase' = "ready"
  /\ todo' = {}
  /\ UNCHANGED <<roots, sync, mount, final, stack, late, pidFile, rest, faults>>

Misbehaves == faults < MaxFaults /\ faults' = faults + 1

(* shutdown_libfuse_mount: fusermount3 unmounts the visible file system,   *)
(* or is missing, or leaves it in place, or fails.  When it fails, and     *)
(* also when there is nothing to unmount, run_result is read unassigned.   *)
ShutDown(m, answer) ==
  \/ /\ answer = "unmounted" /\ IsMount(m)
     /\ stack' = [stack EXCEPT ![m] = Front(@)]
     /\ UNCHANGED faults
  \/ /\ answer = "left" /\ "left" \in Faults
     /\ Misbehaves /\ UNCHANGED stack
  \/ /\ answer = "raises" /\ "fails" \in Faults
     /\ Misbehaves /\ UNCHANGED stack
  \/ /\ answer = "raises" /\ ~IsMount(m)
     /\ UNCHANGED <<faults, stack>>

RewriteCutOff(i) == Joined(SubSeq(Lines, 1, i - 1))

(* kill_process_at_mount: the other lines are written back stripped.       *)
Rewrite(i) == Joined(SubSeq(Lines, 1, i - 1) \o SubSeq(Lines, i + 1, Len(Lines)))

KillAtMount ==
  /\ phase = "kill"
  /\ \E i \in DOMAIN Lines :
       /\ Finds(mount, i)
       /\ \E answer \in {"unmounted", "left"} : ShutDown(mount, answer)
       /\ pidFile' = Rewrite(i)
  /\ phase' = "start"
  /\ UNCHANGED <<roots, sync, todo, mount, final, late, rest>>

(* The exception leaves the file cut off where the rewriting had come.     *)
KillRaises ==
  /\ phase = "kill"
  /\ \E i \in DOMAIN Lines :
       /\ Finds(mount, i)
       /\ ShutDown(mount, "raises")
       /\ pidFile' = Joined(SubSeq(Lines, 1, i - 1))
  /\ phase' = "ready" /\ todo' = {}
  /\ UNCHANGED <<roots, sync, mount, final, late, rest>>

(* The mount has gone since it was looked up: kill_process_at_mount leaves *)
(* everything as it is.                                                    *)
KillNothing ==
  /\ phase = "kill" /\ ~IsMount(mount)
  /\ phase' = "start"
  /\ UNCHANGED <<roots, sync, todo, mount, final, stack, late, pidFile, rest, faults>>

(* VFSProcessManager.start up to wait_for_mount, which asks whether        *)
(* anything is mounted there.  A process that is given up is not stopped.  *)
Start ==
  /\ phase = "start"
  /\ \/ /\ stack' = [stack EXCEPT ![mount] = Append(@, final)]
        /\ phase' = "record"
        /\ UNCHANGED <<todo, late, faults>>
     \/ /\ "given_up" \in Faults
        /\ Misbehaves
        /\ \/ UNCHANGED late
           \/ "late" \in Faults /\ late' = late \cup {[mount |-> mount, manifest |-> final]}
        /\ IF IsMount(mount) THEN phase' = "record" /\ UNCHANGED todo
                             ELSE phase' = "ready" /\ todo' = {}
        /\ UNCHANGED stack
  /\ UNCHANGED <<roots, sync, mount, final, pidFile, rest>>

OthersUnfiltered(ls) == ls

(* The end of start: the new entry first, then the old lines but its own.  *)
NewEntry == [mount |-> mount, manifest |-> final]
Others(ls) ==
  LET kept[n \in 0..Len(ls)] ==
        IF n = 0 THEN <<>>
        ELSE IF IsLineOf(ls[n], mount) THEN kept[n - 1] ELSE Append(kept[n - 1], ls[n])
  IN  kept[Len(ls)]

RecordEntry ==
  /\ phase = "record"
  /\ \A i \in DOMAIN Lines : WellFormed(Lines[i])
  /\ pidFile' = <<Line(NewEntry)>> \o Others(Lines)
  /\ todo' = todo \ {mount}
  /\ phase' = "next"
  /\ UNCHANGED <<roots, sync, mount, final, stack, late, rest, faults>>

(* ValueError at a line that cannot be unpacked; the file is cut off there. *)
RecordRaises ==
  /\ phase = "record"
  /\ \E i \in DOMAIN Lines :
       /\ ~WellFormed(Lines[i]) /\ Before(Lines, i)
       /\ pidFile' = <<Line(NewEntry)>> \o Others(SubSeq(Lines, 1, i - 1))
  /\ phase' = "ready" /\ todo' = {}
  /\ UNCHANGED <<roots, sync, mount, final, stack, late, rest, faults>>

EndSync ==
  /\ phase = "next" /\ todo = {}
  /\ phase' = "ready"
  /\ UNCHANGED <<roots, sync, todo, mount, final, stack, late, pidFile, rest, faults>>

-----------------------------------------------------------------------------
(* cleanup_session, at the end of the session: kill_all_processes. *)
BeginCleanup ==
  /\ phase = "ready"
  /\ phase' = "cleanup"
  /\ rest' = Lines
  /\ UNCHANGED <<roots, sync, todo, mount, final, stack, late, pidFile, faults>>

CleanupLine ==
  /\ phase = "cleanup" /\ rest # <<>> /\ WellFormed(Head(rest))
  /\ \E answer \in {"unmounted", "left"} : ShutDown(Head(rest)[1].mount, answer)
  /\ rest' = Tail(rest)
  /\ UNCHANGED <<roots, phase, sync, todo, mount, final, late, pidFile>>

CleanupRaises ==
  /\ phase = "cleanup" /\ rest # <<>>
  /\ \/ ~WellFormed(Head(rest)) /\ UNCHANGED <<stack, faults>>
     \/ WellFormed(Head(rest)) /\ ShutDown(Head(rest)[1].mount, "raises")
  /\ phase' = "closed_raised"
  /\ UNCHANGED <<roots, sync, todo, mount, final, late, pidFile, rest>>

CleanupDone ==
  /\ phase = "cleanup" /\ rest = <<>>
  /\ phase' = "closed"
  /\ pidFile' = NoFile
  /\ UNCHANGED <<roots, sync, todo, mount, final, stack, late, rest, faults>>

(* A process that was given up mounts after all. *)
LateMount(e) ==
  /\ e \in late
  /\ late' = late \ {e}
  /\ stack' = [stack EXCEPT ![e.mount] = Append(@, e.manifest)]
  /\ UNCHANGED <<roots, phase, sync, todo, mount, final, pidFile, rest, faults>>

(* A VFS process ends, and its mount goes with it. *)
VfsDies(m) ==
  /\ "dies" \in Faults /\ IsMount(m)
  /\ stack' = [stack EXCEPT ![m] = Front(@)]
  /\ Misbehaves
  /\ UNCHANGED <<roots, phase, sync, todo, mount, final, late, pidFile, rest>>

Next ==
  \/ BeginSync \/ KillAtMount \/ KillRaises \/ KillNothing \/ Start \/ RecordEntry \/ RecordRaises
  \/ EndSync \/ BeginCleanup \/ CleanupLine \/ CleanupRaises \/ CleanupDone
  \/ \E m \in Mounts : HandleExisting(m) \/ ParsingRaises(m) \/ VfsDies(m)
  \/ \E e \in late : LateMount(e)

Spec == Init /\ [][Next]_vars

-----------------------------------------------------------------------------
(* The pid file is right as long as nothing has gone wrong and no more     *)
(* than two lines meet in it: from three on, the kill of one joins the     *)
(* other two, which no later call can read.                                *)
Readable == faults = 0 /\ (Cardinality(roots) <= 2 \/ sync <= 1)

(* "Add the new VFS instance and remove any it replaced": between calls    *)
(* the pid file has a line of its own for every mount, with the manifest   *)
(* that is visible there.                                                  *)
MountsTracked ==
  phase \in {"ready", "next"} /\ Readable =>
    \A m \in Mounts : IsMount(m) =>
      \E i \in DOMAIN Lines : Lines[i] = Line([mount |-> m, manifest |-> Last(stack[m])])

(* No mount point is ever entered twice, whatever fails: a second entry    *)
(* would be unmounted twice, and the second time is an error.              *)
EnteredOnce ==
  \A i, j \in DOMAIN Lines : i # j =>
    {Lines[i][x].mount : x \in DOMAIN Lines[i]} \cap {Lines[j][x].mount : x \in DOMAIN Lines[j]} = {}

(* cleanup_session leaves nothing mounted.                                 *)
CleanedUp == phase \in Ended /\ Readable => \A m \in Mounts : ~IsMount(m)

(* When an input sync has ended well, every root shows the inputs of all   *)
(* the session's syncs.                                                    *)
ServesEverything ==
  phase = "next" /\ todo = {} /\ Readable =>
    \A m \in roots : IsMount(m) /\ Last(stack[m]) = 1..sync

(* "modify the VFS pid tracking file to remove the entry": taking one      *)
(* mount's entry out leaves every other entry on a line of its own, where  *)
(* the next call can read it.                                              *)
EntriesApart == \A i \in DOMAIN Lines : WellFormed(Lines[i])
=============================================================================
