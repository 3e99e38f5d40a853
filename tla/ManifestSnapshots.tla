-------------------------- MODULE ManifestSnapshots --------------------------
(***************************************************************************)
(* api/manifest.py: snapshots of a directory as manifest files, in full or *)
(* as the difference to an earlier manifest, reports of such a difference, *)
(* and the merge of manifests.  Differences are found by size and time,    *)
(* with a tolerance of one microsecond, or by hash; hashes come from the   *)
(* hash cache, which trusts a row whose time is the file's.  Files are     *)
(* written and deleted at any moment between the steps of a call.          *)
(* A content stands for its hash, a time is a number of microseconds, and  *)
(* a manifest file is named after the second it was written in.            *)
(***************************************************************************)
EXTENDS Integers, FiniteSets

CONSTANTS
  SFiles, SContents, Size,   \* Size[c]: the number of bytes of content c
  STimes,                    \* modification times
  SDisks,                    \* what may be in the directory at first
  Patterns,                  \* the sets of files that include and exclude globs may leave
  SSeconds, SCalls, SEdits,  \* bounds: of the clock, the calls and the edits
  Gone                       \* no file

ASSUME SnapshotsAssumption ==
  /\ IsFiniteSet(SFiles)
  /\ Size \in [SContents -> Nat] /\ STimes \subseteq Nat
  /\ \A d \in SDisks : d \in [DOMAIN d -> [content : SContents, mtime : STimes]]
                        /\ DOMAIN d \subseteq SFiles
  /\ Patterns \subseteq SUBSET SFiles
  /\ SSeconds \in Nat \ {0} /\ SCalls \in Nat /\ SEdits \in Nat
  /\ Gone \notin SContents \cup SFiles \cup [file : SFiles, size : Nat, mtime : STimes]

VARIABLES
  dir,       \* the files that exist, with their content and time
  versions,  \* history: the versions every file has had
  restored,  \* history: the files that got a version back they had before
  held,      \* history: the contents it had, or Gone, during the last call
  row,       \* the hash cache
  second,    \* the clock
  saved,     \* the manifest file written in every second
  sphase,    \* where the call is
  call,      \* the operation, the manifest it compares with, its mode and glob
  listed,    \* current_files
  reference, \* the manifest the call compares with, as it was read
  changed,   \* changed_paths
  rest,      \* the files not compared or hashed yet
  statted,   \* the file that was statted and is being hashed
  entries,   \* the manifest being made
  again,     \* the changed files of a forced comparison are hashed again
  result,    \* the ManifestDiff, or the second of the manifest file returned
  sedits, scalls

snapEnv == <<dir, versions, restored, sedits>>
snapCall == <<call, listed, reference>>
snapWork == <<sphase, changed, rest, statted, entries, again, result>>
snapVars == <<snapEnv, held, row, second, saved, scalls, snapCall, snapWork>>

Versions == [content : SContents, mtime : STimes]
SnapEntries == [hash : SContents, size : Nat, mtime : STimes]
NoReport == [new |-> {}, modified |-> {}, deleted |-> {}]
NoResult == [name |-> 0, diff |-> NoReport]
Empty == [f \in {} |-> {}]
NoCall == [op |-> "snapshot", base |-> 0, force |-> FALSE, pattern |-> {}]

IsMap(fn, Dom, Values) == DOMAIN fn \subseteq Dom /\ \A x \in DOMAIN fn : fn[x] \in Values
IsManifest(m) == IsMap(m, SFiles, SnapEntries)

SnapshotsTypeOK ==
  /\ IsMap(dir, SFiles, Versions)
  /\ versions \in [SFiles -> SUBSET Versions]
  /\ restored \subseteq SFiles
  /\ held \in [SFiles -> SUBSET (SContents \cup {Gone})]
  /\ IsMap(row, SFiles, [hash : SContents, mtime : STimes])
  /\ second \in 1..SSeconds
  /\ DOMAIN saved \subseteq 1..SSeconds /\ \A n \in DOMAIN saved : IsManifest(saved[n])
  /\ sphase \in {"idle", "list", "compare", "prepare", "hash", "write", "done", "merged", "raised"}
  /\ call.op \in {"snapshot", "diff"} /\ call.base \in 0..SSeconds
  /\ listed \subseteq SFiles /\ changed \subseteq SFiles /\ rest \subseteq SFiles
  /\ IsManifest(reference) /\ IsManifest(entries)
  /\ statted = Gone \/ (statted.file \in SFiles /\ statted.size \in Nat /\ statted.mtime \in STimes)
  /\ again \in BOOLEAN /\ result.name \in 0..SSeconds
  /\ sedits \in 0..SEdits /\ scalls \in 0..SCalls

Put(fn, x, v) == [y \in DOMAIN fn \cup {x} |-> IF y = x THEN v ELSE fn[y]]
Existing == DOMAIN dir
ContentsNow == [f \in SFiles |-> IF f \in Existing THEN {dir[f].content} ELSE {Gone}]

(* The hash cache may know some files from before. *)
SnapshotsInit ==
  /\ dir \in SDisks
  /\ \E S \in SUBSET Existing : row = [f \in S |-> [hash |-> dir[f].content, mtime |-> dir[f].mtime]]
  /\ versions = [f \in SFiles |-> IF f \in Existing THEN {dir[f]} ELSE {}]
  /\ restored = {} /\ held = ContentsNow
  /\ second = 1 /\ saved = Empty
  /\ sphase = "idle" /\ call = NoCall /\ listed = {} /\ reference = Empty
  /\ changed = {} /\ rest = {} /\ statted = Gone /\ entries = Empty /\ again = FALSE
  /\ result = NoResult
  /\ sedits = 0 /\ scalls = 0

-----------------------------------------------------------------------------
(* _manifest_snapshot without a manifest or with one that was saved before, *)
(* and _manifest_diff                                                       *)
Calls == [op : {"snapshot"}, base : {0} \cup DOMAIN saved, force : BOOLEAN, pattern : Patterns]
         \cup [op : {"diff"}, base : DOMAIN saved, force : BOOLEAN, pattern : Patterns]

CallApi ==
  /\ sphase \in {"idle", "done", "merged", "raised"} /\ scalls < SCalls
  /\ call' \in Calls
  /\ sphase' = "list" /\ held' = ContentsNow /\ scalls' = scalls + 1
  /\ changed' = {} /\ rest' = {} /\ entries' = Empty /\ again' = FALSE /\ result' = NoResult
  /\ UNCHANGED <<snapEnv, row, second, saved, listed, reference, statted>>

Hashed == call.op = "snapshot" /\ call.base = 0
ByHash == call.force /\ ~Hashed

(* The files are globbed, then the manifest to compare with is read. *)
ListFiles ==
  /\ sphase = "list"
  /\ listed' = Existing \cap call.pattern /\ rest' = listed'
  /\ reference' = IF call.base = 0 THEN Empty ELSE saved[call.base]
  /\ sphase' = CASE Hashed \/ (ByHash /\ call.op = "snapshot") -> "prepare"
                 [] ByHash /\ call.op = "diff" -> "hash"
                 [] OTHER -> "compare"
  /\ UNCHANGED <<snapEnv, held, row, second, saved, call, scalls, changed, statted, entries, again, result>>

(* _fast_file_list_to_manifest_diff: a file differs from its entry in size *)
(* or by more than a microsecond.                                          *)
Near(m, n) == m - n \in -1..1
DiffersInTime(v, e) == ~Near(v.mtime, e.mtime)
Differs(v, e) == Size[v.content] # e.size \/ ~Near(v.mtime, e.mtime)

CompareFile(f) ==
  /\ sphase = "compare" /\ f \in rest
  /\ IF f \notin Existing
     THEN sphase' = "raised" /\ UNCHANGED <<changed, rest>>       \* FileNotFoundError
     ELSE /\ rest' = rest \ {f}
          /\ changed' = IF f \notin DOMAIN reference \/ Differs(dir[f], reference[f])
                        THEN changed \cup {f} ELSE changed
          /\ UNCHANGED sphase
  /\ UNCHANGED <<snapEnv, held, row, second, saved, snapCall, scalls, statted, entries, again, result>>

ReportOf(files, differing) ==
  [new |-> differing \ DOMAIN reference,
   modified |-> differing \cap DOMAIN reference,
   deleted |-> DOMAIN reference \ files]

(* Of the differences a snapshot leaves out the deleted files; none means  *)
(* that no manifest is written.                                            *)
Compared(files, differing) ==
  \/ /\ call.op = "diff"
     /\ result' = [NoResult EXCEPT !.diff = ReportOf(files, differing)]
     /\ sphase' = "done" /\ UNCHANGED rest
  \/ /\ call.op = "snapshot"
     /\ sphase' = (IF differing = {} THEN "done" ELSE "prepare") /\ rest' = differing
     /\ UNCHANGED result

CompareDone ==
  /\ sphase = "compare" /\ rest = {}
  /\ Compared(listed, changed)
  /\ UNCHANGED <<snapEnv, held, row, second, saved, snapCall, scalls, changed, statted, entries, again>>

(* _create_manifest_for_single_root: files that are missing by now become  *)
(* references and are left out of the manifest; without any file there is  *)
(* none.                                                                   *)
PrepareFiles ==
  /\ sphase = "prepare"
  /\ rest' = rest \cap Existing /\ entries' = Empty
  /\ sphase' = IF rest' = {} THEN "done" ELSE "hash"
  /\ UNCHANGED <<snapEnv, held, row, second, saved, snapCall, scalls, changed, statted, again, result>>

(* _process_input_path: the file is statted once, *)
StatFile(f) ==
  /\ sphase = "hash" /\ statted = Gone /\ f \in rest
  /\ IF f \notin Existing
     THEN sphase' = "raised" /\ UNCHANGED <<rest, statted>>       \* FileNotFoundError
     ELSE /\ rest' = rest \ {f}
          /\ statted' = [file |-> f, size |-> Size[dir[f].content], mtime |-> dir[f].mtime]
          /\ UNCHANGED sphase
  /\ UNCHANGED <<snapEnv, held, row, second, saved, snapCall, scalls, changed, entries, again, result>>

(* and its hash comes from the cache when the time is that of the row, and *)
(* from reading the file otherwise.                                        *)
KnownAtAll(f) == f \in DOMAIN row
Known(f) == f \in DOMAIN row /\ row[f].mtime = statted.mtime
EntryOf(h) == [hash |-> h, size |-> statted.size, mtime |-> statted.mtime]

TakeFromCache ==
  /\ sphase = "hash" /\ statted # Gone /\ Known(statted.file)
  /\ entries' = Put(entries, statted.file, EntryOf(row[statted.file].hash))
  /\ statted' = Gone
  /\ UNCHANGED <<snapEnv, held, row, second, saved, snapCall, scalls, sphase, changed, rest, again, result>>

ReadAndHash ==
  /\ sphase = "hash" /\ statted # Gone /\ ~Known(statted.file)
  /\ LET f == statted.file
     IN  IF f \notin Existing
         THEN sphase' = "raised" /\ UNCHANGED <<entries, row>>    \* FileNotFoundError
         ELSE /\ entries' = Put(entries, f, EntryOf(dir[f].content))
              /\ row' = Put(row, f, [hash |-> dir[f].content, mtime |-> statted.mtime])
              /\ UNCHANGED sphase
  /\ statted' = Gone
  /\ UNCHANGED <<snapEnv, held, second, saved, snapCall, scalls, changed, rest, again, result>>

(* compare_manifest, after the first hashing of a forced comparison *)
DifferingByHash ==
  {f \in DOMAIN entries : f \notin DOMAIN reference \/ entries[f].hash # reference[f].hash}

HashDone ==
  /\ sphase = "hash" /\ rest = {} /\ statted = Gone
  /\ IF ByHash /\ ~again
     THEN Compared(DOMAIN entries, DifferingByHash) /\ again' = TRUE
     ELSE sphase' = "write" /\ UNCHANGED <<rest, again, result>>
  /\ UNCHANGED <<snapEnv, held, row, second, saved, snapCall, scalls, changed, statted, entries>>

(* _write_manifest: a manifest written in the same second is overwritten.  *)
WriteManifest ==
  /\ sphase = "write"
  /\ saved' = Put(saved, second, entries)
  /\ result' = [NoResult EXCEPT !.name = second]
  /\ sphase' = "done"
  /\ UNCHANGED <<snapEnv, held, row, second, snapCall, scalls, changed, rest, statted, entries, again>>

(* _manifest_merge of a manifest and the difference to it.  Manifests are  *)
(* read into a dictionary by their file name; of a file in several of them *)
(* the last entry counts.                                                  *)
Merge(m, n) == [f \in DOMAIN m \cup DOMAIN n |-> IF f \in DOMAIN n THEN n[f] ELSE m[f]]

MergeManifests ==
  /\ sphase = "done" /\ call.op = "snapshot" /\ call.base # 0
  /\ saved' = Put(saved, second, IF result.name = 0 THEN saved[call.base]
                                 ELSE Merge(saved[call.base], saved[result.name]))
  /\ entries' = saved'[second] /\ sphase' = "merged"
  /\ UNCHANGED <<snapEnv, held, row, second, snapCall, scalls, changed, rest, statted, again, result>>

-----------------------------------------------------------------------------
(* What goes on beside a call *)

Noted(f, c) == IF sphase \in {"idle", "done", "merged", "raised"} THEN held
               ELSE [held EXCEPT ![f] = @ \cup {c}]

WriteFile(f) ==
  /\ sedits < SEdits /\ sedits' = sedits + 1
  /\ \E v \in Versions : /\ dir' = Put(dir, f, v)
                         /\ versions' = [versions EXCEPT ![f] = @ \cup {v}]
                         /\ restored' = IF v \in versions[f] THEN restored \cup {f} ELSE restored
                         /\ held' = Noted(f, v.content)
  /\ UNCHANGED <<row, second, saved, scalls, snapCall, snapWork>>

DeleteFile(f) ==
  /\ f \in Existing
  /\ sedits < SEdits /\ sedits' = sedits + 1
  /\ dir' = [g \in Existing \ {f} |-> dir[g]] /\ held' = Noted(f, Gone)
  /\ UNCHANGED <<versions, restored, row, second, saved, scalls, snapCall, snapWork>>

NextSecond ==
  /\ second < SSeconds /\ second' = second + 1
  /\ UNCHANGED <<snapEnv, held, row, saved, scalls, snapCall, snapWork>>

SnapshotStep ==
  \/ ListFiles \/ CompareDone \/ PrepareFiles \/ HashDone \/ WriteManifest
  \/ TakeFromCache \/ ReadAndHash
  \/ \E f \in SFiles : CompareFile(f) \/ StatFile(f)

SnapshotsNext ==
  \/ CallApi \/ SnapshotStep \/ MergeManifests
  \/ NextSecond
  \/ \E f \in SFiles : WriteFile(f) \/ DeleteFile(f)

SnapshotsSpec == SnapshotsInit /\ [][SnapshotsNext]_snapVars

-----------------------------------------------------------------------------
(* f has had two versions that the call cannot tell apart (the hash cache  *)
(* compares times alone, the fast comparison is blind to a microsecond),   *)
(* or one version twice: what was hashed in between may be paired with it. *)
Alike(f) ==
  \/ f \in restored
  \/ \E v, w \in versions[f] :
       /\ v # w
       /\ \/ v.mtime = w.mtime
          \/ ~ByHash /\ Near(v.mtime, w.mtime) /\ Size[v.content] = Size[w.content]

(* The hash of an entry is that of a content the file had during the call. *)
Current(f, e) == e.hash \in held[f] \/ Alike(f)
Stayed(f) == f \in call.pattern /\ Gone \notin held[f]

(* A snapshot, or a manifest merged with the difference to it, lists every *)
(* file that was there all through the call, as it was during the call,    *)
(* though files are written meanwhile and most are never read: what is not *)
(* in the difference must still be what the manifest says.  Exempt are     *)
(* versions that no comparison can tell apart, and a difference written in *)
(* the second of its manifest, which is then overwritten.                  *)
AddUp ==
  (sphase = "done" /\ Hashed) \/ (sphase = "merged" /\ call.base # result.name) =>
    \A f \in SFiles : Stayed(f) => f \in DOMAIN entries /\ Current(f, entries[f])

(* The report of _manifest_diff: what it calls new, modified or deleted    *)
(* was so at some moment of the call, and what it does not mention is      *)
(* either not there or as the manifest says.  Files that the globs of this *)
(* call leave out are reported as deleted.                                 *)
DiffTells ==
  sphase = "done" /\ call.op = "diff" =>
    /\ \A f \in result.diff.new : f \notin DOMAIN reference /\ held[f] # {Gone}
    /\ \A f \in result.diff.modified :
         /\ f \in DOMAIN reference
         /\ \E v \in versions[f] :
              /\ v.content \in held[f] \/ Alike(f)
              /\ IF call.force THEN v.content # reference[f].hash ELSE Differs(v, reference[f])
    /\ \A f \in result.diff.deleted :
         f \in DOMAIN reference /\ (f \notin call.pattern \/ Gone \in held[f])
    /\ \A f \in call.pattern \ UNION {result.diff.new, result.diff.modified, result.diff.deleted} :
         IF f \in DOMAIN reference THEN Current(f, reference[f]) ELSE Gone \in held[f]
=============================================================================
