----------------------------- MODULE SessionSync -----------------------------
(***************************************************************************)
(* AssetSync: what a worker does with the files of one session directory.  *)
(* sync_inputs brings the files of the job's manifests, and later those of *)
(* the steps a step depends on, into the directory; the tasks of the       *)
(* session's actions write files; after each, sync_outputs decides by      *)
(* modification time which files are its outputs, uploads a manifest of    *)
(* them per asset root and then the files.  AssetSync.synced_assets_mtime  *)
(* is the memory that relates one call to the next.                        *)
(***************************************************************************)
EXTENDS Naturals, FiniteSets, Functions

CONSTANTS
  Files,         \* paths in the session directory
  Roots,         \* the asset roots of the job
  OutputsOf,     \* OutputsOf[r]: the paths in the output directories of root r
  Contents,      \* a content stands for its hash
  Inputs,        \* Inputs[f]: the content of f in the job's manifests
  Deps,          \* Deps[f]: the content of f in the outputs of other steps
  CopyOf,        \* CopyOf[f]: "f (1)", the name of a copy, which no task writes
  InputTime,     \* the modification time of every input, in its manifest
  AttachmentSync, \* inputs are synced by attachment_sync_inputs, not sync_inputs
  Virtual,       \* the job asks for the virtual file system
  VfsOutcomes,   \* what find_vfs may answer
  Absent, NoObject, NoFile,
  MaxActions, MaxSyncs, MaxTime,   \* bounds
  MayLinger,     \* processes of a task go on writing during sync_outputs
  MayVanish,     \* files may be deleted
  MayBackdate,   \* a write may leave an older modification time behind
  MayFail        \* S3 calls may fail, or the user may cancel

ASSUME SessionAssumption ==
  /\ OutputsOf \in [Roots -> SUBSET Files]
  /\ DOMAIN Inputs \subseteq Files /\ DOMAIN Deps \subseteq Files
  /\ \A f \in DOMAIN Inputs : Inputs[f] \in Contents
  /\ \A f \in DOMAIN Deps : Deps[f] \in Contents
  /\ CopyOf \in [DOMAIN Inputs \cup DOMAIN Deps -> Files \ (DOMAIN Inputs \cup DOMAIN Deps)]
  /\ InputTime \in Nat /\ MaxTime \in Nat /\ InputTime <= MaxTime
  /\ MaxActions \in Nat /\ MaxSyncs \in Nat
  /\ VfsOutcomes \subseteq BOOLEAN /\ NoObject \notin Contents /\ NoFile \notin Files
  /\ Absent \notin [content : Contents, mtime : 0..MaxTime]
  /\ {AttachmentSync, Virtual, MayLinger, MayVanish, MayBackdate, MayFail} \subseteq BOOLEAN

VARIABLES
  phase,     \* where the worker is
  merged,    \* the merged manifest being synced
  syncs,     \* how many input syncs have begun
  inputs,    \* how the last input sync ended
  todo,      \* the files the current loop still has to visit
  disk,      \* content and modification time of every file
  clock,     \* the largest modification time so far
  synced,    \* synced_assets_mtime; 0 stands for "no entry", as it does in the code
  action,    \* the number of the session action
  result,    \* how the sync_outputs of each action ended
  rootsLeft, root,   \* asset roots to scan, and the one being scanned
  current,   \* the file being hashed
  found,     \* the output files found so far in the root
  pending,   \* the output files of all roots, to be uploaded
  manifests, \* the output manifests in the bucket
  store,     \* the content of every object, named by its hash
  written,   \* history: the files whose present version a task wrote
  gone       \* history: what an action could not upload for want of the file

inputVars  == <<merged, syncs, inputs>>
scanVars   == <<rootsLeft, root, current, found, pending>>
bucketVars == <<manifests, store, gone>>
fileVars   == <<disk, clock, written>>
vars == <<phase, inputVars, todo, fileVars, synced, action, result, scanVars, bucketVars>>

Outputs == UNION {OutputsOf[r] : r \in Roots}
Present(f) == disk[f] # Absent
Recorded(f) == synced[f] # 0
OutputFile == [file : Files, hash : Contents, inS3 : BOOLEAN]
Entry == [file : Files, hash : Contents, mtime : 0..MaxTime]

TypeOK ==
  /\ phase \in {"ready", "download", "mount", "record", "work", "scan", "hash", "manifest", "upload"}
  /\ DOMAIN merged \subseteq Files /\ \A f \in DOMAIN merged : merged[f] \in Contents
  /\ syncs \in Nat /\ inputs \in {"none", "ok", "raised"}
  /\ todo \subseteq Files
  /\ disk \in [Files -> [content : Contents, mtime : 0..MaxTime] \cup {Absent}]
  /\ clock \in 0..MaxTime /\ synced \in [Files -> 0..MaxTime]
  /\ action \in Nat
  /\ result \in [1..MaxActions -> {"none", "ok", "raised"}]
  /\ rootsLeft \subseteq Roots /\ root \in Roots
  /\ current \in Files \cup {NoFile}
  /\ found \subseteq OutputFile /\ pending \subseteq OutputFile
  /\ manifests \subseteq [action : 1..MaxActions, root : Roots, entries : SUBSET Entry]
  /\ store \in [Contents -> Contents \cup {NoObject}]
  /\ written \subseteq Files /\ gone \subseteq (1..MaxActions) \X Contents

Init ==
  /\ phase = "ready"
  /\ merged = Inputs /\ syncs = 0 /\ inputs = "none"
  /\ todo = {}
  /\ disk = [f \in Files |-> Absent]
  /\ clock = InputTime
  /\ synced = [f \in Files |-> 0]
  /\ action = 0 /\ result = [a \in 1..MaxActions |-> "none"]
  /\ rootsLeft = {} /\ root \in Roots /\ current = NoFile
  /\ found = {} /\ pending = {}
  /\ manifests = {}
  /\ store \in [Contents -> Contents \cup {NoObject}]
  /\ \A c \in Contents : store[c] \in {c, NoObject}
  /\ written = {} /\ gone = {}

-----------------------------------------------------------------------------
MergedForInputsOver(n) == IF n = 0 THEN Inputs
                          ELSE [f \in DOMAIN Inputs \cup DOMAIN Deps |->
                                  IF f \in DOMAIN Inputs THEN Inputs[f] ELSE Deps[f]]

(* sync_inputs and attachment_sync_inputs.  The first call brings the      *)
(* job's manifests; a later one, made for a step with dependencies, merges *)
(* the outputs of those steps over them.  Both fall back to copying when   *)
(* there is no executable for the virtual file system, or mean to:         *)
(* attachment_sync_inputs ignores what _launch_vfs returns.                *)
MergedFor(n) == IF n = 0 THEN Inputs
                ELSE [f \in DOMAIN Inputs \cup DOMAIN Deps |->
                        IF f \in DOMAIN Deps THEN Deps[f] ELSE Inputs[f]]

AfterMissingVfsUnheeded == "record"
AfterMissingVfs == IF AttachmentSync THEN "record" ELSE "download"

BeginSyncInputs ==
  /\ phase = "ready" /\ syncs < MaxSyncs
  /\ syncs' = syncs + 1
  /\ merged' = MergedFor(syncs)
  /\ inputs' = "none"
  /\ todo' = DOMAIN merged'
  /\ \E found_vfs \in VfsOutcomes :
       phase' = IF ~Virtual THEN "download"
                ELSE IF found_vfs THEN "mount" ELSE AfterMissingVfs
  /\ UNCHANGED <<fileVars, synced, action, result, scanVars, bucketVars>>

(* Where download_file puts a path that already exists.                    *)
TargetAlwaysCopy(f) == IF Present(f) THEN CopyOf[f] ELSE f
Target(f) == IF Present(f) /\ ~AttachmentSync THEN CopyOf[f] ELSE f

(* download_file: the file gets the manifest's modification time *)
DownloadFile(f) ==
  /\ phase = "download" /\ f \in todo
  /\ disk' = [disk EXCEPT ![Target(f)] = [content |-> merged[f], mtime |-> InputTime]]
  /\ written' = written \ {Target(f)}
  /\ todo' = todo \ {f}
  /\ UNCHANGED <<phase, inputVars, clock, synced, action, result, scanVars, bucketVars>>

Downloaded ==
  /\ phase = "download" /\ todo = {}
  /\ phase' = "record"
  /\ todo' = DOMAIN merged
  /\ UNCHANGED <<inputVars, fileVars, synced, action, result, scanVars, bucketVars>>

(* mount_vfs_from_manifests: every file of the manifest becomes visible    *)
MountVfs ==
  /\ phase = "mount"
  /\ disk' = [f \in Files |-> IF f \in DOMAIN merged
                              THEN [content |-> merged[f], mtime |-> InputTime] ELSE disk[f]]
  /\ written' = written \ DOMAIN merged
  /\ phase' = "record"
  /\ UNCHANGED <<inputVars, todo, clock, synced, action, result, scanVars, bucketVars>>

(* S3 errors, too little disk space, cancellation, a mount that fails      *)
SyncInputsFails ==
  /\ MayFail /\ phase \in {"download", "mount"}
  /\ phase' = "ready" /\ inputs' = "raised" /\ todo' = {}
  /\ UNCHANGED <<merged, syncs, fileVars, synced, action, result, scanVars, bucketVars>>

(* _record_attachment_mtimes: stat raises FileNotFoundError when the file  *)
(* is not there.                                                           *)
RecordMtime(f) ==
  /\ phase = "record" /\ f \in todo
  /\ \/ /\ Present(f)
        /\ synced' = [synced EXCEPT ![f] = disk[f].mtime]
        /\ todo' = todo \ {f}
        /\ UNCHANGED <<phase, inputs>>
     \/ /\ ~Present(f)
        /\ phase' = "ready" /\ inputs' = "raised" /\ todo' = {}
        /\ UNCHANGED synced
  /\ UNCHANGED <<merged, syncs, fileVars, action, result, scanVars, bucketVars>>

InputsSynced ==
  /\ phase = "record" /\ todo = {}
  /\ phase' = "ready" /\ inputs' = "ok"
  /\ UNCHANGED <<merged, syncs, todo, fileVars, synced, action, result, scanVars, bucketVars>>

-----------------------------------------------------------------------------
(* The tasks of the session's actions, which run when the inputs are there. *)
BeginAction ==
  /\ phase = "ready" /\ inputs = "ok" /\ action < MaxActions
  /\ action' = action + 1
  /\ phase' = "work"
  /\ UNCHANGED <<inputVars, todo, fileVars, synced, result, scanVars, bucketVars>>

(* A task may write while it runs, and processes it leaves behind while    *)
(* sync_outputs runs.                                                      *)
TaskFiles == Files \ Range(CopyOf)
Writing == phase = "work" \/ (MayLinger /\ phase \in {"scan", "hash", "manifest", "upload"})

Write(f) ==
  /\ Writing /\ clock < MaxTime
  /\ \E c \in Contents : disk' = [disk EXCEPT ![f] = [content |-> c, mtime |-> clock + 1]]
  /\ clock' = clock + 1
  /\ written' = written \cup {f}
  /\ UNCHANGED <<phase, inputVars, todo, synced, action, result, scanVars, bucketVars>>

(* A program that copies a file here with its modification time.           *)
Backdate(f) ==
  /\ Writing /\ MayBackdate
  /\ \E c \in Contents, m \in 1..clock :
       disk' = [disk EXCEPT ![f] = [content |-> c, mtime |-> m]]
  /\ written' = written \cup {f}
  /\ UNCHANGED <<phase, inputVars, todo, clock, synced, action, result, scanVars, bucketVars>>

Vanish(f) ==
  /\ Writing /\ MayVanish
  /\ disk' = [disk EXCEPT ![f] = Absent]
  /\ UNCHANGED <<phase, inputVars, todo, clock, written, synced, action, result, scanVars, bucketVars>>

-----------------------------------------------------------------------------
(* sync_outputs.  An exception ends it, with what synced_assets_mtime has  *)
(* been told so far.                                                       *)
Return(r) ==
  /\ phase' = "ready"
  /\ result' = [result EXCEPT ![action] = r]
  /\ todo' = {} /\ rootsLeft' = {} /\ found' = {} /\ pending' = {} /\ current' = NoFile
  /\ UNCHANGED root

BeginSyncOutputs ==
  /\ phase = "work"
  /\ phase' = "scan"
  /\ \E r \in Roots :
       /\ root' = r /\ rootsLeft' = Roots \ {r}
       /\ todo' = {f \in OutputsOf[r] : Present(f)}
  /\ UNCHANGED <<inputVars, fileVars, synced, action, result, current, found, pending, bucketVars>>

(* _get_output_files, one file of the walk.  A file without an entry is    *)
(* new and gets one; a file with an entry is modified when it is newer,    *)
(* and keeps its entry.                                                    *)
IsModifiedOnlyNew(f) == ~Recorded(f)
IsModified(f) == Recorded(f) => disk[f].mtime > synced[f]

RecordedTime(f) == IF Recorded(f) THEN synced[f] ELSE disk[f].mtime

VisitFile(f) ==
  /\ phase = "scan" /\ f \in todo /\ Present(f)
  /\ synced' = [synced EXCEPT ![f] = RecordedTime(f)]
  /\ todo' = todo \ {f}
  /\ IF IsModified(f) THEN phase' = "hash" /\ current' = f
                      ELSE UNCHANGED <<phase, current>>
  /\ UNCHANGED <<inputVars, fileVars, action, result, rootsLeft, root, found, pending, bucketVars>>

(* hash_file and file_already_uploaded *)
HashOutput ==
  /\ phase = "hash" /\ Present(current)
  /\ LET c == disk[current].content IN
     found' = found \cup {[file |-> current, hash |-> c, inS3 |-> store[c] # NoObject]}
  /\ phase' = "scan" /\ current' = NoFile
  /\ UNCHANGED <<inputVars, todo, fileVars, synced, action, result, rootsLeft, root, pending, bucketVars>>

(* A file disappears between the walk, its stat and its hash, or S3 fails. *)
ScanRaises ==
  /\ \/ phase = "scan" /\ \E f \in todo : ~Present(f)
     \/ phase = "hash" /\ ~Present(current)
     \/ phase = "hash" /\ MayFail
  /\ Return("raised")
  /\ UNCHANGED <<inputVars, fileVars, synced, action, bucketVars>>

RootScanned ==
  /\ phase = "scan" /\ todo = {}
  /\ phase' = IF found = {} THEN "upload" ELSE "manifest"
  /\ UNCHANGED <<inputVars, todo, fileVars, synced, action, result, scanVars, bucketVars>>

(* _generate_output_manifest stats every file once more, and the manifest  *)
(* goes to the bucket before any of the files it lists.                    *)
UploadManifest ==
  /\ phase = "manifest"
  /\ \A o \in found : Present(o.file)
  /\ manifests' = manifests \cup
       {[action |-> action, root |-> root,
         entries |-> {[file |-> o.file, hash |-> o.hash, mtime |-> disk[o.file].mtime] : o \in found}]}
  /\ pending' = pending \cup found
  /\ found' = {}
  /\ phase' = "upload"
  /\ UNCHANGED <<inputVars, todo, fileVars, synced, action, result, rootsLeft, root, current, store,
                 gone>>

ManifestRaises ==
  /\ phase = "manifest"
  /\ MayFail \/ \E o \in found : ~Present(o.file)
  /\ Return("raised")
  /\ UNCHANGED <<inputVars, fileVars, synced, action, bucketVars>>

(* the loop over the manifests comes back to the next root *)
NextRoot ==
  /\ phase = "upload" /\ rootsLeft # {}
  /\ phase' = "scan"
  /\ \E r \in rootsLeft :
       /\ root' = r /\ rootsLeft' = rootsLeft \ {r}
       /\ todo' = {f \in OutputsOf[r] : Present(f)}
  /\ UNCHANGED <<inputVars, fileVars, synced, action, result, current, found, pending, bucketVars>>

(* _upload_output_files_to_s3, one file: skipped when the object was there, *)
(* and also, silently, when the file cannot be opened any more.            *)
SkipsUploadOnceListed(o) ==
  o.inS3 \/ ~Present(o.file) \/ \E m \in manifests : m.action # action /\ \E e \in m.entries : e.hash = o.hash
SkipsUpload(o) == o.inS3 \/ ~Present(o.file)

UploadFile(o) ==
  /\ phase = "upload" /\ rootsLeft = {} /\ o \in pending
  /\ pending' = pending \ {o}
  /\ store' = IF SkipsUpload(o) THEN store ELSE [store EXCEPT ![o.hash] = disk[o.file].content]
  /\ gone' = IF Present(o.file) THEN gone ELSE gone \cup {<<action, o.hash>>}
  /\ UNCHANGED <<phase, inputVars, todo, fileVars, synced, action, result, rootsLeft, root,
                 current, found, manifests>>

UploadRaises ==
  /\ phase = "upload" /\ rootsLeft = {} /\ MayFail
  /\ \E o \in pending : ~o.inS3
  /\ Return("raised")
  /\ UNCHANGED <<inputVars, fileVars, synced, action, bucketVars>>

OutputsSynced ==
  /\ phase = "upload" /\ rootsLeft = {} /\ pending = {}
  /\ Return("ok")
  /\ UNCHANGED <<inputVars, fileVars, synced, action, bucketVars>>

-----------------------------------------------------------------------------
Next ==
  \/ BeginSyncInputs \/ Downloaded \/ MountVfs \/ SyncInputsFails \/ InputsSynced
  \/ BeginAction \/ BeginSyncOutputs \/ HashOutput \/ ScanRaises \/ RootScanned
  \/ UploadManifest \/ ManifestRaises \/ NextRoot \/ UploadRaises \/ OutputsSynced
  \/ \E f \in Files : DownloadFile(f) \/ RecordMtime(f) \/ VisitFile(f)
  \/ \E f \in TaskFiles : Write(f) \/ Backdate(f) \/ Vanish(f)
  \/ \E o \in pending : UploadFile(o)

Spec == Init /\ [][Next]_vars

-----------------------------------------------------------------------------
(* "Files that are new or have been modified since the last sync will be   *)
(* added to the output list": when sync_outputs returns, every version a   *)
(* task wrote into an output directory is in a manifest of the session, or *)
(* (when it was written meanwhile) the next sync_outputs will find it.     *)
Listed(f, c) == \E m \in manifests : \E e \in m.entries : e.file = f /\ e.hash = c

NothingMissed ==
  phase = "ready" /\ action > 0 /\ result[action] = "ok" =>
    \A f \in Outputs \cap written :
      Present(f) => Listed(f, disk[f].content) \/ IsModified(f)

(* The strengthening of NothingMissed that every step preserves when no    *)
(* call fails and no time goes back: a version that would not be found     *)
(* again is in a manifest or on its way into one.                          *)
OnItsWay(f, c) ==
  \/ phase = "hash" /\ current = f
  \/ \E o \in found \cup pending : o.file = f /\ o.hash = c

MissedInv ==
  /\ \A f \in Outputs \cap written :
       Present(f) /\ ~IsModified(f) => Listed(f, disk[f].content) \/ OnItsWay(f, disk[f].content)
  /\ \A o \in pending : Listed(o.file, o.hash)
  /\ \A f \in Files : synced[f] <= clock /\ (Present(f) => disk[f].mtime <= clock)
  /\ phase \in {"ready", "download", "mount", "record", "work"} => found = {} /\ pending = {}
  /\ phase = "upload" => found = {}

(* Only what a task wrote is hashed for a manifest: never an input as it   *)
(* was synced, nor a copy that the sync itself made.                       *)
OutputsAreWritten == phase = "hash" => current \in written

(* The strengthening of OutputsAreWritten: a file that no task wrote is a  *)
(* synced input with its manifest's time, which is on record by the time   *)
(* the next action runs.                                                   *)
CleanInv ==
  /\ OutputsAreWritten
  /\ \A f \in Files \ written : Present(f) =>
       /\ f \in DOMAIN merged /\ disk[f].mtime = InputTime
       /\ inputs = "ok" \/ (phase = "record" /\ f \notin todo) => synced[f] = InputTime
  /\ phase = "mount" => todo = DOMAIN merged
  /\ phase \in {"download", "mount", "record"} => inputs = "none"
  /\ phase \in {"work", "scan", "hash", "manifest", "upload"} => inputs = "ok"
  /\ syncs = 0 => merged = Inputs

(* step_dependencies, "the list of Step IDs whose output should be         *)
(* downloaded over the input job attachments": once a later input sync has *)
(* brought the files, a path that is both holds the step's output.         *)
InputsInPlace ==
  phase = "record" /\ syncs > 1 =>
    \A f \in DOMAIN Deps : Present(f) => disk[f].content = Deps[f]

(* "Virtual File System not found, falling back to COPIED": without the    *)
(* executable the inputs are copied, so that recording their modification  *)
(* times finds every file.                                                 *)
FallsBack == phase = "record" => \A f \in todo : Present(f)

(* What a job's downloads rely on: when sync_outputs returns, each object  *)
(* that the manifests of the action name is in the bucket, unless the file *)
(* was gone when it was to be uploaded.                                    *)
ManifestBacked ==
  \A m \in manifests : result[m.action] = "ok" =>
    \A e \in m.entries : store[e.hash] # NoObject \/ <<m.action, e.hash>> \in gone
=============================================================================
