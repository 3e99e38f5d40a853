------------------------- MODULE SessionSync_proofs -------------------------
(***************************************************************************)
(* Theorems about SessionSync, for every set of files, asset roots and     *)
(* contents and every bound on actions, syncs and times.                   *)
(***************************************************************************)
EXTENDS SessionSync, TLAPS

Syncing == {"scan", "hash", "manifest", "upload"}

(* TypeOK together with what keeps it: where the loops of a phase range,   *)
(* and that an action is numbered before it writes or reports.             *)
TypeInv ==
  /\ TypeOK
  /\ DOMAIN merged \subseteq DOMAIN Inputs \cup DOMAIN Deps
  /\ phase \in {"download", "mount", "record"} => todo \subseteq DOMAIN merged
  /\ action <= MaxActions
  /\ phase \in Syncing \cup {"work"} => action \in 1..MaxActions
  /\ phase = "hash" => current \in Files

(* At first the variables have their types.                                *)
LEMMA InitTypeInv == Init => TypeInv
BY SessionAssumption DEF Init, TypeInv, TypeOK, Syncing

(* What the merge of the manifests of a sync lists: the inputs, and the    *)
(* outputs of the steps depended on but for the first sync.                *)
LEMMA MergedType ==
  ASSUME NEW n \in Nat
  PROVE  /\ DOMAIN MergedFor(n) \subseteq DOMAIN Inputs \cup DOMAIN Deps
         /\ DOMAIN Inputs \subseteq DOMAIN MergedFor(n)
         /\ n # 0 => DOMAIN MergedFor(n) = DOMAIN Inputs \cup DOMAIN Deps
         /\ \A f \in DOMAIN MergedFor(n) : MergedFor(n)[f] \in Contents
<1>1. CASE n = 0
  BY <1>1, SessionAssumption DEF MergedFor
<1>2. CASE n # 0
  BY <1>2, SessionAssumption DEF MergedFor
<1> QED
  BY <1>1, <1>2

(* The input side: sync_inputs and attachment_sync_inputs. *)
LEMMA TypeInputs ==
  ASSUME TypeInv,
         \/ BeginSyncInputs \/ Downloaded \/ MountVfs \/ SyncInputsFails \/ InputsSynced
         \/ \E f \in Files : DownloadFile(f) \/ RecordMtime(f)
  PROVE  TypeInv'
<1> USE SessionAssumption DEF TypeInv, TypeOK, Syncing
<1>1. CASE BeginSyncInputs
  <2>1. merged' = MergedFor(syncs) /\ syncs \in Nat
    BY <1>1 DEF BeginSyncInputs
  <2>2. phase' \in {"download", "mount", "record"} /\ todo' = DOMAIN merged'
    BY <1>1 DEF BeginSyncInputs, AfterMissingVfs
  <2>3. DOMAIN merged' \subseteq Files /\ \A f \in DOMAIN merged' : merged'[f] \in Contents
    BY <2>1, MergedType
  <2>4. DOMAIN merged' \subseteq DOMAIN Inputs \cup DOMAIN Deps
    BY <2>1, MergedType
  <2>5. UNCHANGED <<fileVars, synced, action, result, scanVars, bucketVars>>
        /\ syncs' \in Nat /\ inputs' = "none"
    BY <1>1 DEF BeginSyncInputs
  <2> QED
    BY <2>2, <2>3, <2>4, <2>5 DEF fileVars, scanVars, bucketVars
<1>2. CASE Downloaded
  BY <1>2 DEF Downloaded, inputVars, fileVars, scanVars, bucketVars
<1>3. CASE MountVfs
  <2>1. disk' \in [Files -> [content : Contents, mtime : 0..MaxTime] \cup {Absent}]
    BY <1>3 DEF MountVfs
  <2>2. written' \subseteq Files /\ phase' = "record" /\ todo' = todo
    BY <1>3 DEF MountVfs
  <2>3. todo \subseteq DOMAIN merged
    BY <1>3 DEF MountVfs
  <2> QED
    BY <1>3, <2>1, <2>2, <2>3 DEF MountVfs, inputVars, scanVars, bucketVars
<1>4. CASE SyncInputsFails
  BY <1>4 DEF SyncInputsFails, fileVars, scanVars, bucketVars
<1>5. CASE InputsSynced
  BY <1>5 DEF InputsSynced, fileVars, scanVars, bucketVars
<1>6. ASSUME NEW f \in Files, DownloadFile(f) PROVE TypeInv'
  <2>1. Target(f) \in Files /\ merged[f] \in Contents
    BY <1>6 DEF DownloadFile, Target
  <2>2. disk' \in [Files -> [content : Contents, mtime : 0..MaxTime] \cup {Absent}]
    BY <1>6, <2>1 DEF DownloadFile
  <2> QED
    BY <1>6, <2>2 DEF DownloadFile, inputVars, scanVars, bucketVars
<1>7. ASSUME NEW f \in Files, RecordMtime(f) PROVE TypeInv'
  <2>1. synced' \in [Files -> 0..MaxTime]
    BY <1>7 DEF RecordMtime, Present
  <2> QED
    BY <1>7, <2>1 DEF RecordMtime, fileVars, scanVars, bucketVars
<1> QED
  BY <1>1, <1>2, <1>3, <1>4, <1>5, <1>6, <1>7

(* The tasks' side: what the session's actions write. *)
LEMMA TypeTasks ==
  ASSUME TypeInv,
         BeginAction \/ \E f \in TaskFiles : Write(f) \/ Backdate(f) \/ Vanish(f)
  PROVE  TypeInv'
<1> USE SessionAssumption DEF TypeInv, TypeOK, Syncing
<1>1. CASE BeginAction
  BY <1>1 DEF BeginAction, inputVars, fileVars, scanVars, bucketVars
<1>2. ASSUME NEW f \in TaskFiles, Write(f) PROVE TypeInv'
  <2>1. f \in Files /\ clock + 1 \in 0..MaxTime
    BY <1>2 DEF Write, TaskFiles
  <2>2. disk' \in [Files -> [content : Contents, mtime : 0..MaxTime] \cup {Absent}]
    BY <1>2, <2>1 DEF Write
  <2> QED
    BY <1>2, <2>1, <2>2 DEF Write, inputVars, scanVars, bucketVars
<1>3. ASSUME NEW f \in TaskFiles, Backdate(f) PROVE TypeInv'
  <2>1. f \in Files
    BY DEF TaskFiles
  <2>2. disk' \in [Files -> [content : Contents, mtime : 0..MaxTime] \cup {Absent}]
    <3>1. PICK c \in Contents, m \in 1..clock :
            disk' = [disk EXCEPT ![f] = [content |-> c, mtime |-> m]]
      BY <1>3 DEF Backdate
    <3>2. m \in 0..MaxTime
      OBVIOUS
    <3> QED
      BY <2>1, <3>1, <3>2
  <2> QED
    BY <1>3, <2>1, <2>2 DEF Backdate, inputVars, scanVars, bucketVars
<1>4. ASSUME NEW f \in TaskFiles, Vanish(f) PROVE TypeInv'
  BY <1>4 DEF Vanish, inputVars, scanVars, bucketVars
<1> QED
  BY <1>1, <1>2, <1>3, <1>4

(* The output side: sync_outputs. *)
LEMMA TypeOutputs ==
  ASSUME TypeInv,
         \/ BeginSyncOutputs \/ HashOutput \/ ScanRaises \/ RootScanned
         \/ UploadManifest \/ ManifestRaises \/ NextRoot \/ UploadRaises \/ OutputsSynced
         \/ \E f \in Files : VisitFile(f)
         \/ \E o \in pending : UploadFile(o)
  PROVE  TypeInv'
<1> USE SessionAssumption DEF TypeInv, TypeOK, Syncing
<1>1. CASE BeginSyncOutputs
  BY <1>1 DEF BeginSyncOutputs, inputVars, fileVars, bucketVars
<1>2. CASE HashOutput
  <2>1. disk[current] \in [content : Contents, mtime : 0..MaxTime]
    BY <1>2 DEF HashOutput, Present
  <2>2. found' \subseteq OutputFile
    <3>1. found' = found \cup {[file |-> current, hash |-> disk[current].content,
                                inS3 |-> store[disk[current].content] # NoObject]}
      BY <1>2 DEF HashOutput
    <3>2. (store[disk[current].content] # NoObject) \in BOOLEAN
      OBVIOUS
    <3>3. current \in Files /\ disk[current].content \in Contents
      BY <1>2, <2>1 DEF HashOutput
    <3> HIDE DEF TypeInv, TypeOK
    <3>4. found \subseteq OutputFile
      BY DEF TypeInv, TypeOK
    <3>5. \A b \in BOOLEAN : \A c \in Contents :
            [file |-> current, hash |-> c, inS3 |-> b] \in OutputFile
      BY <3>3 DEF OutputFile
    <3> HIDE DEF Syncing
    <3> QED
      BY <3>1, <3>2, <3>3, <3>4, <3>5, Zenon
  <2> QED
    BY <1>2, <2>2 DEF HashOutput, inputVars, fileVars, bucketVars
<1>3. ASSUME NEW r \in {"ok", "raised"}, Return(r),
             UNCHANGED <<inputVars, fileVars, synced, action, bucketVars>>
      PROVE  TypeInv'
  <2>1. result' \in [1..MaxActions -> {"none", "ok", "raised"}]
    BY <1>3 DEF Return
  <2> QED
    BY <1>3, <2>1 DEF Return, inputVars, fileVars, bucketVars
<1>4. CASE ScanRaises \/ ManifestRaises \/ UploadRaises \/ OutputsSynced
  BY <1>3, <1>4 DEF ScanRaises, ManifestRaises, UploadRaises, OutputsSynced
<1>5. CASE RootScanned
  BY <1>5 DEF RootScanned, inputVars, fileVars, scanVars, bucketVars
<1>6. CASE UploadManifest
  <2> DEFINE entries == {[file |-> o.file, hash |-> o.hash, mtime |-> disk[o.file].mtime] : o \in found}
  <2>1. \A o \in found : [file |-> o.file, hash |-> o.hash, mtime |-> disk[o.file].mtime] \in Entry
    BY <1>6 DEF UploadManifest, Present, OutputFile, Entry
  <2>2. [action |-> action, root |-> root, entries |-> entries]
          \in [action : 1..MaxActions, root : Roots, entries : SUBSET Entry]
    BY <1>6, <2>1 DEF UploadManifest
  <2>3. manifests' = manifests \cup {[action |-> action, root |-> root, entries |-> entries]}
    BY <1>6 DEF UploadManifest
  <2>4. manifests' \subseteq [action : 1..MaxActions, root : Roots, entries : SUBSET Entry]
    BY <2>2, <2>3 DEF entries
  <2> HIDE DEF entries
  <2> QED
    BY <1>6, <2>4 DEF UploadManifest, inputVars, fileVars
<1>7. CASE NextRoot
  BY <1>7 DEF NextRoot, inputVars, fileVars, bucketVars
<1>8. ASSUME NEW f \in Files, VisitFile(f) PROVE TypeInv'
  <2>1. RecordedTime(f) \in 0..MaxTime
    BY <1>8 DEF VisitFile, RecordedTime, Present
  <2>2. synced' \in [Files -> 0..MaxTime]
    BY <1>8, <2>1 DEF VisitFile
  <2>3. (phase' = "hash" /\ current' = f) \/ (phase' = phase /\ current' = current)
    BY <1>8 DEF VisitFile
  <2>4. phase = "scan" /\ todo' \subseteq Files
    BY <1>8 DEF VisitFile
  <2> QED
    BY <1>8, <2>2, <2>3, <2>4 DEF VisitFile, inputVars, fileVars, bucketVars
<1>9. ASSUME NEW o \in pending, UploadFile(o) PROVE TypeInv'
  <2>1. store' \in [Contents -> Contents \cup {NoObject}]
    BY <1>9 DEF UploadFile, SkipsUpload, Present, OutputFile
  <2>2. gone' \subseteq (1..MaxActions) \X Contents
    BY <1>9 DEF UploadFile, OutputFile
  <2> QED
    BY <1>9, <2>1, <2>2 DEF UploadFile, inputVars, fileVars
<1> QED
  BY <1>1, <1>2, <1>4, <1>5, <1>6, <1>7, <1>8, <1>9

(* Every step keeps the types, on every error path.                        *)
LEMMA NextTypeInv == TypeInv /\ [Next]_vars => TypeInv'
<1> SUFFICES ASSUME TypeInv, [Next]_vars PROVE TypeInv'
  OBVIOUS
<1>1. CASE UNCHANGED vars
  BY <1>1 DEF TypeInv, TypeOK, vars, inputVars, fileVars, scanVars, bucketVars
<1> QED
  BY <1>1, TypeInputs, TypeTasks, TypeOutputs DEF Next

(* Every variable of the session model keeps its type. *)
THEOREM TypeCorrect == Spec => []TypeOK
<1>1. TypeInv => TypeOK
  BY DEF TypeInv
<1> QED
  BY <1>1, InitTypeInv, NextTypeInv, PTL DEF Spec

-----------------------------------------------------------------------------
(* The benign session: nothing fails, no time goes back, and inputs are    *)
(* put in place by attachment_sync_inputs (by copying them, or by mounting *)
(* a virtual file system that is there).                                   *)
Benign ==
  /\ ~MayFail /\ ~MayVanish /\ ~MayBackdate
  /\ AttachmentSync /\ (Virtual => FALSE \notin VfsOutcomes)

(* What MissedInv needs besides: a synced input has no version of a task   *)
(* any more when its time is recorded, and files in hand still exist.      *)
FlowInv ==
  /\ InputTime <= clock
  /\ phase = "download" => \A f \in DOMAIN merged : f \in todo \/ f \notin written
  /\ phase = "record" => \A f \in DOMAIN merged : f \notin written
  /\ phase \in {"scan", "hash"} => \A f \in todo : Present(f)
  /\ phase = "hash" => Present(current)
  /\ \A o \in found : Present(o.file)

BenignInv == TypeInv /\ MissedInv /\ FlowInv

(* A step that leaves files, records and manifests alone, and takes        *)
(* nothing off its way into a manifest, loses no version.                  *)
LEMMA MissedFrame ==
  ASSUME MissedInv,
         UNCHANGED <<fileVars, synced, manifests>>,
         \A f \in Files, c \in Contents : OnItsWay(f, c) => OnItsWay(f, c)' \/ Listed(f, c),
         \A o \in pending' : Listed(o.file, o.hash),
         phase' \in {"ready", "download", "mount", "record", "work"} => found' = {} /\ pending' = {},
         phase' = "upload" => found' = {},
         TypeOK
  PROVE  MissedInv'
<1>1. ASSUME NEW f \in Files, NEW c \in Contents PROVE Listed(f, c)' <=> Listed(f, c)
  BY DEF Listed
<1>2. \A f \in Files : /\ IsModified(f)' <=> IsModified(f)
                       /\ Present(f)' <=> Present(f)
                       /\ disk' = disk
  BY DEF IsModified, Recorded, Present, fileVars
<1>3. ASSUME NEW f \in (Outputs \cap written)', Present(f)', ~IsModified(f)'
      PROVE  Listed(f, disk[f].content)' \/ OnItsWay(f, disk[f].content)'
  <2>1. f \in Outputs \cap written /\ f \in Files
    BY <1>3 DEF Outputs, fileVars, TypeOK
  <2>2. Present(f) /\ ~IsModified(f) /\ disk[f].content \in Contents
    BY <1>2, <1>3, <2>1 DEF TypeOK, Present
  <2>3. Listed(f, disk[f].content) \/ OnItsWay(f, disk[f].content)
    BY <2>1, <2>2 DEF MissedInv
  <2>4. Listed(f, disk[f].content) => Listed(f, disk[f].content)'
    BY <1>2, <2>1, <2>2 DEF Listed
  <2>5. OnItsWay(f, disk[f].content) => OnItsWay(f, disk[f].content)' \/ Listed(f, disk[f].content)
    BY <1>2, <2>1, <2>2 DEF OnItsWay
  <2> QED
    BY <2>3, <2>4, <2>5
<1>4. \A o \in pending' : Listed(o.file, o.hash)'
  BY DEF Listed
<1>5. \A f \in Files : synced'[f] <= clock' /\ (Present(f)' => disk'[f].mtime <= clock')
  BY <1>2 DEF MissedInv, fileVars
<1> QED
  BY <1>3, <1>4, <1>5 DEF MissedInv

(* The input side keeps the benign invariant: a file is downloaded over    *)
(* whatever version was there before its time is recorded.                 *)
LEMMA BenignInputs ==
  ASSUME Benign, BenignInv,
         \/ BeginSyncInputs \/ Downloaded \/ MountVfs \/ SyncInputsFails \/ InputsSynced
         \/ \E f \in Files : DownloadFile(f) \/ RecordMtime(f)
  PROVE  MissedInv' /\ FlowInv'
<1> USE SessionAssumption DEF BenignInv
<1> TypeOK
  BY DEF TypeInv
<1>0. phase \in {"ready", "download", "mount", "record"} /\ found = {} /\ pending = {}
      /\ UNCHANGED <<scanVars, bucketVars, clock, action, result>>
  BY DEF BeginSyncInputs, Downloaded, MountVfs, SyncInputsFails, InputsSynced,
         DownloadFile, RecordMtime, MissedInv, fileVars
<1>1. ASSUME NEW f \in Files, NEW c \in Contents PROVE ~OnItsWay(f, c) /\ (Listed(f, c)' <=> Listed(f, c))
  BY <1>0 DEF OnItsWay, Listed, bucketVars
<1>2. CASE BeginSyncInputs
  <2>1. phase' \in {"download", "mount"} /\ todo' = DOMAIN merged'
    BY <1>2 DEF BeginSyncInputs, AfterMissingVfs, Benign
  <2>2. UNCHANGED <<fileVars, synced, manifests>>
    BY <1>2 DEF BeginSyncInputs, bucketVars
  <2>3. MissedInv'
    BY <1>0, <1>1, <2>1, <2>2, MissedFrame DEF scanVars
  <2> QED
    BY <1>0, <2>1, <2>2, <2>3 DEF FlowInv, fileVars, scanVars
<1>3. CASE Downloaded
  <2>1. phase = "download" /\ phase' = "record" /\ todo = {} /\ UNCHANGED <<fileVars, synced, manifests, merged>>
    BY <1>3 DEF Downloaded, bucketVars, inputVars
  <2>2. MissedInv'
    BY <1>0, <1>1, <2>1, MissedFrame DEF scanVars
  <2> QED
    BY <1>0, <2>1, <2>2 DEF FlowInv, fileVars, scanVars
<1>4. CASE SyncInputsFails \/ InputsSynced
  <2>1. phase' = "ready" /\ UNCHANGED <<fileVars, synced, manifests>>
    BY <1>4 DEF SyncInputsFails, InputsSynced, Benign, bucketVars
  <2>2. MissedInv'
    BY <1>0, <1>1, <2>1, MissedFrame DEF scanVars
  <2> QED
    BY <1>0, <2>1, <2>2 DEF FlowInv, fileVars, scanVars
<1>5. ASSUME NEW g \in Files, DownloadFile(g) PROVE MissedInv' /\ FlowInv'
  <2>1. disk' = [disk EXCEPT ![g] = [content |-> merged[g], mtime |-> InputTime]]
        /\ written' = written \ {g} /\ todo' = todo \ {g} /\ phase = "download"
        /\ UNCHANGED <<phase, merged, clock, synced, manifests>>
    BY <1>5 DEF DownloadFile, Target, Benign, inputVars, bucketVars
  <2>2. ASSUME NEW f \in Files, f # g
        PROVE  (IsModified(f)' <=> IsModified(f)) /\ (Present(f)' <=> Present(f)) /\ disk'[f] = disk[f]
    BY <2>1, <2>2 DEF IsModified, Recorded, Present, TypeOK
  <2>3. disk'[g].mtime <= clock'
    BY <2>1 DEF FlowInv, TypeOK
  <2>4. MissedInv'
    <3>1. ASSUME NEW f \in (Outputs \cap written)', Present(f)', ~IsModified(f)'
          PROVE  Listed(f, disk[f].content)'
      <4>1. f \in Outputs \cap written /\ f \in Files /\ f # g
        BY <2>1, <3>1 DEF Outputs, TypeOK
      <4>2. Present(f) /\ ~IsModified(f) /\ disk'[f] = disk[f] /\ disk[f].content \in Contents
        BY <2>2, <3>1, <4>1 DEF TypeOK, Present
      <4>3. Listed(f, disk[f].content)
        BY <1>1, <4>1, <4>2 DEF MissedInv
      <4> QED
        BY <2>1, <4>2, <4>3 DEF Listed
    <3> QED
      BY <1>0, <2>1, <2>2, <2>3, <3>1 DEF MissedInv, scanVars
  <2> QED
    BY <1>0, <2>1, <2>4 DEF FlowInv, scanVars
<1>6. CASE MountVfs
  <2>1. disk' = [f \in Files |-> IF f \in DOMAIN merged
                 THEN [content |-> merged[f], mtime |-> InputTime] ELSE disk[f]]
        /\ written' = written \ DOMAIN merged /\ phase' = "record"
        /\ UNCHANGED <<merged, clock, synced, manifests>>
    BY <1>6 DEF MountVfs, inputVars, bucketVars
  <2>2. ASSUME NEW f \in Files, f \notin DOMAIN merged
        PROVE  (IsModified(f)' <=> IsModified(f)) /\ (Present(f)' <=> Present(f)) /\ disk'[f] = disk[f]
    BY <2>1, <2>2 DEF IsModified, Recorded, Present
  <2>3. ASSUME NEW f \in Files, f \in DOMAIN merged PROVE disk'[f].mtime <= clock'
    BY <2>1, <2>3 DEF FlowInv
  <2>4. MissedInv'
    <3>1. ASSUME NEW f \in (Outputs \cap written)', Present(f)', ~IsModified(f)'
          PROVE  Listed(f, disk[f].content)'
      <4>1. f \in Outputs \cap written /\ f \in Files /\ f \notin DOMAIN merged
        BY <2>1, <3>1 DEF Outputs, TypeOK
      <4>2. Present(f) /\ ~IsModified(f) /\ disk'[f] = disk[f] /\ disk[f].content \in Contents
        BY <2>2, <3>1, <4>1 DEF TypeOK, Present
      <4>3. Listed(f, disk[f].content)
        BY <1>1, <4>1, <4>2 DEF MissedInv
      <4> QED
        BY <2>1, <4>2, <4>3 DEF Listed
    <3>2. \A f \in Files : synced'[f] <= clock' /\ (Present(f)' => disk'[f].mtime <= clock')
      BY <2>1, <2>2, <2>3 DEF MissedInv
    <3> QED
      BY <1>0, <2>1, <3>1, <3>2 DEF MissedInv, scanVars
  <2> QED
    BY <1>0, <2>1, <2>4 DEF FlowInv, scanVars
<1>7. ASSUME NEW g \in Files, RecordMtime(g) PROVE MissedInv' /\ FlowInv'
  <2>1. phase = "record" /\ g \in DOMAIN merged /\ g \notin written
    BY <1>7 DEF RecordMtime, FlowInv, TypeInv
  <2>2. UNCHANGED <<fileVars, manifests, merged>> /\ phase' \in {"record", "ready"}
        /\ (synced' = synced \/ (Present(g) /\ synced' = [synced EXCEPT ![g] = disk[g].mtime]))
    BY <1>7, <2>1 DEF RecordMtime, bucketVars
  <2>3. ASSUME NEW f \in Files, f # g PROVE (IsModified(f)' <=> IsModified(f)) /\ synced'[f] = synced[f]
    BY <2>2, <2>3 DEF IsModified, Recorded, TypeOK, fileVars
  <2>4. synced'[g] <= clock'
    BY <2>2 DEF MissedInv, TypeOK, fileVars
  <2>5. MissedInv'
    <3>1. ASSUME NEW f \in (Outputs \cap written)', Present(f)', ~IsModified(f)'
          PROVE  Listed(f, disk[f].content)'
      <4>1. f \in Outputs \cap written /\ f \in Files /\ f # g
        BY <2>1, <2>2, <3>1 DEF Outputs, TypeOK, fileVars
      <4>2. Present(f) /\ ~IsModified(f) /\ disk[f].content \in Contents
        BY <2>2, <2>3, <3>1, <4>1 DEF TypeOK, Present, fileVars
      <4>3. Listed(f, disk[f].content)
        BY <1>1, <4>1, <4>2 DEF MissedInv
      <4> QED
        BY <2>2, <4>3 DEF Listed, fileVars
    <3>2. \A f \in Files : synced'[f] <= clock' /\ (Present(f)' => disk'[f].mtime <= clock')
      BY <2>2, <2>3, <2>4 DEF MissedInv, Present, fileVars
    <3> QED
      BY <1>0, <2>2, <3>1, <3>2 DEF MissedInv, scanVars
  <2> QED
    BY <1>0, <2>1, <2>2, <2>5 DEF FlowInv, scanVars, fileVars
<1> QED
  BY <1>2, <1>3, <1>4, <1>5, <1>6, <1>7

(* A write gets a time later than every recorded one, so the next          *)
(* sync_outputs finds the file modified.                                   *)
LEMMA BenignTasks ==
  ASSUME Benign, BenignInv,
         BeginAction \/ \E f \in TaskFiles : Write(f) \/ Backdate(f) \/ Vanish(f)
  PROVE  MissedInv' /\ FlowInv'
<1> USE SessionAssumption DEF BenignInv
<1> TypeOK
  BY DEF TypeInv
<1>1. CASE BeginAction
  <2>1. phase = "ready" /\ phase' = "work" /\ UNCHANGED <<fileVars, synced, manifests, merged, scanVars>>
    BY <1>1 DEF BeginAction, inputVars, bucketVars
  <2>2. found = {} /\ pending = {}
    BY <2>1 DEF MissedInv
  <2>3. MissedInv'
    BY <2>1, <2>2, MissedFrame DEF OnItsWay, scanVars
  <2> QED
    BY <2>1, <2>2, <2>3 DEF FlowInv, fileVars, scanVars
<1>2. ASSUME NEW g \in TaskFiles, Write(g) PROVE MissedInv' /\ FlowInv'
  <2>1. PICK c \in Contents : disk' = [disk EXCEPT ![g] = [content |-> c, mtime |-> clock + 1]]
    BY <1>2 DEF Write
  <2>2. g \in Files /\ clock' = clock + 1 /\ phase \notin {"download", "record"}
        /\ written' = written \cup {g}
        /\ UNCHANGED <<phase, todo, current, found, pending, synced, manifests>>
    BY <1>2 DEF Write, Writing, TaskFiles, scanVars, bucketVars
  <2>3. ASSUME NEW f \in Files, f # g
        PROVE  (IsModified(f)' <=> IsModified(f)) /\ (Present(f)' <=> Present(f)) /\ disk'[f] = disk[f]
    BY <2>1, <2>2, <2>3 DEF IsModified, Recorded, Present, TypeOK
  <2>4. IsModified(g)' /\ Present(g)' /\ disk'[g].mtime <= clock'
    <3>1. synced'[g] <= clock /\ disk'[g] = [content |-> c, mtime |-> clock + 1]
      BY <2>1, <2>2 DEF MissedInv, TypeOK
    <3>2. clock \in Nat /\ synced'[g] \in Nat /\ disk'[g] \in [content : Contents, mtime : 0..MaxTime]
      BY <1>2, <2>2, <3>1 DEF TypeOK, Write
    <3> QED
      BY <2>2, <3>1, <3>2 DEF IsModified, Present
  <2>5. MissedInv'
    <3>1. ASSUME NEW f \in (Outputs \cap written)', Present(f)', ~IsModified(f)'
          PROVE  Listed(f, disk[f].content)' \/ OnItsWay(f, disk[f].content)'
      <4>1. f \in Outputs \cap written /\ f \in Files /\ f # g
        BY <2>2, <2>4, <3>1 DEF Outputs, TypeOK
      <4>2. Present(f) /\ ~IsModified(f) /\ disk'[f] = disk[f]
        BY <2>3, <3>1, <4>1
      <4>3. Listed(f, disk[f].content) \/ OnItsWay(f, disk[f].content)
        BY <4>1, <4>2 DEF MissedInv
      <4> QED
        BY <2>2, <4>2, <4>3 DEF Listed, OnItsWay
    <3>2. \A f \in Files : synced'[f] <= clock' /\ (Present(f)' => disk'[f].mtime <= clock')
      BY <2>2, <2>3, <2>4 DEF MissedInv, TypeOK, Present
    <3>3. \A o \in pending' : Listed(o.file, o.hash)'
      BY <2>2 DEF MissedInv, Listed
    <3> QED
      BY <2>2, <3>1, <3>2, <3>3 DEF MissedInv
  <2>6. \A f \in Files : Present(f) => Present(f)'
    BY <2>3, <2>4
  <2>7. \A o \in found : o.file \in Files
    BY DEF TypeOK, OutputFile
  <2> QED
    BY <2>2, <2>5, <2>6, <2>7 DEF FlowInv, TypeInv, TypeOK
<1>3. ASSUME NEW g \in TaskFiles, Backdate(g) \/ Vanish(g) PROVE FALSE
  BY <1>3 DEF Backdate, Vanish, Benign
<1> QED
  BY <1>1, <1>2, <1>3

(* sync_outputs takes every version it finds into a manifest. *)
LEMMA BenignOutputs ==
  ASSUME Benign, BenignInv,
         \/ BeginSyncOutputs \/ HashOutput \/ ScanRaises \/ RootScanned
         \/ UploadManifest \/ ManifestRaises \/ NextRoot \/ UploadRaises \/ OutputsSynced
         \/ \E f \in Files : VisitFile(f)
         \/ \E o \in pending : UploadFile(o)
  PROVE  MissedInv' /\ FlowInv'
<1> USE SessionAssumption DEF BenignInv
<1> TypeOK
  BY DEF TypeInv
<1>1. CASE BeginSyncOutputs
  <2>1. phase = "work" /\ phase' = "scan" /\ UNCHANGED <<fileVars, synced, manifests, merged, found, pending>>
        /\ \A f \in todo' : Present(f)
    BY <1>1 DEF BeginSyncOutputs, inputVars, bucketVars
  <2>2. MissedInv'
    BY <2>1, MissedFrame DEF OnItsWay, MissedInv
  <2> QED
    BY <2>1, <2>2 DEF FlowInv, fileVars, Present
<1>2. CASE NextRoot
  <2>1. phase = "upload" /\ phase' = "scan" /\ UNCHANGED <<fileVars, synced, manifests, merged, found, pending>>
        /\ \A f \in todo' : Present(f)
    BY <1>2 DEF NextRoot, inputVars, bucketVars
  <2>2. MissedInv'
    BY <2>1, MissedFrame DEF OnItsWay, MissedInv
  <2> QED
    BY <2>1, <2>2 DEF FlowInv, fileVars, Present
<1>3. CASE HashOutput
  <2>1. phase = "hash" /\ phase' = "scan" /\ UNCHANGED <<fileVars, synced, manifests, merged, todo, pending>>
    BY <1>3 DEF HashOutput, inputVars, bucketVars
  <2> DEFINE o == [file |-> current, hash |-> disk[current].content,
                   inS3 |-> store[disk[current].content] # NoObject]
  <2>2. found' = found \cup {o} /\ o.file = current /\ o.hash = disk[current].content
    <3>1. found' = found \cup {o}
      BY <1>3, Zenon DEF HashOutput
    <3> QED
      BY <3>1, Zenon
  <2> HIDE DEF o
  <2>3. \A f \in Files, c \in Contents : OnItsWay(f, c) /\ c = disk[f].content => OnItsWay(f, c)'
    BY <2>1, <2>2 DEF OnItsWay
  <2>4. MissedInv'
    <3>1. ASSUME NEW f \in (Outputs \cap written)', Present(f)', ~IsModified(f)'
          PROVE  Listed(f, disk[f].content)' \/ OnItsWay(f, disk[f].content)'
      <4>1. f \in Outputs \cap written /\ f \in Files /\ Present(f) /\ ~IsModified(f)
        BY <2>1, <3>1 DEF Outputs, TypeOK, fileVars, IsModified, Recorded, Present
      <4>2. disk' = disk /\ disk[f].content \in Contents
        BY <2>1, <4>1 DEF TypeOK, fileVars, Present
      <4>3. Listed(f, disk[f].content) \/ OnItsWay(f, disk[f].content)
        BY <4>1 DEF MissedInv
      <4> QED
        BY <2>1, <2>3, <4>1, <4>2, <4>3 DEF Listed
    <3>2. \A f \in Files : synced'[f] <= clock' /\ (Present(f)' => disk'[f].mtime <= clock')
      BY <2>1 DEF MissedInv, fileVars, Present
    <3>3. \A p \in pending' : Listed(p.file, p.hash)'
      BY <2>1 DEF MissedInv, Listed
    <3> QED
      BY <2>1, <3>1, <3>2, <3>3 DEF MissedInv
  <2> QED
    BY <2>1, <2>2, <2>4 DEF FlowInv, fileVars, Present
<1>4. CASE ScanRaises \/ ManifestRaises \/ UploadRaises
  BY <1>4 DEF ScanRaises, ManifestRaises, UploadRaises, Benign, FlowInv
<1>5. CASE RootScanned
  <2>1. phase = "scan" /\ UNCHANGED <<fileVars, synced, manifests, merged, todo, scanVars>>
        /\ (phase' = "manifest" \/ (phase' = "upload" /\ found = {}))
    BY <1>5 DEF RootScanned, inputVars, bucketVars
  <2>2. MissedInv'
    BY <2>1, MissedFrame DEF OnItsWay, MissedInv, scanVars
  <2> QED
    BY <2>1, <2>2 DEF FlowInv, fileVars, Present, scanVars
<1>6. CASE UploadManifest
  <2> DEFINE entries == {[file |-> o.file, hash |-> o.hash, mtime |-> disk[o.file].mtime] : o \in found}
             m == [action |-> action, root |-> root, entries |-> entries]
  <2>1. phase = "manifest" /\ phase' = "upload" /\ found' = {} /\ pending' = pending \cup found
        /\ manifests' = manifests \cup {m} /\ UNCHANGED <<fileVars, synced, merged, todo>>
    BY <1>6 DEF UploadManifest, inputVars
  <2>2. \A o \in found : Listed(o.file, o.hash)'
    <3> TAKE o \in found
    <3>1. m.entries = entries /\ m \in manifests'
      BY <2>1
    <3>2. [file |-> o.file, hash |-> o.hash, mtime |-> disk[o.file].mtime] \in entries
      OBVIOUS
    <3> HIDE DEF m, entries
    <3> QED
      BY <3>1, <3>2 DEF Listed
  <2> HIDE DEF m
  <2>3. \A f \in Files, c \in Contents : Listed(f, c) => Listed(f, c)'
    BY <2>1 DEF Listed
  <2>4. \A o \in pending' : Listed(o.file, o.hash)'
    BY <2>1, <2>2 DEF MissedInv, Listed
  <2>5. MissedInv'
    <3>1. ASSUME NEW f \in (Outputs \cap written)', Present(f)', ~IsModified(f)'
          PROVE  Listed(f, disk[f].content)' \/ OnItsWay(f, disk[f].content)'
      <4>1. f \in Outputs \cap written /\ f \in Files /\ Present(f) /\ ~IsModified(f)
        BY <2>1, <3>1 DEF Outputs, TypeOK, fileVars, IsModified, Recorded, Present
      <4>2. disk' = disk /\ disk[f].content \in Contents
        BY <2>1, <4>1 DEF TypeOK, fileVars, Present
      <4>3. Listed(f, disk[f].content) \/ OnItsWay(f, disk[f].content)
        BY <4>1 DEF MissedInv
      <4>4. OnItsWay(f, disk[f].content) => OnItsWay(f, disk[f].content)'
        BY <2>1, <4>2 DEF OnItsWay
      <4>5. Listed(f, disk[f].content) => Listed(f, disk[f].content)'
        BY <2>1, <4>2 DEF Listed
      <4> QED
        BY <4>3, <4>4, <4>5
    <3>2. \A f \in Files : synced'[f] <= clock' /\ (Present(f)' => disk'[f].mtime <= clock')
      BY <2>1 DEF MissedInv, fileVars, Present
    <3> QED
      BY <2>1, <2>4, <3>1, <3>2 DEF MissedInv
  <2> QED
    BY <2>1, <2>5 DEF FlowInv, fileVars, Present
<1>7. CASE OutputsSynced
  <2>1. phase = "upload" /\ found = {} /\ pending = {} /\ phase' = "ready" /\ found' = {} /\ pending' = {}
        /\ UNCHANGED <<fileVars, synced, manifests, merged>>
    BY <1>7 DEF OutputsSynced, Return, MissedInv, inputVars, bucketVars
  <2>2. MissedInv'
    BY <2>1, MissedFrame DEF OnItsWay
  <2> QED
    BY <2>1, <2>2 DEF FlowInv, fileVars
<1>8. ASSUME NEW g \in Files, VisitFile(g) PROVE MissedInv' /\ FlowInv'
  <2>1. phase = "scan" /\ Present(g) /\ synced' = [synced EXCEPT ![g] = RecordedTime(g)]
        /\ UNCHANGED <<fileVars, manifests, merged, found, pending>> /\ todo' \subseteq todo
        /\ (IsModified(g) => phase' = "hash" /\ current' = g)
        /\ (phase' = "scan" \/ (phase' = "hash" /\ current' = g))
    BY <1>8 DEF VisitFile, inputVars, bucketVars
  <2>2. synced'[g] <= clock /\ (~IsModified(g) => synced' = synced)
    BY <2>1 DEF RecordedTime, MissedInv, TypeOK, IsModified
  <2>3. MissedInv'
    <3>1. ASSUME NEW f \in (Outputs \cap written)', Present(f)', ~IsModified(f)'
          PROVE  Listed(f, disk[f].content)' \/ OnItsWay(f, disk[f].content)'
      <4>1. f \in Outputs \cap written /\ f \in Files /\ Present(f) /\ disk' = disk
        BY <2>1, <3>1 DEF Outputs, TypeOK, fileVars, Present
      <4>2. CASE f = g /\ IsModified(g)
        BY <2>1, <4>2 DEF OnItsWay
      <4>3. CASE f # g \/ ~IsModified(g)
        <5>1. synced'[f] = synced[f] /\ ~IsModified(f)
          BY <2>1, <2>2, <3>1, <4>1, <4>3 DEF TypeOK, IsModified, Recorded
        <5>2. Listed(f, disk[f].content) \/ OnItsWay(f, disk[f].content)
          BY <4>1, <5>1 DEF MissedInv
        <5> QED
          BY <2>1, <4>1, <5>2 DEF Listed, OnItsWay
      <4> QED
        BY <4>2, <4>3
    <3>2. \A f \in Files : synced'[f] <= clock' /\ (Present(f)' => disk'[f].mtime <= clock')
      BY <2>1, <2>2 DEF MissedInv, fileVars, Present, TypeOK
    <3>3. \A p \in pending' : Listed(p.file, p.hash)'
      BY <2>1 DEF MissedInv, Listed
    <3> QED
      BY <2>1, <3>1, <3>2, <3>3 DEF MissedInv
  <2> QED
    BY <2>1, <2>3 DEF FlowInv, fileVars, Present
<1>9. ASSUME NEW o \in pending, UploadFile(o) PROVE MissedInv' /\ FlowInv'
  <2>1. phase = "upload" /\ pending' = pending \ {o}
        /\ UNCHANGED <<phase, fileVars, synced, manifests, merged, found, todo, current>>
    BY <1>9 DEF UploadFile, inputVars
  <2>2. \A f \in Files, c \in Contents : OnItsWay(f, c) => OnItsWay(f, c)' \/ Listed(f, c)
    BY <2>1 DEF OnItsWay, MissedInv
  <2>3. MissedInv'
    BY <2>1, <2>2, MissedFrame DEF MissedInv
  <2> QED
    BY <2>1, <2>3 DEF FlowInv, fileVars, Present
<1> QED
  BY <1>1, <1>2, <1>3, <1>4, <1>5, <1>6, <1>7, <1>8, <1>9

(* At first nothing was written, and nothing can be missed.                *)
LEMMA BenignInit == ASSUME Init PROVE MissedInv /\ FlowInv
BY SessionAssumption DEF Init, MissedInv, FlowInv, Present

(* Without failures, vanishing files and backdated times every step keeps  *)
(* it so.                                                                  *)
LEMMA BenignNext == ASSUME Benign PROVE BenignInv /\ [Next]_vars => BenignInv'
<1> SUFFICES ASSUME BenignInv, [Next]_vars PROVE BenignInv'
  OBVIOUS
<1>1. TypeInv'
  BY NextTypeInv DEF BenignInv
<1>2. CASE UNCHANGED vars
  <2>1. UNCHANGED <<fileVars, synced, manifests, merged, phase, todo, current, found, pending>>
    BY <1>2 DEF vars, inputVars, scanVars, bucketVars
  <2>2. MissedInv'
    BY <2>1, MissedFrame DEF BenignInv, TypeInv, OnItsWay, MissedInv
  <2> QED
    BY <1>1, <2>1, <2>2 DEF BenignInv, FlowInv, fileVars, Present
<1> QED
  BY <1>1, <1>2, BenignInputs, BenignTasks, BenignOutputs DEF Next, BenignInv

(* No version of an output is ever left where neither a manifest nor the   *)
(* next sync_outputs would have it, while processes of the task go on      *)
(* writing under the running sync.                                         *)
THEOREM MissedInvariant ==
  ASSUME Benign
  PROVE  Spec => []MissedInv
<1>1. Init => BenignInv
  BY InitTypeInv, BenignInit DEF BenignInv
<1>2. BenignInv => MissedInv
  BY DEF BenignInv
<1> QED
  BY <1>1, <1>2, BenignNext, PTL DEF Spec

(* When sync_outputs returns, every version a task wrote into an output    *)
(* directory is in a manifest, or newer than what the session remembers.   *)
THEOREM NothingIsMissed ==
  ASSUME Benign
  PROVE  Spec => []NothingMissed
<1>1. MissedInv => NothingMissed
  <2> SUFFICES ASSUME MissedInv, phase = "ready", NEW f \in Outputs \cap written,
                      Present(f), ~IsModified(f)
               PROVE  Listed(f, disk[f].content)
    BY DEF NothingMissed
  <2>1. found = {} /\ pending = {}
    BY DEF MissedInv
  <2> QED
    BY <2>1 DEF MissedInv, OnItsWay
<1> QED
  BY <1>1, MissedInvariant, PTL

-----------------------------------------------------------------------------
(* The input side makes every file it puts in place one whose time is on   *)
(* record when it returns.                                                 *)
LEMMA CleanInputs ==
  ASSUME AttachmentSync, TypeInv, CleanInv,
         \/ BeginSyncInputs \/ Downloaded \/ MountVfs \/ SyncInputsFails \/ InputsSynced
         \/ \E f \in Files : DownloadFile(f) \/ RecordMtime(f)
  PROVE  CleanInv'
<1> USE SessionAssumption
<1> TypeOK
  BY DEF TypeInv
<1>1. CASE BeginSyncInputs
  <2>1. merged' = MergedFor(syncs) /\ syncs \in Nat /\ syncs' = syncs + 1 /\ inputs' = "none"
        /\ todo' = DOMAIN merged' /\ phase' \in {"download", "mount", "record"}
        /\ UNCHANGED <<fileVars, synced>>
    BY <1>1 DEF BeginSyncInputs, AfterMissingVfs, TypeOK
  <2>2. DOMAIN merged \subseteq DOMAIN merged'
    <3>1. CASE syncs = 0
      BY <2>1, <3>1 DEF CleanInv, MergedFor
    <3>2. CASE syncs # 0
      BY <2>1, <3>2, MergedType DEF TypeInv
    <3> QED
      BY <3>1, <3>2
  <2> QED
    BY <2>1, <2>2 DEF CleanInv, OutputsAreWritten, Present, fileVars
<1>2. CASE Downloaded
  BY <1>2 DEF Downloaded, CleanInv, OutputsAreWritten, Present, inputVars, fileVars
<1>3. CASE MountVfs
  <2>1. disk' = [f \in Files |-> IF f \in DOMAIN merged
                 THEN [content |-> merged[f], mtime |-> InputTime] ELSE disk[f]]
        /\ written' = written \ DOMAIN merged /\ phase = "mount" /\ phase' = "record"
        /\ UNCHANGED <<inputVars, todo, synced>>
    BY <1>3 DEF MountVfs
  <2>2. ASSUME NEW f \in Files \ written', Present(f)'
        PROVE  f \in DOMAIN merged /\ disk'[f].mtime = InputTime
    BY <2>1, <2>2 DEF CleanInv, Present
  <2>3. inputs = "none" /\ todo = DOMAIN merged
    BY <2>1 DEF CleanInv
  <2> QED
    BY <2>1, <2>2, <2>3 DEF CleanInv, OutputsAreWritten, inputVars
<1>4. CASE SyncInputsFails
  BY <1>4 DEF SyncInputsFails, CleanInv, OutputsAreWritten, Present, fileVars
<1>5. CASE InputsSynced
  BY <1>5 DEF InputsSynced, CleanInv, OutputsAreWritten, Present, fileVars
<1>6. ASSUME NEW g \in Files, DownloadFile(g) PROVE CleanInv'
  <2>1. disk' = [disk EXCEPT ![g] = [content |-> merged[g], mtime |-> InputTime]]
        /\ written' = written \ {g} /\ g \in todo /\ todo' = todo \ {g} /\ phase = "download"
        /\ UNCHANGED <<phase, inputVars, synced>>
    BY <1>6 DEF DownloadFile, Target
  <2>2. ASSUME NEW f \in Files \ written', Present(f)'
        PROVE  f \in DOMAIN merged /\ disk'[f].mtime = InputTime
    BY <2>1, <2>2 DEF CleanInv, Present, TypeInv, TypeOK
  <2> QED
    BY <2>1, <2>2 DEF CleanInv, OutputsAreWritten, inputVars
<1>7. ASSUME NEW g \in Files, RecordMtime(g) PROVE CleanInv'
  <2>1. phase = "record" /\ g \in todo /\ UNCHANGED <<merged, syncs, fileVars>>
    BY <1>7 DEF RecordMtime
  <2>2. CASE Present(g) /\ synced' = [synced EXCEPT ![g] = disk[g].mtime]
             /\ todo' = todo \ {g} /\ UNCHANGED <<phase, inputs>>
    BY <2>1, <2>2 DEF CleanInv, OutputsAreWritten, Present, fileVars, TypeOK
  <2>3. CASE phase' = "ready" /\ inputs' = "raised" /\ todo' = {} /\ UNCHANGED synced
    BY <2>1, <2>3 DEF CleanInv, OutputsAreWritten, Present, fileVars
  <2> QED
    BY <1>7, <2>2, <2>3 DEF RecordMtime
<1> QED
  BY <1>1, <1>2, <1>3, <1>4, <1>5, <1>6, <1>7

(* The tasks and sync_outputs keep the records of the inputs. *)
LEMMA CleanRest ==
  ASSUME InputTime > 0, TypeInv, CleanInv,
         \/ BeginAction \/ \E f \in TaskFiles : Write(f) \/ Backdate(f) \/ Vanish(f)
         \/ BeginSyncOutputs \/ HashOutput \/ ScanRaises \/ RootScanned
         \/ UploadManifest \/ ManifestRaises \/ NextRoot \/ UploadRaises \/ OutputsSynced
         \/ \E f \in Files : VisitFile(f)
         \/ \E o \in pending : UploadFile(o)
  PROVE  CleanInv'
<1> USE SessionAssumption
<1> TypeOK
  BY DEF TypeInv
<1>1. CASE BeginAction
  BY <1>1 DEF BeginAction, CleanInv, OutputsAreWritten, Present, inputVars, fileVars
<1>2. ASSUME NEW g \in TaskFiles, Write(g) \/ Backdate(g) PROVE CleanInv'
  <2>1. (\E v : disk' = [disk EXCEPT ![g] = v]) /\ written' = written \cup {g}
        /\ phase \in Syncing \cup {"work"} /\ UNCHANGED <<phase, inputVars, todo, synced, current>>
    BY <1>2 DEF Write, Backdate, Writing, Syncing, scanVars
  <2>2. ASSUME NEW f \in Files \ written' PROVE f # g /\ f \notin written /\ disk'[f] = disk[f]
    BY <2>1, <2>2 DEF TypeOK
  <2> QED
    BY <2>1, <2>2 DEF CleanInv, OutputsAreWritten, Present, inputVars
<1>3. ASSUME NEW g \in TaskFiles, Vanish(g) PROVE CleanInv'
  <2>1. disk' = [disk EXCEPT ![g] = Absent] /\ UNCHANGED <<phase, inputVars, todo, synced, current, written>>
    BY <1>3 DEF Vanish, scanVars
  <2>2. ASSUME NEW f \in Files, Present(f)' PROVE Present(f) /\ disk'[f] = disk[f]
    BY <2>1, <2>2 DEF TypeOK, Present
  <2> QED
    BY <2>1, <2>2 DEF CleanInv, OutputsAreWritten, inputVars
<1>4. ASSUME phase \in Syncing \cup {"work"}, phase' # "hash",
             phase' \in Syncing \cup {"ready"}, UNCHANGED <<inputVars, fileVars, synced>>
      PROVE  CleanInv'
  BY <1>4 DEF CleanInv, OutputsAreWritten, Present, inputVars, fileVars, Syncing
<1>5. CASE \/ BeginSyncOutputs \/ HashOutput \/ ScanRaises \/ RootScanned \/ UploadManifest
           \/ ManifestRaises \/ NextRoot \/ UploadRaises \/ OutputsSynced
  BY <1>4, <1>5 DEF BeginSyncOutputs, HashOutput, ScanRaises, RootScanned, UploadManifest,
       ManifestRaises, NextRoot, UploadRaises, OutputsSynced, Return, Syncing
<1>6. ASSUME NEW o \in pending, UploadFile(o) PROVE CleanInv'
  BY <1>4, <1>6 DEF UploadFile, Syncing
<1>7. ASSUME NEW g \in Files, VisitFile(g) PROVE CleanInv'
  <2>1. phase = "scan" /\ Present(g) /\ synced' = [synced EXCEPT ![g] = RecordedTime(g)]
        /\ UNCHANGED <<inputVars, fileVars>>
        /\ ((IsModified(g) /\ phase' = "hash" /\ current' = g) \/ phase' = "scan")
    BY <1>7 DEF VisitFile
  <2>2. ASSUME g \notin written PROVE synced[g] = InputTime /\ disk[g].mtime = InputTime
    BY <2>1, <2>2 DEF CleanInv
  <2>3. ASSUME g \notin written PROVE synced' = synced /\ ~IsModified(g)
    BY <2>1, <2>2, <2>3 DEF RecordedTime, Recorded, IsModified, TypeOK
  <2>4. ASSUME NEW f \in Files \ written PROVE synced'[f] = synced[f]
    BY <2>1, <2>3 DEF TypeOK
  <2> QED
    BY <2>1, <2>3, <2>4 DEF CleanInv, OutputsAreWritten, Present, inputVars, fileVars
<1> QED
  BY <1>1, <1>2, <1>3, <1>5, <1>6, <1>7

(* An input is never taken for an output: with attachment_sync_inputs, and *)
(* whatever fails, vanishes or goes back in time, only files that a task   *)
(* wrote are hashed for an output manifest (time 0 counts as "no entry").  *)
THEOREM InputsAreNotOutputs ==
  ASSUME AttachmentSync, InputTime > 0
  PROVE  Spec => []OutputsAreWritten
<1>1. Init => TypeInv /\ CleanInv
  <2>1. Init => CleanInv
    BY DEF Init, CleanInv, OutputsAreWritten, Present
  <2> QED
    BY <2>1, InitTypeInv
<1>2. TypeInv /\ CleanInv /\ [Next]_vars => (TypeInv /\ CleanInv)'
  <2> SUFFICES ASSUME TypeInv, CleanInv, [Next]_vars PROVE CleanInv'
    BY NextTypeInv
  <2>1. CASE UNCHANGED vars
    BY <2>1 DEF vars, inputVars, fileVars, scanVars, CleanInv, OutputsAreWritten, Present
  <2> QED
    BY <2>1, CleanInputs, CleanRest DEF Next
<1>3. CleanInv => OutputsAreWritten
  BY DEF CleanInv
<1> QED
  BY <1>1, <1>2, <1>3, PTL DEF Spec

-----------------------------------------------------------------------------
(* Files are where an input sync means to have put them: both properties   *)
(* follow how far the download is, and nothing else writes meanwhile.      *)
VfsIsThere == AttachmentSync /\ Virtual => FALSE \notin VfsOutcomes

PutInPlace ==
  /\ phase = "download" => \A f \in DOMAIN merged \ todo : Present(f)
  /\ phase = "mount" => todo \subseteq DOMAIN merged
  /\ phase = "record" => \A f \in todo : Present(f)

DepsInPlace ==
  /\ phase \in {"download", "mount"} /\ syncs > 1 =>
       \A f \in DOMAIN Deps : f \in DOMAIN merged /\ merged[f] = Deps[f]
  /\ phase = "download" /\ syncs > 1 =>
       \A f \in DOMAIN Deps \ todo : Present(f) => disk[f].content = Deps[f]
  /\ InputsInPlace

InputPhases == {"download", "mount", "record"}

(* The steps that are not of an input sync do not lead into one.           *)
LEMMA OutsideInputs ==
  ASSUME TypeInv,
         \/ BeginAction \/ \E f \in TaskFiles : Write(f) \/ Backdate(f) \/ Vanish(f)
         \/ BeginSyncOutputs \/ HashOutput \/ ScanRaises \/ RootScanned
         \/ UploadManifest \/ ManifestRaises \/ NextRoot \/ UploadRaises \/ OutputsSynced
         \/ \E f \in Files : VisitFile(f)
         \/ \E o \in pending : UploadFile(o)
  PROVE  phase' \notin InputPhases
<1> QED
  BY DEF BeginAction, Write, Backdate, Vanish, Writing, BeginSyncOutputs, HashOutput, ScanRaises,
     RootScanned, UploadManifest, ManifestRaises, NextRoot, UploadRaises, OutputsSynced, VisitFile,
     UploadFile, Return, InputPhases

(* The steps of an input sync keep that a file whose time is recorded is   *)
(* in its place.                                                           *)
LEMMA PutStep ==
  ASSUME VfsIsThere, TypeInv, PutInPlace,
         \/ BeginSyncInputs \/ Downloaded \/ MountVfs \/ SyncInputsFails \/ InputsSynced
         \/ \E f \in Files : DownloadFile(f) \/ RecordMtime(f)
  PROVE  PutInPlace'
<1> USE SessionAssumption DEF PutInPlace
<1> TypeOK
  BY DEF TypeInv
<1>1. CASE BeginSyncInputs
  <2>1. phase' \in {"download", "mount"} /\ todo' = DOMAIN merged'
    BY <1>1 DEF BeginSyncInputs, AfterMissingVfs, VfsIsThere
  <2> QED BY <2>1
<1>2. CASE Downloaded
  BY <1>2 DEF Downloaded, inputVars, fileVars, Present
<1>3. CASE MountVfs
  <2>1. phase' = "record" /\ todo' = todo /\ todo \subseteq DOMAIN merged
    BY <1>3 DEF MountVfs
  <2>2. ASSUME NEW f \in todo PROVE Present(f)'
    <3>1. f \in Files /\ f \in DOMAIN merged /\ merged[f] \in Contents
      BY <2>1 DEF TypeOK
    <3>2. disk'[f] = [content |-> merged[f], mtime |-> InputTime]
      BY <1>3, <3>1 DEF MountVfs
    <3> QED BY <3>1, <3>2 DEF Present
  <2> QED BY <2>1, <2>2
<1>4. CASE SyncInputsFails
  BY <1>4 DEF SyncInputsFails
<1>5. CASE InputsSynced
  BY <1>5 DEF InputsSynced
<1>6. ASSUME NEW g \in Files, DownloadFile(g) PROVE PutInPlace'
  <2>1. phase = "download" /\ phase' = "download" /\ g \in todo /\ todo' = todo \ {g} /\ merged' = merged
    BY <1>6 DEF DownloadFile, inputVars
  <2>2. g \in DOMAIN merged /\ merged[g] \in Contents /\ Target(g) \in Files
    BY <2>1 DEF TypeInv, TypeOK, Target
  <2>3. disk' = [disk EXCEPT ![Target(g)] = [content |-> merged[g], mtime |-> InputTime]]
    BY <1>6 DEF DownloadFile
  <2>4. [content |-> merged[g], mtime |-> InputTime] # Absent
    BY <2>2
  <2>5. \A f \in Files : Present(f) => Present(f)'
    BY <2>2, <2>3, <2>4 DEF Present, TypeOK
  <2>6. Present(g)'
    <3>1. CASE Present(g)
      BY <2>5, <3>1
    <3>2. CASE ~Present(g)
      <4>1. Target(g) = g
        BY <3>2 DEF Target
      <4> QED BY <2>3, <2>4, <4>1 DEF Present, TypeOK
    <3> QED BY <3>1, <3>2
  <2> QED BY <2>1, <2>5, <2>6 DEF TypeOK
<1>7. ASSUME NEW g \in Files, RecordMtime(g) PROVE PutInPlace'
  BY <1>7 DEF RecordMtime, fileVars, Present
<1> QED
  BY <1>1, <1>2, <1>3, <1>4, <1>5, <1>6, <1>7

(* Recording the inputs' times finds every file, where the executable that *)
(* attachment_sync_inputs relies on is there: nothing else is assumed of   *)
(* failures, deleted files or times.                                       *)
THEOREM FallbackCopies ==
  ASSUME VfsIsThere
  PROVE  Spec => []FallsBack
<1>1. Init => TypeInv /\ PutInPlace
  BY InitTypeInv DEF Init, PutInPlace
<1>2. TypeInv /\ PutInPlace /\ [Next]_vars => (TypeInv /\ PutInPlace)'
  <2> SUFFICES ASSUME TypeInv, PutInPlace, [Next]_vars PROVE PutInPlace'
    BY NextTypeInv
  <2>1. CASE UNCHANGED vars
    BY <2>1 DEF vars, inputVars, fileVars, PutInPlace, Present
  <2>2. CASE phase' \notin InputPhases
    BY <2>2 DEF PutInPlace, InputPhases
  <2> QED
    BY <2>1, <2>2, PutStep, OutsideInputs DEF Next
<1>3. PutInPlace => FallsBack
  BY DEF PutInPlace, FallsBack
<1> QED
  BY <1>1, <1>2, <1>3, PTL DEF Spec

(* They keep that the output of a step depended on is what is put there.   *)
LEMMA DepsStep ==
  ASSUME AttachmentSync, VfsIsThere, TypeInv, DepsInPlace,
         \/ BeginSyncInputs \/ Downloaded \/ MountVfs \/ SyncInputsFails \/ InputsSynced
         \/ \E f \in Files : DownloadFile(f) \/ RecordMtime(f)
  PROVE  DepsInPlace'
<1> USE SessionAssumption DEF DepsInPlace, InputsInPlace
<1> TypeOK
  BY DEF TypeInv
<1>1. CASE BeginSyncInputs
  <2>1. /\ phase' \in {"download", "mount"} /\ todo' = DOMAIN merged'
        /\ merged' = MergedFor(syncs) /\ syncs' = syncs + 1 /\ syncs \in Nat
    BY <1>1 DEF BeginSyncInputs, AfterMissingVfs, VfsIsThere, TypeOK
  <2>2. syncs' > 1 => \A f \in DOMAIN Deps : f \in DOMAIN merged' /\ merged'[f] = Deps[f]
    BY <2>1 DEF MergedFor
  <2> QED BY <2>1, <2>2
<1>2. CASE Downloaded
  BY <1>2 DEF Downloaded, inputVars, fileVars, Present
<1>3. CASE MountVfs
  <2>1. phase = "mount" /\ phase' = "record" /\ syncs' = syncs
    BY <1>3 DEF MountVfs, inputVars
  <2>2. ASSUME NEW f \in DOMAIN Deps, syncs > 1 PROVE disk'[f].content = Deps[f]
    <3>1. f \in Files /\ f \in DOMAIN merged /\ merged[f] = Deps[f]
      BY <2>1, <2>2
    <3> QED BY <1>3, <3>1 DEF MountVfs
  <2> QED BY <2>1, <2>2
<1>4. CASE SyncInputsFails
  BY <1>4 DEF SyncInputsFails
<1>5. CASE InputsSynced
  BY <1>5 DEF InputsSynced
<1>6. ASSUME NEW g \in Files, DownloadFile(g) PROVE DepsInPlace'
  <2>1. /\ phase = "download" /\ phase' = "download" /\ todo' = todo \ {g}
        /\ merged' = merged /\ syncs' = syncs
        /\ disk' = [disk EXCEPT ![g] = [content |-> merged[g], mtime |-> InputTime]]
    BY <1>6 DEF DownloadFile, inputVars, Target
  <2>2. ASSUME NEW f \in DOMAIN Deps \ todo', syncs > 1, Present(f)'
        PROVE  disk'[f].content = Deps[f]
    <3>1. f \in Files
      OBVIOUS
    <3>2. CASE f = g
      BY <2>1, <2>2, <3>1, <3>2 DEF TypeOK
    <3>3. CASE f # g
      BY <2>1, <2>2, <3>1, <3>3 DEF TypeOK, Present
    <3> QED BY <3>2, <3>3
  <2> QED BY <2>1, <2>2
<1>7. ASSUME NEW g \in Files, RecordMtime(g) PROVE DepsInPlace'
  BY <1>7 DEF RecordMtime, fileVars, Present
<1> QED
  BY <1>1, <1>2, <1>3, <1>4, <1>5, <1>6, <1>7

(* After a later input sync, what is both an input and an output of a step *)
(* depended on is the step's output, whatever tasks have written there.    *)
THEOREM DependenciesInPlace ==
  ASSUME AttachmentSync, VfsIsThere
  PROVE  Spec => []InputsInPlace
<1>1. Init => TypeInv /\ DepsInPlace
  BY InitTypeInv DEF Init, DepsInPlace, InputsInPlace
<1>2. TypeInv /\ DepsInPlace /\ [Next]_vars => (TypeInv /\ DepsInPlace)'
  <2> SUFFICES ASSUME TypeInv, DepsInPlace, [Next]_vars PROVE DepsInPlace'
    BY NextTypeInv
  <2>1. CASE UNCHANGED vars
    BY <2>1 DEF vars, inputVars, fileVars, DepsInPlace, InputsInPlace, Present
  <2>2. CASE phase' \notin InputPhases
    BY <2>2 DEF DepsInPlace, InputsInPlace, InputPhases
  <2> QED
    BY <2>1, <2>2, DepsStep, OutsideInputs DEF Next
<1>3. DepsInPlace => InputsInPlace
  BY DEF DepsInPlace
<1> QED
  BY <1>1, <1>2, <1>3, PTL DEF Spec

-----------------------------------------------------------------------------
(* Manifests and objects.  An entry is backed, or its object is still to   *)
(* be uploaded by the action that is running; an object found in the       *)
(* bucket stays there.                                                     *)
Waiting(m, h) == phase \in Syncing /\ m.action = action /\ \E o \in pending : o.hash = h

BackedInv ==
  /\ \A a \in 1..MaxActions : a > action => result[a] = "none"
  /\ phase \in Syncing \cup {"work"} => result[action] = "none"
  /\ \A m \in manifests : m.action <= action
  /\ \A m \in manifests : result[m.action] # "raised" =>
       \A e \in m.entries :
         store[e.hash] # NoObject \/ <<m.action, e.hash>> \in gone \/ Waiting(m, e.hash)
  /\ \A o \in found \cup pending : o.inS3 => store[o.hash] # NoObject

(* Steps that leave bucket, results and pending files alone.               *)
LEMMA BackedFrame ==
  ASSUME TypeInv, BackedInv, UNCHANGED <<bucketVars, result, action, found, pending>>,
         phase \in Syncing => phase' \in Syncing,
         phase' \in Syncing \cup {"work"} => phase \in Syncing \cup {"work"}
  PROVE  BackedInv'
<1> QED
  BY DEF BackedInv, Waiting, bucketVars, TypeInv, TypeOK

(* When sync_outputs returns, what its manifests name has been uploaded.   *)
LEMMA BackedReturn ==
  ASSUME TypeInv, BackedInv, phase \in Syncing, UNCHANGED <<bucketVars, action>>,
         NEW r \in {"ok", "raised"}, Return(r), r = "ok" => pending = {}
  PROVE  BackedInv'
<1> USE DEF TypeInv, TypeOK
<1>1. action \in 1..MaxActions /\ phase' = "ready" /\ result' = [result EXCEPT ![action] = r]
      /\ found' = {} /\ pending' = {}
  BY DEF Return
<1>2. ASSUME NEW m \in manifests, result'[m.action] # "raised", NEW e \in m.entries
      PROVE  store[e.hash] # NoObject \/ <<m.action, e.hash>> \in gone
  <2>1. m.action \in 1..MaxActions
    OBVIOUS
  <2>2. CASE m.action = action
    <3>1. r = "ok" /\ pending = {}
      BY <1>1, <1>2, <2>2
    <3>2. result[m.action] # "raised"
      BY <2>2 DEF BackedInv
    <3> QED BY <1>2, <3>1, <3>2 DEF BackedInv, Waiting
  <2>3. CASE m.action # action
    <3>1. result[m.action] # "raised"
      BY <1>1, <1>2, <2>1, <2>3
    <3> QED BY <1>2, <2>3, <3>1 DEF BackedInv, Waiting
  <2> QED BY <2>2, <2>3
<1>3. \A a \in 1..MaxActions : a > action => result'[a] = "none"
  BY <1>1 DEF BackedInv
<1>4. /\ UNCHANGED <<manifests, store, gone, action>>
      /\ phase' \notin Syncing \cup {"work"}
  BY <1>1 DEF bucketVars, Syncing
<1> QED
  BY <1>1, <1>2, <1>3, <1>4 DEF BackedInv

(* Every step keeps what is uploaded, or still to be, behind the           *)
(* manifests.                                                              *)
LEMMA BackedStep == TypeInv /\ BackedInv /\ [Next]_vars => BackedInv'
<1> SUFFICES ASSUME TypeInv, BackedInv, [Next]_vars PROVE BackedInv'
  OBVIOUS
<1> USE SessionAssumption
<1>1. CASE UNCHANGED vars
  BY <1>1, BackedFrame DEF vars, scanVars
<1>2. CASE \/ BeginSyncInputs \/ Downloaded \/ MountVfs \/ SyncInputsFails \/ InputsSynced
           \/ \E f \in Files : DownloadFile(f) \/ RecordMtime(f)
  <2>1. phase \notin Syncing /\ phase' \notin Syncing \cup {"work"}
        /\ UNCHANGED <<bucketVars, result, action, found, pending>>
    BY <1>2 DEF BeginSyncInputs, Downloaded, MountVfs, SyncInputsFails, InputsSynced, DownloadFile,
       RecordMtime, AfterMissingVfs, Syncing, scanVars
  <2> QED BY <2>1, BackedFrame
<1>3. CASE BeginAction
  <2>1. /\ phase = "ready" /\ phase' = "work" /\ action' = action + 1
        /\ UNCHANGED <<manifests, store, gone, result, found, pending>>
        /\ action \in Nat /\ action < MaxActions /\ MaxActions \in Nat
    BY <1>3 DEF BeginAction, scanVars, bucketVars, TypeInv, TypeOK
  <2>2. \A m \in manifests : m.action \in Nat
    BY DEF TypeInv, TypeOK
  <2> QED BY <2>1, <2>2 DEF BackedInv, Waiting, Syncing
<1>4. CASE \E f \in TaskFiles : Write(f) \/ Backdate(f) \/ Vanish(f)
  <2>1. UNCHANGED <<phase, bucketVars, result, action, found, pending>>
    BY <1>4 DEF Write, Backdate, Vanish, scanVars
  <2> QED BY <2>1, BackedFrame
<1>5. CASE BeginSyncOutputs \/ RootScanned \/ NextRoot \/ \E f \in Files : VisitFile(f)
  <2>1. phase \in Syncing \cup {"work"} /\ phase' \in Syncing
        /\ UNCHANGED <<bucketVars, result, action, found, pending>>
    BY <1>5 DEF BeginSyncOutputs, RootScanned, NextRoot, VisitFile, Syncing, scanVars
  <2> QED BY <2>1, BackedFrame
<1>6. CASE HashOutput
  <2> DEFINE o == [file |-> current, hash |-> disk[current].content,
                   inS3 |-> store[disk[current].content] # NoObject]
  <2>1. phase \in Syncing /\ phase' \in Syncing /\ found' = found \cup {o}
        /\ UNCHANGED <<bucketVars, result, action, pending>>
    BY <1>6 DEF HashOutput, Syncing
  <2>2. o.inS3 => store[o.hash] # NoObject
    OBVIOUS
  <2> HIDE DEF o
  <2> QED BY <2>1, <2>2 DEF BackedInv, Waiting, bucketVars
<1>7. CASE ScanRaises \/ ManifestRaises \/ UploadRaises \/ OutputsSynced
  <2>1. /\ phase \in Syncing /\ UNCHANGED <<bucketVars, action>>
        /\ Return("raised") \/ (Return("ok") /\ pending = {})
    BY <1>7 DEF ScanRaises, ManifestRaises, UploadRaises, OutputsSynced, Syncing
  <2> QED BY <2>1, BackedReturn
<1>8. CASE UploadManifest
  <2> DEFINE entries == {[file |-> o.file, hash |-> o.hash, mtime |-> disk[o.file].mtime] : o \in found}
             n == [action |-> action, root |-> root, entries |-> entries]
  <2>1. phase \in Syncing /\ phase' \in Syncing /\ manifests' = manifests \cup {n}
        /\ pending' = pending \cup found /\ found' = {}
        /\ UNCHANGED <<store, gone, result, action>>
    BY <1>8 DEF UploadManifest, Syncing
  <2>2. n.action = action /\ \A e \in n.entries : \E o \in found : o.hash = e.hash
    OBVIOUS
  <2> HIDE DEF n
  <2>3. ASSUME NEW m \in manifests', result[m.action] # "raised", NEW e \in m.entries
        PROVE  store[e.hash] # NoObject \/ <<m.action, e.hash>> \in gone \/ Waiting(m, e.hash)'
    <3>1. CASE m \in manifests
      BY <2>1, <2>3, <3>1 DEF BackedInv, Waiting
    <3>2. CASE m = n
      BY <2>1, <2>2, <2>3, <3>2 DEF Waiting
    <3> QED BY <2>1, <3>1, <3>2
  <2>4. \A m \in manifests' : m.action <= action
    BY <2>1, <2>2 DEF BackedInv, TypeInv, TypeOK
  <2> QED BY <2>1, <2>3, <2>4 DEF BackedInv
<1>9. ASSUME NEW o \in pending, UploadFile(o) PROVE BackedInv'
  <2>1. /\ phase \in Syncing /\ pending' = pending \ {o} /\ gone \subseteq gone'
        /\ UNCHANGED <<phase, manifests, result, action, found>>
    BY <1>9 DEF UploadFile, Syncing
  <2>2. o \in OutputFile /\ o.hash \in Contents
    BY DEF TypeInv, TypeOK, OutputFile
  <2>3. /\ \A c \in Contents : store[c] # NoObject => store'[c] # NoObject
        /\ store'[o.hash] # NoObject \/ <<action, o.hash>> \in gone'
    <3>1. CASE ~Present(o.file)
      BY <1>9, <3>1 DEF UploadFile, SkipsUpload
    <3>2. CASE Present(o.file) /\ o.inS3
      BY <1>9, <3>2 DEF UploadFile, SkipsUpload, BackedInv
    <3>3. CASE Present(o.file) /\ ~o.inS3
      <4>1. store' = [store EXCEPT ![o.hash] = disk[o.file].content]
        BY <1>9, <3>3 DEF UploadFile, SkipsUpload
      <4>2. o.file \in Files
        BY <2>2 DEF OutputFile
      <4>3. disk[o.file] \in [content : Contents, mtime : 0..MaxTime]
        BY <3>3, <4>2 DEF Present, TypeInv, TypeOK
      <4>4. disk[o.file].content # NoObject
        BY <4>3
      <4> QED BY <2>2, <4>1, <4>4 DEF TypeInv, TypeOK
    <3> QED BY <3>1, <3>2, <3>3
  <2>4. store'[o.hash] # NoObject \/ <<action, o.hash>> \in gone'
    BY <2>3
  <2>5. ASSUME NEW m \in manifests, result[m.action] # "raised", NEW e \in m.entries
        PROVE  store'[e.hash] # NoObject \/ <<m.action, e.hash>> \in gone' \/ Waiting(m, e.hash)'
    <3>1. e.hash \in Contents
      BY DEF TypeInv, TypeOK, Entry
    <3>2. CASE Waiting(m, e.hash)
      <4>1. m.action = action
        BY <3>2 DEF Waiting
      <4>2. CASE e.hash = o.hash
        BY <2>4, <4>1, <4>2
      <4>3. CASE e.hash # o.hash
        BY <2>1, <3>2, <4>3 DEF Waiting
      <4> QED BY <4>2, <4>3
    <3>3. CASE ~Waiting(m, e.hash)
      BY <2>1, <2>3, <2>5, <3>1, <3>3 DEF BackedInv
    <3> QED BY <3>2, <3>3
  <2>6. \A p \in found \cup pending : p.inS3 => store'[p.hash] # NoObject
    BY <2>3 DEF BackedInv, TypeInv, TypeOK, OutputFile
  <2> QED BY <2>1, <2>5, <2>6 DEF BackedInv
<1> QED
  BY <1>1, <1>2, <1>3, <1>4, <1>5, <1>6, <1>7, <1>8, <1>9 DEF Next

(* After a successful sync_outputs every entry of its manifests has its    *)
(* object in the bucket, unless the file was gone when its turn came;      *)
(* whatever fails, vanishes or is written besides.                         *)
THEOREM ManifestsBacked == Spec => []ManifestBacked
<1>1. Init => BackedInv
  BY DEF Init, BackedInv, Syncing
<1>2. TypeInv /\ BackedInv => ManifestBacked
  <2> SUFFICES ASSUME TypeInv, BackedInv, NEW m \in manifests, result[m.action] = "ok",
                      NEW e \in m.entries
               PROVE  store[e.hash] # NoObject \/ <<m.action, e.hash>> \in gone
    BY DEF ManifestBacked
  <2>1. ~Waiting(m, e.hash)
    BY DEF BackedInv, Waiting
  <2> QED BY <2>1 DEF BackedInv
<1> QED
  BY <1>1, <1>2, InitTypeInv, NextTypeInv, BackedStep, PTL DEF Spec
=============================================================================
