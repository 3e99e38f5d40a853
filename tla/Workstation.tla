----------------------------- MODULE Workstation -----------------------------
(***************************************************************************)
(* The commands of a workstation: the parts of a submission (hashing the   *)
(* inputs through the hash cache, grouping the paths, the progress of the  *)
(* files), snapshots and differences of a directory, and, of an            *)
(* incremental download, the mapping of its paths and its state file.      *)
(* They are processes that share no state but what their modules have,     *)
(* so that a behaviour of one of them stands for a behaviour of them all.  *)
(***************************************************************************)
EXTENDS AssetHash, AssetGroups, ProgressTracker, ManifestSnapshots, PathMapping, DownloadState

VARIABLE command

Commands == {"hash", "group", "progress", "snapshot", "map", "state"}

workstationVars ==
  <<command, vars, groupVars, trackerVars, snapVars, mappingVars, stateVars>>

(* a part that is not run begins in one state and stays there *)
HashRests ==
  /\ disk = CHOOSE d \in [Files -> [content : Contents, mtime : Times]] : TRUE
  /\ cache = [f \in Files |-> NoEntry]
  /\ Init

GroupsRest == kind = (CHOOSE d \in GDisks : TRUE) /\ GroupsInit
TrackerRests == tkind = (CHOOSE k \in TKinds : TRUE) /\ TrackerInit
SnapshotsRest == dir = (CHOOSE d \in SDisks : TRUE) /\ row = Empty /\ SnapshotsInit

WorkstationInit ==
  /\ command \in Commands
  /\ IF command = "hash" THEN Init ELSE HashRests
  /\ IF command = "group" THEN GroupsInit ELSE GroupsRest
  /\ IF command = "progress" THEN TrackerInit ELSE TrackerRests
  /\ IF command = "snapshot" THEN SnapshotsInit ELSE SnapshotsRest
  /\ MappingInit /\ StateInit

Hashing == command = "hash" /\ Next
  /\ UNCHANGED <<command, groupVars, trackerVars, snapVars, mappingVars, stateVars>>
Grouping == command = "group" /\ GroupsNext
  /\ UNCHANGED <<command, vars, trackerVars, snapVars, mappingVars, stateVars>>
Tracking == command = "progress" /\ TrackerNext
  /\ UNCHANGED <<command, vars, groupVars, snapVars, mappingVars, stateVars>>
Snapshotting == command = "snapshot" /\ SnapshotsNext
  /\ UNCHANGED <<command, vars, groupVars, trackerVars, mappingVars, stateVars>>
Mapping == command = "map" /\ MappingNext
  /\ UNCHANGED <<command, vars, groupVars, trackerVars, snapVars, stateVars>>
Keeping == command = "state" /\ StateNext
  /\ UNCHANGED <<command, vars, groupVars, trackerVars, snapVars, mappingVars>>

WorkstationNext ==
  Hashing \/ Grouping \/ Tracking \/ Snapshotting \/ Mapping \/ Keeping

WorkstationSpec == WorkstationInit /\ [][WorkstationNext]_workstationVars

-----------------------------------------------------------------------------
(* Every variable of the commands keeps to its type: the states of the     *)
(* loops, the rows of the caches, the manifests and the trie are always    *)
(* well formed.                                                            *)
WorkstationTypeOK ==
  /\ command \in Commands
  /\ TypeOK /\ GroupsTypeOK /\ TrackerTypeOK /\ SnapshotsTypeOK /\ MappingTypeOK /\ StateTypeOK
=============================================================================
