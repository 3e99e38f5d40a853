# A verification of the job attachments library

The library moves the files of render jobs between workstations, an S3 bucket and workers.
Files are stored in the bucket under the hash of their content (the content-addressed store,
CAS); *manifests* list the paths, hashes and modification times of the files of a job or of a
session action. This directory models the parts of the library that keep state, run concurrently
or can fail half-way, checks them with TLC on small instances, and proves the central results
with TLAPS for all instances. Paths below are relative to `src/src/deadline/job_attachments/`.

## 1. Inventory

| component | state it keeps | operations | interacts with |
|---|---|---|---|
| `upload.py`, `S3AssetUploader` | none of its own; a thread pool per call | `upload_assets`, `upload_input_files`, `upload_object_to_cas`, `verify_hash_cache_integrity`, `reset_s3_check_cache`, snapshot variants | S3, S3 check cache, progress tracker |
| `upload.py`, `S3AssetManager` | a cache of `stat` results as old as the manager; a thread pool per call | group files by asset root, hash them, create manifests, upload or snapshot them | hash cache, uploader, progress tracker |
| `caches/` | two SQLite files shared by all processes of a user | open, look up, put, expire, remove the file | uploader, manager |
| `progress_tracker.py` | counters under a lock; the latched answer of the user's callback | `report_progress`, `track_progress_callback`, the increments | every operation on files: hashing, upload, download, snapshot |
| `asset_sync.py`, `AssetSync` | `synced_assets_mtime`, one per session | `sync_inputs`, `attachment_sync_inputs`, `sync_outputs`, `cleanup_session`, `snapshot_assets` | downloads, uploader, VFS |
| `vfs.py` | the pid file of a session; mounted file systems | start, wait for, find, kill mounts | `download.py`, the operating system |
| `download.py` | a collision counter per call; thread pools | download files and manifests, merge manifests, choose the latest per task, root mapping | S3, VFS, progress tracker |
| `_incremental_downloads/` | a state file, replaced atomically | list, merge and download the outputs of a queue; load and save the state | S3, path mapping |
| `api/`, `_diff.py` | manifest files named after the second | snapshot, compare and merge manifests of a directory | manager, hash cache, downloads |
| `asset_manifests/` | none | parse, validate and write manifests | everything |
| `_path_mapping.py` | a trie of rules | generate rules from two storage profiles, map a path | incremental download |
| `_path_summarization.py`, `_glob.py` | none | string algorithms on paths | drivers |
| `_aws/`, `os_file_permission.py`, `_windows/`, `models.py`, `exceptions.py`, `_utils.py` | clients, records | wrappers, data | everything |

What is hard here, and what makes each component right:

* **Uploader and S3 check cache.** Worker threads, several processes on one cache file, deletion of
  that file under them, a bucket that loses objects, files that disappear, exceptions that surface
  while other threads go on, cancellation from a callback thread. Right means: the cache names only
  objects that were seen; a call that returns normally has its objects in the bucket; a call that
  raises or returns has no thread left working; every call ends; no cancellation is lost.
* **Manager and hash cache.** Files are written between `stat`, lookup, hash and cache write; rows
  are replaced by several tasks. Right means: no row whose time is the file's has the hash of
  another content, and every reported hash is one the file really had.
* **Grouping.** Locations lie in each other, links lead elsewhere, files come and go while a cache
  of `stat` results remembers what they were. Right means: every path is in the group of its most
  specific location, and no two groups have one root, by which the worker tells them apart.
* **Progress.** Any thread may bring the user's No, and the last files fill no chunk. Right means:
  a No is final, whoever is told; a call that returns has reported every file.
* **Snapshots.** A directory is globbed, compared, statted and hashed at different moments while it
  is written. Right means: a manifest merged with its difference is as good as a full snapshot.
* **Path mapping, state file.** Overlapping rules; overlapping and dying runs. Right means: the
  longest rule wins; a state that is loaded is one that was saved, whole.
* **AssetSync.** A memory of modification times decides what is an output, and it survives failing
  calls, re-synced inputs and processes that go on writing. Right means: no version is missed, no
  input is uploaded as an output, step outputs go over inputs, manifests are backed by objects.
* **VFS.** A text file rewritten by every operation tells what is mounted; mounts fail, come late,
  or die. Right means: every mount has one entry of its own with the manifest it serves, a replaced
  mount serves all earlier inputs too, cleanup leaves nothing mounted.
* **Downloads.** Many workers, names chosen under a lock after a test outside it, placeholders,
  retries, partial files, merges by time stamps. Right means: nothing that exists is overwritten
  unless asked, nothing is lost, a later run repairs what an earlier one left, the newest output wins.

`PROJECT.json` lists the hazards line by line, with the properties that watch them.

## 2. Plan

| step | module | subject | status |
|---|---|---|---|
| 1 | `AssetUpload` | uploads of several submissions over a shared S3 check cache | checked, proved |
| 2 | `HashContract`, `AssetHash` | hashing through the hash cache, and what it promises | checked, refinement proved |
| 3 | `SessionSync` | input and output sync of a session | checked, proved |
| 4 | `VfsMounts` | the pid file and the mounts of a session | checked, proved |
| 5 | `Download` | parallel download with conflict resolution, plain and incremental | checked, proved |
| 6 | `JobOutputs`, `RootMapping`, `OutputDownloads` | which output manifests of a job count; root mapping and filters of a downloader; both composed | checked, proved |
| 7 | `AssetGroups` | grouping the paths of a submission, with the stat cache | checked, proved |
| 8 | `ProgressTracker` | counting, reporting and cancelling in the four operations that move files | checked, proved |
| 9 | `ManifestSnapshots` | `_diff.py` and the manifest API on a directory that changes | checked, proved |
| 10 | `PathMapping` | rules, trie and walk | checked, proved |
| 11 | `DownloadState` | the state file of incremental downloads over crashes and overlapping runs | checked, proved |
| 12 | `Workstation` | the commands of steps 2 and 7 to 11 side by side, as one instance for TLC | checked; that each command keeps its properties in it, proved |
| 13 | proofs | what the operators of `JobOutputs` promise beyond the listings (`ByAction`), an abstract upload that a submission implements | open |

Abstract specifications: `HashContract` says what hashing promises without any cache; an
abstract upload that commits a submission in one step would be the next. `OutputDownloads` composes two modules: what a downloader moves is what the job's
manifests say when it is opened. The others are joined by what they hand over, not in one state: the groups of `AssetGroups` are the files `AssetHash`
hashes; the hashes that `AssetHash` reports are the constant `HashOf` of `AssetUpload`, an edited file there is a `HashOf` that no longer fits; the manifests of
`AssetUpload` are the constant `Inputs` of `SessionSync`; the merged manifests of `SessionSync`'s
input syncs are the manifests `VfsMounts` mounts. A composed state space would multiply without new
interleavings: the components share no variable but the bucket, and the CAS part of it is written
only in idempotent ways.

## 3. Modules

**`AssetUpload`.** One `phase` per submission follows `upload_assets`: manifest upload, sampling of
the cache, verification, reset, opening, small files, large files. One `task` per file follows
`upload_object_to_cas`: lookup, HEAD, opening, transfer, cache write. A *cache incarnation* is one
file that `s3_check_cache.db` has named: deleting the file leaves processes that have it open with
the deleted incarnation, and the next connection creates another. `handle` is the main connection of
a submission, `locals` those of its threads, `tables` the incarnations in which `__enter__` has
created the table (a thread only dials, and its query fails where there is none). A hash is
identified with its key, a content with its hash. `stale`, `lost`, `seen`, `unsampled` are history.

**`HashContract`, `AssetHash`.** `pc` follows `_process_input_path`; `mtime`, `read` and `hash` are
its locals between the steps. Contents are block-wise read: the hash is of one content the file had
while it was read, or of a mixture. A history variable `after[f][m]` has the contents the file has
had since it got time `m`; the refinement mapping takes what a task may report from it.

**`SessionSync`.** `phase` follows the worker through input syncs, actions and output syncs.
`synced` is `synced_assets_mtime`, where 0 is "no entry" because the code tests truth. Constants
choose between the two input syncs (`AttachmentSync`) and the two file systems (`Virtual`). `gone` is
history: the contents whose file had vanished when their turn to be uploaded came, which
`upload_file_to_s3` passes over in silence and `ManifestBacked` has to exempt. Tasks,
and the processes they leave behind, write at every step of an output sync.

**`VfsMounts`.** `pidFile` is a sequence of lines, a line a sequence of entries: more than one entry
in a line is what lines written without a line break are. `stack` has the file systems mounted over
each other at a mount point. A manifest is the set of input syncs it has the files of.

**`Download`.** Calls follow one another in one directory; each chooses a conflict resolution and
whether it is the plain (`download_file`) or the incremental one (`_download_file`). `task` has where
the worker of each entry is: `Examine` is the `is_file()` outside the lock, `Claim` the whole of
`_get_new_copy_file_path` under it, `fetch`/`retry` the transfer manager with the legacy key tried
after a 404, `get`/`stream` the `get_object` of small files, `stamp` the `utime` and the size check.
`disk` has the content of every path: a file of the user, the empty file that holds a copy's name, a
part, or the content of an entry. An entry stands for its content. The transfer manager writes to a
temporary file and renames it; `get_object` writes in place, which `torn` remembers. Merged manifests
list a path once; `download_files_in_directory` puts inputs and outputs together and may list it twice
(`Listed`). Between calls the user may save files.

**`JobOutputs`.** An action of the module is a step of a session action on its worker (`Start`,
`SyncRoot` for a turn of the loop of `sync_outputs`, `SyncDone`, `SyncFails`) or a tick of the
bucket's clock. `bucket` has the output manifests; a key's parts are the fields of a manifest and of
its action: the step, the task folder if the unit is a task and not a chunk, the stamp and the id. An
action stands for the version of the files it wrote. The readers are operators on the bucket:
`Selected` is `_get_tasks_manifests_keys_from_s3` with the last subfolder of each task folder,
`Versions` the merge by `LastModified` (of equal times either may win), `ByAction` the search by id,
`Incremental` the merge by absolute path, where roots may lie in each other. `began` is history.

**`RootMapping`.** The state of a `_BaseFilterableDownloader`. `Rebuild` computes the groups as
`_rebuild` does: the initial groups, then the mappings in the order of the dictionary, each moving
all that is at its root and putting the root in front of names that are taken, then the filters. An
exception (`Path.with_name` refuses a name with a separator) leaves the mapping recorded and the groups
as they were. A name is a path and the prefixes it has got; the version of a file stays with it.

**`OutputDownloads`.** Composes them: a downloader is opened for the job, a step, a task, a session
action or the inputs at any moment of the job's life. Afterwards it does not look at the bucket again.

**`AssetGroups`.** `gphase` is the loop `prepare_paths_for_upload` is in, and `todo` what it has not come
to, taken in any order as the paths are sets. A path is a node of a tree: `Above[p]` has the directories
above it, `Real[p]` is where it leads. `stat` is the `lru_cache` of `_FileStatCache` with `GRows` rows
and a choice of the row that is forgotten; `exists` and `is_dir` ask the disk again when the cached
result is None (`Seen`), `get_size` does not. `kinds` and `recent` are history: what was at a path since
the manager was made, and since the call began. Several calls use one manager.

**`ProgressTracker`.** One instance for four operations (`tkind`). `worker` has the state of every
file's task, `caller` the loop of the calling thread, `batch` the asset root it is at. `holder` is the
thread that is in the user's callback, with the lock held; who wants to count or report meanwhile
waits. A report is one step up to the callback and one after it, in which the answer is Yes, No or an
exception. The interval since the last report has passed or not, as TLC likes; tasks move side by
side also where large files come one by one, which gives more interleavings than the code has.

**`ManifestSnapshots`.** `_manifest_snapshot` in full or against a manifest, `_manifest_diff` and
`_manifest_merge`, one call after the other. `dir` is the directory; `WriteFile` and `DeleteFile` come
between any two steps. `CompareFile`, `StatFile`, `TakeFromCache` and `ReadAndHash` are the moments at which the
code looks at a file. `held` is history, the contents a file had during the call, and `versions` all it ever had.

**`PathMapping`.** A path is the sequence of its parts. `RulesFor` is the generation of the rules with
its two dictionaries, `trie` a function on the nodes, `WalkPart` one turn of the loop of
`strict_transform`. The property is stated on the two profiles, without rules or trie.

**`DownloadState`.** A run is `ready` with a state in memory, `writing` its temporary file, `written`
before `os.replace`, and may be killed in each. `ToDict` and `FromDict` are the conversions with what
they leave out and the defaults they put in. A temporary file belongs to its run (`TempOf`).

**`Workstation`.** The commands that one person gives: hashing, grouping, progress, snapshots, mapping,
state. They are processes that share no variable, so `command` chooses one for a behaviour, and the
others stay where they begin; a behaviour of all of them is made of such behaviours. It exists to check
six modules on one instance.

Operators that stand before a definition with a longer name of the same beginning (`Outcome`,
`OutcomeUnchecked`) are plausible wrong versions of it; nothing uses them. Each property was seen to
be violated when the wrong version named for it in `PROJECT.json` takes the right one's place.

## 4. Runs

All runs switch off the deadlock check: submissions, sessions and calls end, and an ended one has no step.

| run | instance | checks |
|---|---|---|
| `upload_two` | 2 submissions, 3 files (one large; two share a key), 2 keys, sample 1, 3 incarnations; objects may be lost, entries expire, processes crash; stale caches at the start | `CacheOnlySeen`, `FinishedComplete` |
| `upload_one` | 1 submission under fairness; files vanish or are edited, S3 and SQLite fail | `CancelledNeverOk`, `QuietAfterEnd`, `Terminates` |
| `upload_vanished` | 1 submission, a file vanishes | `CacheOnlySeen` is violated |
| `hash_cache` | hashing: 2 tasks on 1 file, 2 contents, 3 times; grouping: 11 paths on 2 drives, a location in a location, a shared one, 2 links, 5 requests, 2 calls, 2 changes, 2 rows; progress: 4 files in 2 roots, chunks of 2; snapshots: 2 files, 3 contents of 2 sizes, times 1 to 3 µs apart, 2 calls, 2 edits, 2 seconds; mapping: 3 source and 3 target profiles, 4 paths, 2 calls; state: 2 runs, 1 job | `WorkstationTypeOK`, `HitIsCurrent`, refinement `Implements`; `GroupedRight`, `RootsApart`; `NoIsFinal`, `AllReported`; `AddUp`, `DiffTells`; `LongestRuleWins`; `StateSurvives` |
| `session_outputs` | 4 files, 2 roots with a common output path, 2 actions, 2 input syncs, `attachment_sync_inputs`, copied | `NothingMissed`, `OutputsAreWritten`, `InputsInPlace` |
| `session_fallback` | 2 files, one an input, `sync_inputs`, virtual, executable perhaps missing; files vanish, times go back, calls fail | `FallsBack`, `ManifestBacked` |
| `session_novfs` | `attachment_sync_inputs`, virtual, executable perhaps missing | `FallsBack` is violated |
| `vfs_mounts` | up to 3 mounts, 3 syncs, 2 faults | `TypeOK`, `MountsTracked`, `EnteredOnce`, `CleanedUp`, `ServesEverything` |
| `vfs_three` | 3 mounts, 2 syncs, no fault | `EntriesApart` is violated |
| `download_calls` | 2 calls under fairness, 3 entries (two for one path, one at the first copy's name; one small, one under a legacy key), 2 workers, 5 copies | `CopiesApart`, `Delivered`, `SkippedUsable`, `UserFilesKept`, `Terminates` |
| `output_downloads` | a task with 2 attempts and a chunk, 2 roots lying in each other, clocks that may be ahead by a tick; 3 calls on a downloader with up to 3 roots and 1 new directory, nested and plain names, a filter | `TypeOK`, `AttemptsNotMixed`, `LastAttemptCounts`, `StepsAgree`, `IncrementalAgrees`, `NothingLost`, `NamesApart`, `ShownCanMove`, `MovedWhereAsked` |
| `session_action` | the attempts as actions 1 and 12 of one session | `ExactAction` is violated |

**Bounds.** Two submissions are the least that reset the cache under each other, and an incarnation
per submission and one more are all that can come to exist, since a submission resets once (`Dbs`).
Two small files with one key and a large one give concurrent uploads of one object and both queues;
a sample of one with two keys gives entries beyond the sample. `MaxTouched` bounds how many files
vanish or are edited: one is enough for a file to change at each step of its task. Three times are
two writes after the first; a task can see at most one before and one after its stat that differ.
`MaxTime` in `SessionSync` bounds the writes of a session (three after the inputs: before, during
and after an output sync), `MaxActions` and `MaxSyncs` are two because only the relation of one call
to the next matters. In `VfsMounts` three mounts are the least that leave two lines after a
replacement, three syncs let a replacement be replaced, and `MaxFaults` two lets one fault meet the
consequence of another. In `Download` two calls let the second find what the first left, three entries
give both ways of sharing a path (listed twice, and the name of a copy), and two workers are the least
that race. Two files of the user and two copies of a path in each call need no number beyond five, so
`MaxCopies` never stops a worker (`Terminates` would fail if it did).

In `output_downloads` two attempts are the least that differ in order of beginning, of stamp and of
upload, and two roots the least in which an attempt can be half-way; the chunk has a step of its own
and the place of the roots that lie in each other. A clock of two values and a skew of one tick
give every order of two stamps and every order of two uploads, ties included. Three calls let a root be
moved twice beside a root moved once; three roots let two be merged beside one in their way. The run's
`VIEW` forgets the job once a downloader is open: its steps and properties do not look at it any more,
and the properties of the job were checked in the state before, which has the same job.

In `hash_cache` one behaviour is of one command, so the numbers of states add and do not multiply. Two calls
with one stat cache are the least in which an old result can matter, and two rows the least that
forget one; a location in another, a link into it, and a link from another drive give each kind of match
and the group without a common path. Four files, three of one root, leave the last chunk unfilled and a No
before the second root begins. Two calls on a directory are a manifest and its difference, and two edits
one before and one within the second call; three contents of which two have one size, and times a
microsecond and more apart, are what the two ways of comparing tell apart differently. In the state file
a second job would only be another key of one dictionary.

Every invariant of the runs is also proved, for all instances (section 6); the runs show that the instances
reach what the invariants are about, and that each is violated by a plausible bug. The inductive
invariants were checked by TLC while they were found, on these instances, and are not run again.

**Symmetry** is used only where no liveness is checked: the unused incarnations, and the mounts.

**Fairness** (`AssetUpload!FairSpec`) is weak fairness of each submission's own steps together: the
operating system schedules a running call, and botocore bounds each request with timeouts and
retries, so that it returns or raises. Nothing is assumed of the environment, of which worker runs,
or of how a choice falls. `Terminates` holds under it because a submission's steps cannot repeat. `Download!FairSpec` is the
same for the steps of a running call; `Kill` and what the user does are not fair.

## 5. What the runs disagree with

* `upload_vanished`: `upload_file_to_s3` skips a path that is gone or not a regular file, and
  `upload_object_to_cas` caches its key, against the cache's docstring (`s3_check_cache.py:34`).
* `session_novfs`: `_launch_vfs` says it falls back to copying; `attachment_sync_inputs` does not.
* `vfs_three`: `kill_process_at_mount` promises to remove one entry; it joins the others.
* `session_action`: the search for the id of a session action also finds the ids that begin with it
  (`download.py:1628`), against the docstring of `get_output_manifests_by_asset_root`.

Further divergences are in the models as behaviour but have no run of their own: a file edited after
hashing is stored under its old hash; `shutdown_libfuse_mount` (`vfs.py:139`, "Don't reraise")
raises `UnboundLocalError` when fusermount3 fails; a modified output keeps its old time on record and
is listed again by every later action (`asset_sync.py:656`); after a failed output sync the new
files it had recorded are not found again; the copies "f (1)" that `sync_inputs` makes in a later
sync have no recorded time and are listed as outputs, which is why `OutputsAreWritten` is stated for
`attachment_sync_inputs`.

In the downloads: two entries of one path that both find no file there go to the same path, and one
is lost, as is a file listed under the name that another's copy has just been given (`download.py:528`
asks outside the lock), so `Delivered` exempts entries that share a target; a small file whose
streaming was cut short, and the empty file that held a copy's name, are taken for the file by a later
call with `SKIP` (the two exemptions of `SkippedUsable`; each is needed, TLC finds a violation without
it); a cancelled stream removes the file that `OVERWRITE` was replacing, and is reported as an
`AssetSyncError` instead of `AssetSyncCancelledError`; a file the user saves at a path during a call,
between `is_file()` and the rename, is replaced in every mode (the model has saves between calls only).

In the output manifests: a worker whose clock is ahead makes its attempt the last one for good
(`download.py:299` has a TODO for it), which is what `InOrder` excludes; a last attempt that fails
between two roots hides the outputs the attempt before had in the others, while one without any outputs
leaves the attempt before in place; an incremental download merges all attempts by `LastModified` and keeps
what the later one did not write, so it agrees with a download of the job only where tasks were not
tried again. A key counts as a task's if it has "task-" anywhere (`download.py:286`): a root prefix of
the bucket with these letters would put all keys in one folder. Prefixes are not in the model.

In the root mapping: of roots merged in one directory `set_root_path` moves only the first one on; what
is sent to a directory that is a root of the job, and that is mapped on later in the dictionary, is sent
on with it (`SentOn`); when names with a directory in them collide, `ValueError` leaves the mapping
recorded but `paths_by_root` as it was, and every later call fails (`Stuck`); the prefixes of `/a_b` and
`/a/b` are the same, so two files merged from them could get one name (`PrefixesMeet`).

In hashing and progress: a No to the last report of hashing is lost, as the answer is asked before a
file only, and a download whose last report is refused returns normally; the reports of a
job snapshot stay at 0 files, since nobody counts its files, though `upload.py:537` says "report progress 100% at the
end"; files that vanished before their upload are counted by nobody either. An
incremental download counts files it skips as processed. With a logger and files that are all
empty, the speed at `progress_tracker.py:383` divides by zero (bytes are not in the model).

In the grouping: members that are links may give two groups one root, or a group without a common path (two
drives: `ValueError`); if a top directory is itself a location, links in it that lead elsewhere are in its
group; an input may be believed to exist because it did in an earlier call, and one may be counted as 0
bytes because it did not. Group keys are lower-cased on Windows, which the model leaves out.

In the snapshots: `api/manifest.py:156` calls the comparison by hash "definitive", but it takes the
hashes from the hash cache, which trusts times; deleted files are not recorded in a difference, so a merge brings them
back; files that the globs of a `diff` leave out are reported as deleted; a difference written in the
second of its manifest overwrites it (`AddUp` exempts it, and TLC finds the loss without the exemption); a
file deleted between the glob and its `stat` ends the call with `FileNotFoundError`.

In the state file: a margin of 0 is read as the default of 120 seconds; nothing is forced to disk before
`os.replace`, so the property speaks of killed processes and not of a power failure.

## 6. Proofs

| module | theorem | assumes |
|---|---|---|
| `AssetUpload_proofs` | `TypeCorrect`, `CacheSound`, `CompletenessInvariant`, `UploadComplete`, `CancellationsCount`, `QuietWhenOver` | the constants' assumption; the second to the fourth: no file vanishes (`~MayVanish`) |
| `Submission_proofs`: hashing | `HashTyped`, `Pairing`, `HitsAreCurrent`, `ImplementsContract` | the constants' assumption |
| `Submission_proofs`: grouping | `GroupsTyped`, `Grouped`, `RootsNeverMeet` | the constants' assumptions: the paths are a finite tree, locations are directories, links that are looked at lead to files |
| `Submission_proofs`: progress | `TrackerTyped`, `NoStaysNo`, `EverythingReported` | the constants' assumption |
| `SessionSync_proofs` | `TypeCorrect`, `MissedInvariant`, `NothingIsMissed`, `InputsAreNotOutputs`, `FallbackCopies`, `DependenciesInPlace`, `ManifestsBacked` | the constants' assumption; `Benign` for the second and third; `AttachmentSync` and `InputTime > 0` for the fourth; `VfsIsThere` for the fifth, with `AttachmentSync` for the sixth |
| `Download_proofs` | `TypeCorrect`, `UserFilesSafe`, `CopiesNeverMeet`, `FilesDelivered`, `SkippedWhole` | the constants' assumptions, a finite set of entries among them |
| `OutputDownloads_proofs`: output manifests | `OutputsTyped`, `OneAttemptListed`, `LastAttemptListed`, `StepsAlwaysAgree`, `IncrementalAlwaysAgrees` | the constants' assumption |
| `OutputDownloads_proofs`: a downloader | `TypeCorrect`, `NoFileLost`, `NamesStayApart`, `EveryShownCanMove`, `MovesAsAsked`, `ListingsStayRight` | the constants' assumptions, finitely many roots among them |
| `VfsMounts_proofs` | `MountsTyped`, `NeverEnteredTwice`, `EveryMountIsRecorded`, `SessionLeavesNothing`, `SyncServesAllInputs` | the constants' assumption, finitely many mount points among them |
| `Workstation_proofs`: the state file | `StateTyped`, `StateFileSurvives` | the constants' assumptions |
| `Workstation_proofs`: path mapping | `MappingTyped`, `LongestWins` | the constants' assumption: lowering case twice is lowering it once |
| `Workstation_proofs`: snapshots | `SnapshotsTyped`, `SnapshotsInvariance`, `SnapshotsAddUp`, `DifferencesTell` | the constants' assumption |
| `Workstation_proofs`: all commands | `CommandsRun`, `WorkstationTyped`, `WorkstationKeeps` | those of the commands |
| `Loops` | no theorem about the code: lemmas | |

The assumptions that say that a marker (`Gone`, `NoFile`, `Unmapped`) is none of the values it stands
beside say what Python's `None` is; TLC evaluates them in the runs.

*Loops.* The library's theorems of induction take an operator as a parameter, which the provers
cannot instantiate. `Loops` states what is needed with sets instead: a set of numbers that contains 0,
and with a number its successor up to N, contains all numbers up to N (`Induct`); it follows from the
minimal elements of a well-founded relation. With it, `LoopExists` shows that the function which
computes a loop turn by turn exists, and so what a recursive function of the model does at every
turn can be proved, in a set of the turns at which it is right.

*Uploads.* `CacheOnlySeen` is not inductive: that a task about to cache its key has found or stored
the object is added (`SeenInv`). The assumption `~MayVanish` is needed, as `upload_vanished` shows.
`FinishedComplete` needs more. Only the incarnation that existed at the start can have rows that no
object vouches for, since later ones are filled by tasks of this model only; a submission trusts rows
only after it has sampled them behind the same path. So `CompletenessInv` says: any row is backed or
stale in the first incarnation (`DbInv`); from verification on, the rows of a submission's own keys
in the first incarnation are vouched for as long as that is what the path leads to, or what one of
its threads is connected to (`Trusting`); a finished task's key is vouched for (`Tasked`). Removing
the file makes the second true at once, and nothing brings the first incarnation back.
`CancelledNeverOk` is inductive. `QuietAfterEnd` follows the calling thread through the pools (`QuietInv`): no
task has begun before the pool is filled, no large file before the small ones are done, and of the large
ones at most one is on its way; so nothing is when the thread gets past them, returning or raising.

*Hashing.* `PairInv` pairs every hash, in the cache or in a task's locals, with a time since which
the file had the hashed content. It needs the *start* of processing: the time is read before the
file. The refinement maps "what may be reported" to `after[f][mtime]`, and each step of the module
to `Begin`, `Write`, `Report`, `Raise` or a stutter.

*Sessions.* `MissedInv` adds to `NothingMissed` the versions that are in flight (`OnItsWay`) and that
recorded times are never ahead of the clock. `Benign` excludes failures, deleted files and times that
go back; each is needed, as section 5 says. `CleanInv` says that a file no task wrote is a synced
input whose time is on record. `FallsBack` and `InputsInPlace` follow how far the download of an input sync
is (`PutInPlace`, `DepsInPlace`): what is not to do any more is there, with the content of the merged
manifest. `VfsIsThere` excludes what the run `session_novfs` shows.
`BackedInv` adds to `ManifestBacked` the objects still to be uploaded by the action that is running, and
that only that action has no result.

*Downloads.* `UserFilesKept` is about steps. It follows from `UserInv`: a worker that has yet to ask
for a name is bound for its own path, and once a worker of a call that may not overwrite has settled
on a path, no file of the user is there. `CopiesApart` needs the numbers: every copy has one that is at
most what `collision_file_dict` has for its path (`NumberedInv`), and the next is larger.
`Delivered` says while the call runs that a file that has come is where it went, or another worker has
written there too (`DeliveredInv`); in a call that returns, that one is done as well. `SkippedUsable` needs that
no worker leaves an empty file where another's belongs (`SkipInv`): a name without a number is claimed only if
a file that was there has gone, only a cancelled stream takes files away, and calls that stream list
no path twice (`MergedOnce`).

*Output manifests.* The properties are about what readers select, so the invariant is about the writers:
manifests are of attempts that have begun (`BegunInv`), two attempts of a unit differ in their stamps
(`StampsInv`), of two attempts one is on record as having begun before the other (`BeganInv`,
`OrderInv`), and any manifests have a newest one among them (`NewestInv`, which holds because none is from
the future, `ClockInv`). `NewestInv` says in the invariant what an induction over finite sets would
otherwise have to show: that something is listed wherever there is something to list.

*Groups.* First come facts on trees: the directories above a path are a chain, so every set of them has a
deepest one, a finite set of locations has a longest, and `Key` is a group the path `BelongsTo` (`KeyBelongs`).
They rest on the library's well-foundedness of strict inclusion on finite sets, cited for its minimal
elements and not for induction. The invariant follows the loops: the stat cache knows nothing that was never so (`DiskInv`), a
member is in the group of its key, under what it was asked as (`MemberInv`), everything asked for has been placed or
is still to come (`TodoInv`, `LoopInv`), and a root that has been set is above all members and within the location
(`RootInv`); no group grows any more by then. `RootsApart` follows: if two groups had one root, the lower of their keys
would be a location above the members of the other group, and more specific than that group's key (`KeysApart`).

*Progress.* `HolderInv` says that the thread in the callback is where it can be, and that nobody is in the
callback after a No; `BatchInv` that the roots before the current one are counted, and the current one too
when the caller makes its last report; `PendingInv` that a file not begun at a No is never hashed.
`AllReported` needs the counters to be the number of tasks that are done (`CountInv`), by cardinalities, one
task at a time (`CountOne`). `ShownInv` says that hashing owes a report once all is counted, and that the
other operations have made it when they look at the answer for the last time.

*Mounts.* No entry is written twice because `Others` leaves out all entries of the mount that is recorded:
the lines of the file are disjoint (`Disjoint`), whatever fails, also where three lines meet. `MountsTracked`,
`CleanedUp` and `ServesEverything` have one invariant, for sessions in which nothing fails and no three lines meet
(`Readable`): every root shows the manifest of all the syncs that have reached it (`Mounted`), and the file is the
list of what is mounted, of all but the root in work while that is replaced, and of what is still to be unmounted
in the cleanup (`Recorded`). Its hard step is the kill, which writes the remaining lines back
joined: of two lines one remains, so nothing is joined to it (`RewrittenPair`). With three roots the step
is wrong, which is what `vfs_three` shows.

*Root mapping.* The groups are a loop over the mappings, and so is the proof. At every turn a file is where a
mapping so far leads to, or at home (`Routed`); every file is there once and under its own path (`EachOnce`); and
two files of different roots have different names in one directory, because the later of the mappings
found the names of the first taken and put its prefix before its own, the prefixes of different mappings differ, and each
is put before a name once (`ToldApart`). The invariant adds that the dictionary has each root once, and that
a rebuild that raises leaves groups that were right before (`Kept`). `MovesAsAsked` compares two such
loops that differ in one mapping.

Two properties were too strong as they were first written, which the attempts to prove them showed, and TLC
on a larger instance confirmed. `NamesApart` exempted two files only if the prefixes of their own roots are alike; but a
file of a third root gets such a prefix too when it is sent on with one of these roots, so the exemption is now the
state's (`PrefixesMeet`). `MovedWhereAsked` demanded that all files of other roots stay where they are; but what had been sent
on with a root goes along when this root is moved again (`SentOn(old)`).

*A downloader in a job.* `ListingsStayRight` joins the two: the job's steps leave a downloader alone and a
downloader's the job, so both invariants hold side by side, and a step of the composition is a step or a stutter of each part.

*State file.* `RoundTrip` shows that `FromDict(ToDict(s)) = s` for every state, jobs without outputs
included. `SavingInv` says that a run's temporary file is the text of what it has in memory, whole once it is
written, and that the file is nobody else's; so what replaces the state file is whole.

*Path mapping.* The rules are a loop over the locations of the source profile: for each name the rule of the last
location with it, and only where the target has the name. The trie after n rules has the prefixes of these rules as nodes
and, at the end of each, the destination of the last rule that ends there (`TrieOf`); the invariant carries it from one
rule to the next. The walk keeps the longest rule for the parts walked so far (`Best`); where it leaves the trie no
rule has a longer part of the path (`WalkOver`), so it is the longest for the whole path. `LongestWins`
translates this back to the two profiles.

*Snapshots.* A file may be written between any two looks at it, so nothing can be said of the present. What can be said
is about versions. `PairsInv`: whatever pairs a hash with a time, in the cache, in a saved manifest or in a
new entry, there was a version of this time with this content, or one that was overwritten between the `stat` and
the read, and is not the present one; unless two versions of the file had one time (`Twins`), which nobody can tell apart.
That is what keeps the cache and the manifests of earlier calls sound while files go on changing (`AgingSnapInv`). Then
the call: a comparison that finds a file unchanged at one moment shows that what the manifest says was the content at
this moment of the call (`Right`); what is listed is still to be looked at, is right in the manifest, or is or will be in
the entries (`ListInv`, `CompareInv`, `HashInv`, `WriteInv`), each with a hash the file had during the call
(`EntriesInv`). At the end nothing is left to do, and merging adds the two together.

*Workstation.* Every step of the composition is a step of one module that leaves the others' variables alone
(`PartsGoOn`), so a behaviour of it is a behaviour of every module (`CommandsRun`), and what is proved of a module
holds of it (`WorkstationKeeps`), the refinement of `HashContract` included.

Every invariant and both action properties of the passing runs (`UserFilesKept`, `MovedWhereAsked`), and the
refinement `Implements`, are proved. Only model-checked is liveness: `Terminates` of uploads and of downloads,
since neither fairness nor ENABLED is within the provers' reach. The violations of section 5 are TLC's.
That a bound is large enough for the interesting cases to happen is no matter of proof either: the mutants show it.

## 7. Left out

Formats, wording and statistics; multipart uploads; SQLite's write-ahead log and its side files;
the retry delays; path summaries; permissions; Windows and Python-version
differences beyond the removal of an open file. `SampleCache` takes the opening of the cache and its
lookups as one step: in between, another process could only delete the file (the connection stays
usable) or add rows that are backed. `upload_assets` without a manifest prefix does less of the same. The snapshot variants
copy files locally along the control flow of the uploads; their progress and their cancellation are in
`ProgressTracker`, their copies are not modelled. The driver of the incremental download is not in the repository. The remaining components of section 1 are listed with
their reasons in `PROJECT.json`.
