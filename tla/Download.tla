-------------------------------- MODULE Download --------------------------------
(***************************************************************************)
(* Downloads into one directory, one call after the other: the thread pool *)
(* of _download_files_parallel with download_file, and its fork for        *)
(* incremental downloads, _download_manifest_paths with _download_file.    *)
(* Each call says what to do about files that exist.  A call may fail, be  *)
(* cancelled or be killed, and what it leaves is what the next call finds. *)
(* Left out: modification times, the temporary files of the transfer       *)
(* manager, and the progress counters; a transfer may be told to stop      *)
(* whatever earlier ones were told.                                        *)
(***************************************************************************)
EXTENDS Naturals, FiniteSets

CONSTANTS
  Entries,      \* the files of the manifests, each standing for its content
  Absent, User, Empty, Part,   \* what else a path may hold
  Paths,        \* paths in the directory
  PathOf,       \* PathOf[e]: where e belongs
  CopyPath,     \* CopyPath[p][n]: the path "p (n)"
  MaxCopies,    \* bound on n
  UserPaths,    \* where the user may save files
  Small,        \* entries an incremental download streams with get_object
  Legacy,       \* entries whose object has a key without the algorithm
  Modes,        \* FileConflictResolution
  Workers,      \* num_download_workers
  MaxCalls      \* bound on the calls

Originals == {PathOf[e] : e \in Entries}

ASSUME DownloadAssumption ==
  /\ Absent \notin {User, Empty, Part} /\ User \notin {Empty, Part} /\ Empty # Part
  /\ Entries \cap {Absent, User, Empty, Part} = {}
  /\ PathOf \in [Entries -> Paths]
  /\ MaxCopies \in Nat /\ MaxCalls \in Nat /\ Workers \in Nat \ {0}
  /\ CopyPath \in [Originals -> [1..MaxCopies -> Paths]]
  /\ \A p, q \in Originals : \A n, k \in 1..MaxCopies :
       CopyPath[p][n] = CopyPath[q][k] => p = q /\ n = k
  /\ \A p \in Originals : \A n \in 1..MaxCopies : CopyPath[p][n] # p
  /\ UserPaths \subseteq Paths /\ Small \subseteq Entries /\ Legacy \subseteq Entries
  /\ Modes \subseteq {"SKIP", "OVERWRITE", "CREATE_COPY"}
ASSUME EntriesAssumption == IsFiniteSet(Entries)

VARIABLES
  phase,        \* where the calling thread is
  calls,        \* the number of calls so far
  mode,         \* what this call does about existing files
  incremental,  \* this call is the incremental download's
  task,         \* where the worker is, per entry
  target,       \* where the entry goes
  collisions,   \* collision_file_dict
  disk,         \* what is at every path
  torn          \* history: paths that streaming into them was cut short

callVars == <<phase, calls, mode, incremental>>
vars == <<callVars, task, target, collisions, disk, torn>>

Running == {"pool", "drain_failed", "drain_cancelled"}
Ended   == {"ok", "failed", "cancelled", "killed"}
Active  == {"claim", "fetch", "retry", "get", "stream", "stamp"}
Raised  == {"failed", "cancelled"}
Over    == {"done", "skipped", "unlisted"}
Present(p) == disk[p] # Absent

TypeOK ==
  /\ phase \in {"idle"} \cup Running \cup Ended
  /\ calls \in Nat /\ mode \in Modes /\ incremental \in BOOLEAN
  /\ task \in [Entries -> {"queued"} \cup Active \cup Raised \cup Over]
  /\ target \in [Entries -> Paths]
  /\ collisions \in [Originals -> 0..MaxCopies]
  /\ disk \in [Paths -> {Absent, User, Empty, Part} \cup Entries]
  /\ torn \subseteq Paths

Init ==
  /\ phase = "idle" /\ calls = 0 /\ mode \in Modes /\ incremental = FALSE
  /\ task = [e \in Entries |-> "unlisted"]
  /\ target = PathOf
  /\ collisions = [p \in Originals |-> 0]
  /\ disk = [p \in Paths |-> Absent]
  /\ torn = {}

-----------------------------------------------------------------------------
(* Between the calls the user may save files where the entries belong.     *)
UserSaves(p) ==
  /\ phase \in {"idle"} \cup Ended /\ calls < MaxCalls
  /\ disk[p] # User
  /\ phase' = "idle"
  /\ disk' = [disk EXCEPT ![p] = User]
  /\ torn' = torn \ {p}
  /\ UNCHANGED <<calls, mode, incremental, task, target, collisions>>

(* The files a call may list: manifests merged by path, or, as             *)
(* download_files_in_directory puts inputs and outputs together and leaves *)
(* the default mode, the files of several manifests.                       *)
Merged(S) == \A p \in Originals : Cardinality({e \in S : PathOf[e] = p}) = 1
Listed(m, i) ==
  {S \in SUBSET Entries : Merged(S) \/ (S = Entries /\ m = "CREATE_COPY" /\ ~i)}

(* The calling thread. *)
Begin(m, i) ==
  /\ phase \in {"idle"} \cup Ended /\ calls < MaxCalls
  /\ phase' = "pool" /\ calls' = calls + 1
  /\ mode' = m /\ incremental' = i
  /\ \E S \in Listed(m, i) :
       task' = [e \in Entries |-> IF e \in S THEN "queued" ELSE "unlisted"]
  /\ target' = PathOf
  /\ collisions' = [p \in Originals |-> 0]
  /\ UNCHANGED <<disk, torn>>

(* future.result() raises; leaving the executor waits for every future.    *)
Moves(new) ==
  /\ phase' = new
  /\ UNCHANGED <<calls, mode, incremental, task, target, collisions, disk, torn>>

Surface ==
  /\ phase = "pool"
  /\ \E e \in Entries :
       \/ task[e] = "failed"    /\ Moves("drain_failed")
       \/ task[e] = "cancelled" /\ Moves("drain_cancelled")

AllDone == \A e \in Entries : task[e] \in Over
AllOver == \A e \in Entries : task[e] \in Over \cup Raised

Drained ==
  /\ AllOver
  /\ \/ phase = "drain_failed"    /\ Moves("failed")
     \/ phase = "drain_cancelled" /\ Moves("cancelled")

(* Every result is in; the answer to the last report is not looked at.     *)
Finish ==
  /\ phase = "pool" /\ \A e \in Entries : task[e] \in Over
  /\ Moves("ok")

Kill == phase \in Running /\ Moves("killed")

-----------------------------------------------------------------------------
(* The workers. *)
At(e, t) == phase \in Running /\ task[e] = t
Step(e, t) == task' = [task EXCEPT ![e] = t]
Put(p, x) == disk' = [disk EXCEPT ![p] = x]
Transfer(e) == IF incremental /\ e \in Small THEN "get" ELSE "fetch"

(* is_file() of the path where the file belongs                            *)
Examine(e) ==
  /\ At(e, "queued")
  /\ Cardinality({x \in Entries : task[x] \in Active}) < Workers
  /\ \/ (~Present(PathOf[e]) \/ mode = "OVERWRITE") /\ Step(e, Transfer(e))
     \/ Present(PathOf[e]) /\ mode = "SKIP"         /\ Step(e, "skipped")
     \/ Present(PathOf[e]) /\ mode = "CREATE_COPY"  /\ Step(e, "claim")
  /\ UNCHANGED <<callVars, target, collisions, disk, torn>>

(* The number the search for a name stops at, 0 for the path itself.       *)
NameOf(p, n) == IF n = 0 THEN p ELSE CopyPath[p][n]
Tried(p) == {0} \cup (collisions[p] + 1)..MaxCopies
FreeFromLast(p, n) == n = collisions[p] + 1
FreeUnlessFilled(p, n) ==
  /\ disk[NameOf(p, n)] \in {Absent, Empty}
  /\ \A k \in 0..(n - 1) : disk[NameOf(p, k)] \notin {Absent, Empty}
Free(p, n) ==
  /\ n \in Tried(p) /\ ~Present(NameOf(p, n))
  /\ \A k \in Tried(p) : k < n => Present(NameOf(p, k))

CountOf(p, n) == IF n = 0 THEN collisions[p] ELSE n
(* _get_new_copy_file_path: under the lock, names are tried until one can  *)
(* be created, and an empty file holds the name.                           *)
Claim(e) ==
  /\ At(e, "claim")
  /\ \E n \in 0..MaxCopies :
       /\ Free(PathOf[e], n)
       /\ target' = [target EXCEPT ![e] = NameOf(PathOf[e], n)]
       /\ Put(NameOf(PathOf[e], n), Empty)
       /\ collisions' = [collisions EXCEPT ![PathOf[e]] = CountOf(PathOf[e], n)]
  /\ Step(e, Transfer(e))
  /\ UNCHANGED <<callVars, torn>>

Elsewhere == UNCHANGED <<callVars, target, collisions>>

(* transfer_manager.download: the file is renamed into place when all of   *)
(* it has come.                                                            *)
EndTransfer(e) ==
  /\ \/ At(e, "fetch") /\ e \notin Legacy
     \/ At(e, "retry")
  /\ Put(target[e], e)
  /\ torn' = torn \ {target[e]}
  /\ Step(e, "stamp") /\ Elsewhere

NotFoundPassed(e) ==
  /\ e \in Legacy /\ At(e, "fetch") /\ Step(e, "stamp")
  /\ UNCHANGED <<disk, torn>> /\ Elsewhere

(* 404: download_file tries the key without the hash algorithm, the        *)
(* incremental download does not.                                          *)
NotFound(e) ==
  /\ e \in Legacy
  /\ \/ At(e, "fetch") /\ ~incremental /\ Step(e, "retry")
     \/ (At(e, "fetch") \/ At(e, "get")) /\ incremental /\ Step(e, "failed")
  /\ UNCHANGED <<disk, torn>> /\ Elsewhere

(* The progress callback cancels the transfer.  Before the first           *)
(* download() has returned there is no future to cancel, and the callback  *)
(* fails instead.                                                          *)
CancelTransfer(e) ==
  /\ \/ (At(e, "fetch") \/ At(e, "retry")) /\ Step(e, "cancelled")
     \/ At(e, "fetch") /\ Step(e, "failed")
  /\ UNCHANGED <<disk, torn>> /\ Elsewhere

(* mkdir, S3, or the stamping of the modification time fails.              *)
Fail(e) ==
  /\ \E t \in {"fetch", "retry", "get", "stamp"} : At(e, t)
  /\ Step(e, "failed")
  /\ UNCHANGED <<disk, torn>> /\ Elsewhere

(* _download_file_with_get_object: the file is emptied once S3 has         *)
(* answered, and written as the data come.                                 *)
GetObject(e) ==
  /\ At(e, "get") /\ e \notin Legacy
  /\ Put(target[e], Part)
  /\ torn' = torn \cup {target[e]}
  /\ Step(e, "stream") /\ Elsewhere

EndStream(e) ==
  /\ At(e, "stream")
  /\ Put(target[e], e)
  /\ torn' = torn \ {target[e]}
  /\ Step(e, "stamp") /\ Elsewhere

CancelStreamKept(e) ==
  /\ At(e, "stream")
  /\ torn' = torn \ {target[e]}
  /\ Step(e, "failed")
  /\ UNCHANGED disk /\ Elsewhere

(* A cancelled stream removes the file; the exception it raises is caught  *)
(* and raised again as an AssetSyncError.                                  *)
CancelStream(e) ==
  /\ At(e, "stream")
  /\ Put(target[e], Absent)
  /\ torn' = torn \ {target[e]}
  /\ Step(e, "failed") /\ Elsewhere

FailStream(e) ==
  /\ At(e, "stream")
  /\ Step(e, "failed")
  /\ UNCHANGED <<disk, torn>> /\ Elsewhere

(* os.utime, and for incremental downloads the check of the file's size;   *)
(* files of different entries may have one size.                           *)
Stamp(e) ==
  /\ At(e, "stamp")
  /\ LET now == disk[target[e]] IN
     \/ now # Absent /\ (incremental => now \notin {Empty, Part}) /\ Step(e, "done")
     \/ (now = Absent \/ (incremental /\ now # e)) /\ Step(e, "failed")
  /\ UNCHANGED <<disk, torn>> /\ Elsewhere

-----------------------------------------------------------------------------
Work(e) ==
  \/ Examine(e) \/ Claim(e) \/ EndTransfer(e) \/ NotFound(e) \/ CancelTransfer(e) \/ Fail(e)
  \/ GetObject(e) \/ EndStream(e) \/ CancelStream(e) \/ FailStream(e) \/ Stamp(e)

Call == Surface \/ Drained \/ Finish \/ \E e \in Entries : Work(e)

Next ==
  \/ \E p \in UserPaths : UserSaves(p)
  \/ \E m \in Modes, i \in BOOLEAN : Begin(m, i)
  \/ Call
  \/ Kill

Spec == Init /\ [][Next]_vars

(* A call is scheduled, and its S3 requests return. *)
FairSpec == Spec /\ WF_vars(Call)

-----------------------------------------------------------------------------
(* Only a call that was asked to overwrite touches a file the user had     *)
(* when it began.                                                          *)
UserFilesKept ==
  [][\A p \in Paths : disk[p] = User /\ disk'[p] # User => mode = "OVERWRITE"]_vars

(* Two entries of one call that have taken the names of copies have not    *)
(* taken the same.                                                         *)
Copied(e) == target[e] # PathOf[e]
CopiesApart ==
  \A x, y \in Entries : x # y /\ Copied(x) /\ Copied(y) => target[x] # target[y]

(* When a call returns normally, every file it says it has downloaded is   *)
(* there, unless another entry went to the same path: download_file looks  *)
(* at the path of a file outside the lock, so one of two such entries that *)
(* have found no file there replaces the other.                            *)
Delivered ==
  phase = "ok" =>
    \A e \in Entries :
      /\ task[e] = "done"
      /\ \A x \in Entries \ {e} : task[x] = "done" => target[x] # target[e]
      => disk[target[e]] = e

(* A file that is skipped is the user's or a whole file that belongs       *)
(* there, not what a failed, cancelled or killed call left, unless it was  *)
(* streaming, or the name is also the name of a copy.                      *)
CopyNames == {CopyPath[p][n] : p \in Originals, n \in 1..MaxCopies}
SkippedUsable ==
  \A e \in Entries :
    task[e] = "skipped" =>
      \/ disk[PathOf[e]] = User
      \/ \E x \in Entries : PathOf[x] = PathOf[e] /\ disk[PathOf[e]] = x
      \/ PathOf[e] \in torn \cup CopyNames

(* Every call returns or raises.                                           *)
Terminates == phase \in Running ~> phase \in Ended
=============================================================================
