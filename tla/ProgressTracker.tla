--------------------------- MODULE ProgressTracker ---------------------------
(***************************************************************************)
(* ProgressTracker and the four operations that drive it: hashing, upload, *)
(* download and the copy of a job snapshot.  Threads of a pool move files  *)
(* and report bytes, the calling thread counts the files whose result it   *)
(* has got and reports too; every report may call the user's callback,     *)
(* whose answer says whether to go on.  The callback runs under the lock   *)
(* of the tracker, and in the thread that came to report.                  *)
(* Bytes, rates and messages are left out; the time since the last report  *)
(* may always have passed the interval, or not.                            *)
(***************************************************************************)
EXTENDS Naturals, FiniteSets

CONSTANTS
  TFiles,        \* the files of the call
  BatchOf,       \* BatchOf[f]: the asset root f is under; roots come one by one
  Batches,       \* the number of asset roots
  MaxChunk,      \* max_files_in_chunk
  TKinds,        \* the operations
  Caller, Nobody

ASSUME TrackerAssumption ==
  /\ IsFiniteSet(TFiles)
  /\ Batches \in Nat \ {0} /\ MaxChunk \in Nat \ {0}
  /\ BatchOf \in [TFiles -> 1..Batches]
  /\ TKinds \subseteq {"hash", "upload", "download", "snapshot"}
  /\ Caller \notin TFiles /\ Nobody \notin TFiles \cup {Caller}

VARIABLES
  tkind,      \* the operation
  tphase,     \* of the call: "idle", "running", "returned" or "raised"
  batch,      \* the asset root the call is at
  caller,     \* where the calling thread is
  worker,     \* the state of every file's task
  holder,     \* whose report is in the callback, with the lock held
  processed, skipped, inChunk,   \* the counters of the tracker
  timed,      \* last_report_time is set
  reporting,  \* continue_reporting
  shown,      \* the number of files done in the last report, if any
  gone,       \* history: files that upload_file_to_s3 left out
  refused,    \* history: the callback has answered False
  pending     \* history: the files not begun when it did

counters == <<processed, skipped, inChunk, timed>>
historyT == <<gone, refused, pending>>
trackerVars == <<tkind, tphase, batch, caller, worker, holder, counters, reporting, shown, historyT>>

WorkerStates == {"queued", "moving", "telling", "stopping", "new", "skipped", "failed", "counted"}

TrackerTypeOK ==
  /\ tkind \in TKinds
  /\ tphase \in {"idle", "running", "returned", "raised"}
  /\ batch \in 1..Batches
  /\ caller \in {"collect", "report", "reporting", "final", "finishing", "check", "drain", "over"}
  /\ worker \in [TFiles -> WorkerStates]
  /\ holder \in TFiles \cup {Caller, Nobody}
  /\ processed \in Nat /\ skipped \in Nat /\ inChunk \in Nat /\ timed \in BOOLEAN
  /\ reporting \in BOOLEAN
  /\ shown \in Nat
  /\ gone \subseteq TFiles /\ refused \in BOOLEAN /\ pending \subseteq TFiles

Total == Cardinality(TFiles)
Completed == processed + skipped
PerChunk == IF Total >= MaxChunk THEN MaxChunk ELSE 1

TrackerInit ==
  /\ tkind \in TKinds /\ tphase = "idle"
  /\ batch = 1 /\ caller = "collect"
  /\ worker = [f \in TFiles |-> "queued"]
  /\ holder = Nobody
  /\ processed = 0 /\ skipped = 0 /\ inChunk = 0 /\ timed = FALSE
  /\ reporting = TRUE /\ shown = 0
  /\ gone = {} /\ refused = FALSE /\ pending = {}

StartTracking ==
  /\ tphase = "idle"
  /\ tphase' = "running"
  /\ UNCHANGED <<tkind, batch, caller, worker, holder, counters, reporting, shown, historyT>>

-----------------------------------------------------------------------------
(* The tracker.  A thread that wants to count or report waits for the lock *)
(* until no callback runs; what it does under the lock is one step, up to  *)
(* the callback.                                                           *)

(* _report_progress must call back: the first report, a chunk is full, or  *)
(* all is done.                                                            *)
DueByChunkOnly(t) == ~t \/ inChunk >= PerChunk
Due(t) == ~t \/ inChunk >= PerChunk \/ Completed = Total

(* The answer so far is asked under the lock; t says whether the time of a *)
(* last report is set, and when the interval since then has passed, the    *)
(* callback is called though no other reason is there.                     *)
MayReportUnasked == TRUE
MayReport == reporting

CallBack(a) == MayReport /\ holder' = a
StaySilent(t) == (~MayReport \/ ~Due(t)) /\ holder' = Nobody

(* The callback has answered. *)
Answered == shown' = Completed /\ inChunk' = 0 /\ timed' = TRUE /\ UNCHANGED <<processed, skipped>>

Yes == Answered /\ UNCHANGED <<reporting, refused, pending>>

No ==
  /\ Answered
  /\ reporting' = FALSE /\ refused' = TRUE
  /\ pending' = {f \in TFiles : worker[f] = "queued"}

(* It has raised an exception, which leaves everything as it is. *)
Raises == UNCHANGED <<counters, reporting, shown, refused, pending>>

-----------------------------------------------------------------------------
(* The tasks of the thread pool *)

Active(f) == tphase = "running" /\ BatchOf[f] = batch

Becomes(f, s) == worker' = [worker EXCEPT ![f] = s]

(* A task begins: hashing asks whether it was cancelled, without the lock; *)
(* an upload or a download may find that there is nothing to move.         *)
BeginsAs(f) ==
  CASE tkind = "hash" -> IF reporting THEN {"moving"} ELSE {"failed"}
    [] tkind = "snapshot" -> {"moving", "failed"}
    [] OTHER -> {"moving", "skipped", "failed"}

Begin(f) ==
  /\ Active(f) /\ worker[f] = "queued"
  /\ \E s \in BeginsAs(f) : Becomes(f, s)
  /\ UNCHANGED <<tkind, tphase, batch, caller, holder, counters, reporting, shown, historyT>>

(* The file has vanished, or is no regular file: upload_file_to_s3 returns *)
(* and the caller takes the file for uploaded.                             *)
BeginGone(f) ==
  /\ Active(f) /\ worker[f] = "queued" /\ tkind = "upload"
  /\ Becomes(f, "new") /\ gone' = gone \cup {f}
  /\ UNCHANGED <<tkind, tphase, batch, caller, holder, counters, reporting, shown, refused, pending>>

(* track_progress: bytes have moved.  A transfer that is told to stop is   *)
(* cancelled; the copy of a snapshot is over by now.                       *)
Heeded(s) == IF tkind = "snapshot" THEN "new" ELSE s

Track(f) ==
  /\ Active(f) /\ worker[f] \in {"moving", "stopping"} /\ tkind # "hash"
  /\ holder = Nobody
  /\ timed' = TRUE
  /\ \/ CallBack(f) /\ Becomes(f, "telling")
     \/ StaySilent(TRUE) /\ Becomes(f, Heeded(IF reporting THEN "moving" ELSE "stopping"))
  /\ UNCHANGED <<tkind, tphase, batch, caller, processed, skipped, inChunk, reporting, shown, historyT>>

TrackAnswered(f) ==
  /\ holder = f /\ holder' = Nobody
  /\ \/ Yes /\ Becomes(f, Heeded("moving"))
     \/ No /\ Becomes(f, Heeded("stopping"))
     \/ Raises /\ Becomes(f, "failed")
  /\ UNCHANGED <<tkind, tphase, batch, caller, gone>>

(* A cancelled transfer may have been complete already. *)
Finishes(f) == worker[f] \in {"moving", "stopping"} /\ tkind # "snapshot"

FinishUpload(f) ==
  /\ Active(f) /\ tkind = "upload" /\ Finishes(f) /\ holder = Nobody
  /\ processed' = processed + 1 /\ inChunk' = inChunk + 1 /\ timed' = TRUE
  /\ Becomes(f, "new")
  /\ UNCHANGED <<tkind, tphase, batch, caller, holder, skipped, reporting, shown, historyT>>

(* A hashed file is new or modified, or the cache knew it. *)
Finish(f) ==
  /\ Active(f) /\ tkind \in {"hash", "download"} /\ Finishes(f)
  /\ Becomes(f, "new") \/ (tkind = "hash" /\ Becomes(f, "skipped"))
  /\ UNCHANGED <<tkind, tphase, batch, caller, holder, counters, reporting, shown, historyT>>

Fail(f) ==
  /\ Active(f) /\ worker[f] \in {"moving", "stopping"}
  /\ Becomes(f, "failed")
  /\ UNCHANGED <<tkind, tphase, batch, caller, holder, counters, reporting, shown, historyT>>

-----------------------------------------------------------------------------
(* The calling thread *)

(* as_completed: a result is there; who counts the file depends on the     *)
(* operation, and nobody counts one that a snapshot has copied.            *)
CountsProcessed(f) == worker[f] = "new" /\ tkind \in {"hash", "download"}
CountsSkipped(f) == worker[f] = "skipped" /\ tkind \in {"hash", "upload", "download"}

Collect(f) ==
  /\ Active(f) /\ caller = "collect" /\ worker[f] \in {"new", "skipped"}
  /\ \/ /\ CountsProcessed(f) /\ holder = Nobody
        /\ processed' = processed + 1 /\ inChunk' = inChunk + 1 /\ timed' = TRUE
        /\ UNCHANGED skipped
     \/ /\ CountsSkipped(f) /\ holder = Nobody
        /\ skipped' = skipped + 1 /\ inChunk' = inChunk + 1
        /\ UNCHANGED <<processed, timed>>
     \/ /\ ~CountsProcessed(f) /\ ~CountsSkipped(f)
        /\ UNCHANGED counters
  /\ Becomes(f, "counted")
  /\ caller' = IF tkind \in {"hash", "download"} THEN "report" ELSE "collect"
  /\ UNCHANGED <<tkind, tphase, batch, holder, reporting, shown, historyT>>

(* The result is an exception: the pool is left, which waits for its tasks. *)
CollectFailure(f) ==
  /\ Active(f) /\ caller = "collect" /\ worker[f] = "failed"
  /\ caller' = "drain"
  /\ UNCHANGED <<tkind, tphase, batch, worker, holder, counters, reporting, shown, historyT>>

(* report_progress after a result, which may tell no one, and at the end *)
Report ==
  /\ tphase = "running" /\ caller \in {"report", "final"} /\ holder = Nobody
  /\ LET next == IF caller = "report" THEN "collect" ELSE "check"
         told == IF caller = "report" THEN "reporting" ELSE "finishing"
     IN  \/ CallBack(Caller) /\ caller' = told
         \/ StaySilent(timed) /\ caller' = next
  /\ UNCHANGED <<tkind, tphase, batch, worker, counters, reporting, shown, historyT>>

ReportAnswered ==
  /\ holder = Caller /\ holder' = Nobody
  /\ \/ /\ Yes \/ No
        /\ caller' = (IF caller = "reporting" THEN "collect" ELSE "check")
        /\ UNCHANGED tphase
     \/ /\ Raises
        /\ IF caller = "reporting" THEN caller' = "drain" /\ UNCHANGED tphase
                                   ELSE caller' = "over" /\ tphase' = "raised"
  /\ UNCHANGED <<tkind, batch, worker, gone>>

(* All the results of the root are there.  Hashing makes no last report.   *)
Collected == \A f \in TFiles : BatchOf[f] = batch => worker[f] = "counted"

Leave == IF batch < Batches
         THEN batch' = batch + 1 /\ caller' = "collect" /\ UNCHANGED tphase
         ELSE tphase' = "returned" /\ caller' = "over" /\ UNCHANGED batch

BatchDone ==
  /\ tphase = "running" /\ caller = "collect" /\ Collected
  /\ IF tkind = "hash" THEN Leave ELSE caller' = "final" /\ UNCHANGED <<tphase, batch>>
  /\ UNCHANGED <<tkind, worker, holder, counters, reporting, shown, historyT>>

(* Uploads and snapshots look at the answer once more. *)
Cancels == tkind \in {"upload", "snapshot"} /\ ~reporting

LastCheck ==
  /\ tphase = "running" /\ caller = "check"
  /\ IF Cancels THEN tphase' = "raised" /\ caller' = "over" /\ UNCHANGED batch ELSE Leave
  /\ UNCHANGED <<tkind, worker, holder, counters, reporting, shown, historyT>>

(* The pool has run its tasks to the end, and the exception goes on. *)
Drained ==
  /\ tphase = "running" /\ caller = "drain"
  /\ \A f \in TFiles : BatchOf[f] = batch => worker[f] \in {"new", "skipped", "failed", "counted"}
  /\ tphase' = "raised" /\ caller' = "over"
  /\ UNCHANGED <<tkind, batch, worker, holder, counters, reporting, shown, historyT>>

Transfer(f) ==
  \/ Begin(f) \/ BeginGone(f) \/ Track(f) \/ TrackAnswered(f)
  \/ FinishUpload(f) \/ Finish(f) \/ Fail(f)

TrackerNext ==
  \/ StartTracking
  \/ \E f \in TFiles : Transfer(f) \/ Collect(f) \/ CollectFailure(f)
  \/ Report \/ ReportAnswered \/ BatchDone \/ LastCheck \/ Drained

TrackerSpec == TrackerInit /\ [][TrackerNext]_trackerVars

-----------------------------------------------------------------------------
(* An answer No is final, whichever thread got it and whatever the others  *)
(* are at: nobody calls the callback again, an upload or a snapshot does   *)
(* not return normally, and hashing only if every file had begun by then   *)
(* (its last answer is not looked at: a No then is lost).  A download may  *)
(* have nothing left to cancel.                                            *)
NoIsFinal ==
  refused =>
    /\ holder = Nobody
    /\ tphase = "returned" =>
         tkind = "download" \/ (tkind = "hash" /\ pending = {})

(* A call that returns has counted every file once, as processed or as     *)
(* skipped, and has shown the user all of them, unless the user wanted no  *)
(* more reports.  Files that vanished before their upload are counted by   *)
(* nobody; nor are those of a snapshot, whose reports stay at 0 files.     *)
AllReported ==
  tphase = "returned" /\ tkind # "snapshot" /\ TFiles # {} =>
    /\ Completed + Cardinality(gone) = Total
    /\ ~refused /\ gone = {} => shown = Total
=============================================================================
