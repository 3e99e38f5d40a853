---------------------------- MODULE AssetUpload ----------------------------
(***************************************************************************)
(* S3AssetUploader.upload_assets: the submissions of one workstation, in   *)
(* any number of processes, upload the files of their manifests to the     *)
(* content-addressed store (CAS) of one bucket.  They share one "S3 check  *)
(* cache" file, the SQLite database that remembers which objects have been *)
(* seen in the bucket.  A submission writes its manifest object, checks a  *)
(* sample of the cached keys against the bucket (and deletes the cache     *)
(* when one is missing), uploads its small files in a thread pool and then *)
(* its large files one by one.  The hashes in the manifests are taken as   *)
(* given: module AssetHash models how they are computed.                   *)
(***************************************************************************)
EXTENDS Naturals, FiniteSets

CONSTANTS
  Subs,        \* submissions: one call of upload_assets each
  Files,       \* local files
  Keys,        \* object keys of the CAS; the content with hash k has key k
  HashOf,      \* HashOf[f]: the key computed from the hash the manifest records
  ManifestOf,  \* ManifestOf[s]: the files the manifest of s lists
  Large,       \* the files above the small file threshold
  Forced,      \* the submissions made with force_s3_check=True
  Workers,     \* num_upload_workers
  SampleLimit, \* how many cached entries are verified (30 in the code)
  Dbs,         \* incarnations of the cache file: |Subs| + 1 are enough
  InitDb,      \* the incarnation that exists at the start
  NoDb, NoObject,
  MayVanish,   \* files may disappear, or become a directory or a symlink
  MayChange,   \* files may be edited
  MaxTouched,  \* bound on the files that vanish or are edited
  MayLose,     \* objects may be deleted from the bucket
  MayFail      \* S3 calls may fail

ASSUME ConstantsAssumption ==
  /\ HashOf \in [Files -> Keys]
  /\ ManifestOf \in [Subs -> SUBSET Files]
  /\ Large \subseteq Files /\ Forced \subseteq Subs
  /\ Workers \in Nat \ {0} /\ SampleLimit \in Nat \ {0}
  /\ InitDb \in Dbs /\ NoDb \notin Dbs /\ NoObject \notin Keys
  /\ MaxTouched \in Nat
  /\ {MayVanish, MayChange, MayLose, MayFail} \subseteq BOOLEAN

VARIABLES
  phase,      \* where upload_assets is, per submission
  sample,     \* sampled cache entries still to be checked against the bucket
  task,       \* where upload_object_to_cas is, per submission and file
  handle,     \* the incarnation of the cache a submission has opened
  locals,     \* the incarnations its threads have connected to
  continue,   \* ProgressTracker.continue_reporting
  manifests,  \* submissions whose manifest object is in the bucket
  store,      \* the content of every CAS object
  disk,       \* the content of every local file
  regular,    \* the files whose path still leads to a regular file
  dbFile,     \* the incarnation the path of the cache file leads to
  used,       \* the incarnations that have existed
  tables,     \* those of them in which the table has been created
  rows,       \* the keys with an unexpired entry, per incarnation
  stale,      \* history: keys cached at the start without being in the bucket
  lost,       \* history: keys whose object has been deleted since the start
  seen,       \* history: keys found in or added to the bucket
  unsampled   \* history: cached keys of s beyond the sample limit

cacheVars == <<dbFile, used, tables, rows>>
histVars  == <<stale, lost, seen, unsampled>>
vars == <<phase, sample, task, handle, locals, continue, manifests, store, disk, regular,
          cacheVars, histVars>>

Running == {"sample", "verify", "reset", "remove", "open", "small",
            "drain_failed", "drain_cancelled", "large"}
Ended   == {"ok", "failed", "cancelled", "crashed"}
Active  == {"head", "upload", "transfer", "put"}
Raised  == {"failed", "cancelled"}

KeysOf(s)  == {HashOf[f] : f \in ManifestOf[s]}
SmallOf(s) == ManifestOf[s] \ Large
LargeOf(s) == ManifestOf[s] \cap Large
InStore(k) == store[k] # NoObject

TypeOK ==
  /\ phase \in [Subs -> {"idle"} \cup Running \cup Ended]
  /\ sample \in [Subs -> SUBSET Keys]
  /\ task \in [Subs -> [Files -> {"queued", "done"} \cup Active \cup Raised]]
  /\ handle \in [Subs -> Dbs \cup {NoDb}]
  /\ locals \in [Subs -> SUBSET Dbs]
  /\ continue \in [Subs -> BOOLEAN]
  /\ manifests \subseteq Subs
  /\ store \in [Keys -> Keys \cup {NoObject}]
  /\ disk \in [Files -> Keys] /\ regular \subseteq Files
  /\ dbFile \in Dbs \cup {NoDb}
  /\ used \subseteq Dbs /\ tables \subseteq Dbs
  /\ rows \in [Dbs -> SUBSET Keys]
  /\ stale \subseteq Keys /\ lost \subseteq Keys /\ seen \subseteq Keys
  /\ unsampled \in [Subs -> SUBSET Keys]

(***************************************************************************)
(* At the start the manifests are computed and the files are as they were  *)
(* hashed; the bucket and the cache hold whatever earlier submissions and  *)
(* deletions have left, so a cached key need not be in the bucket.         *)
(***************************************************************************)
Init ==
  /\ phase = [s \in Subs |-> "idle"]
  /\ sample = [s \in Subs |-> {}]
  /\ task = [s \in Subs |-> [f \in Files |-> "queued"]]
  /\ handle = [s \in Subs |-> NoDb]
  /\ locals = [s \in Subs |-> {}]
  /\ continue = [s \in Subs |-> TRUE]
  /\ manifests = {}
  /\ \E present, cached \in SUBSET Keys :
       /\ store = [k \in Keys |-> IF k \in present THEN k ELSE NoObject]
       /\ rows = [d \in Dbs |-> IF d = InitDb THEN cached ELSE {}]
       /\ stale = cached \ present
       /\ seen = cached \cup present
  /\ disk = HashOf /\ regular = Files
  /\ dbFile = InitDb
  /\ used = {InitDb} /\ tables = {InitDb}
  /\ lost = {}
  /\ unsampled = [s \in Subs |-> {}]

Goto(s, p) == phase' = [phase EXCEPT ![s] = p]
Step(s, f, t) == task' = [task EXCEPT ![s][f] = t]

-----------------------------------------------------------------------------
(* sqlite3.connect creates the file when there is none; d is the           *)
(* incarnation reached.                                                    *)
Dial(d) ==
  \/ /\ dbFile = d
     /\ UNCHANGED <<dbFile, used>>
  \/ /\ dbFile = NoDb /\ d \in Dbs \ used
     /\ dbFile' = d
     /\ used' = used \cup {d}

(* CacheDB.__enter__ creates the table as well.                            *)
Connect(d) == Dial(d) /\ tables' = tables \cup {d}

(* CacheDB.__exit__ closes the connection and those of the threads.        *)
CloseCache(s) ==
  /\ handle' = [handle EXCEPT ![s] = NoDb]
  /\ locals' = [locals EXCEPT ![s] = {}]

(* head_object: an answer other than 403 is "no object" *)
HeadSays(k, answer) ==
  \/ answer = "yes" /\ InStore(k)
  \/ answer = "no"  /\ (~InStore(k) \/ MayFail)
  \/ answer = "error" /\ MayFail

(* upload_assets: the manifest object goes to the bucket before any data.  *)
UploadManifest(s) ==
  /\ phase[s] = "idle"
  /\ \/ /\ manifests' = manifests \cup {s}
        /\ Goto(s, IF s \in Forced THEN "open" ELSE "sample")
     \/ /\ MayFail
        /\ Goto(s, "failed")
        /\ UNCHANGED manifests
  /\ UNCHANGED <<sample, task, handle, locals, continue, store, disk, regular, cacheVars, histVars>>

(* verify_hash_cache_integrity, first half: the keys of the manifest are   *)
(* looked up in random order until SampleLimit of them are found cached.   *)
SampleCache(s) ==
  /\ phase[s] = "sample"
  /\ \E d \in Dbs :
       /\ Connect(d)
       /\ LET cached == rows[d] \cap KeysOf(s) IN
          \E chosen \in SUBSET cached :
            /\ Cardinality(chosen) <= SampleLimit
            /\ chosen = cached \/ Cardinality(chosen) = SampleLimit
            /\ sample' = [sample EXCEPT ![s] = chosen]
            /\ unsampled' = [unsampled EXCEPT ![s] = cached \ chosen]
  /\ Goto(s, "verify")
  /\ UNCHANGED <<task, handle, locals, continue, manifests, store, disk, regular, rows,
                 stale, lost, seen>>

(* _check_hashes_exist_in_s3: one HEAD per sampled entry, and any answer   *)
(* but "yes" condemns the cache.                                           *)
CheckSample(s) ==
  /\ phase[s] = "verify"
  /\ \E k \in sample[s] :
       \/ /\ HeadSays(k, "yes")
          /\ sample' = [sample EXCEPT ![s] = @ \ {k}]
          /\ UNCHANGED phase
       \/ /\ HeadSays(k, "no") \/ HeadSays(k, "error")
          /\ sample' = [sample EXCEPT ![s] = {}]
          /\ Goto(s, "reset")
  /\ UNCHANGED <<task, handle, locals, continue, manifests, store, disk, regular, cacheVars, histVars>>

SampleVerified(s) ==
  /\ phase[s] = "verify" /\ sample[s] = {}
  /\ Goto(s, "open")
  /\ UNCHANGED <<sample, task, handle, locals, continue, manifests, store, disk, regular,
                 cacheVars, histVars>>

(* reset_s3_check_cache connects to the cache, then remove_cache deletes   *)
(* the file behind the path, whoever created it.  Processes connected to   *)
(* it keep the deleted incarnation.  os.remove raises when the file is     *)
(* missing and, on Windows, when another process is connected to it.       *)
ResetOpen(s) ==
  /\ phase[s] = "reset"
  /\ \E d \in Dbs : Connect(d) /\ handle' = [handle EXCEPT ![s] = d]
  /\ Goto(s, "remove")
  /\ UNCHANGED <<sample, task, locals, continue, manifests, store, disk, regular, rows, histVars>>

RemoveCacheClosesOnly(s) ==
  /\ phase[s] = "remove"
  /\ CloseCache(s)
  /\ Goto(s, "open")
  /\ UNCHANGED <<sample, task, continue, manifests, store, disk, regular, cacheVars, histVars>>

RemoveCache(s) ==
  /\ phase[s] = "remove"
  /\ CloseCache(s)
  /\ \/ /\ dbFile # NoDb
        /\ dbFile' = NoDb
        /\ Goto(s, "open")
     \/ /\ dbFile = NoDb \/ \E r \in Subs \ {s} : handle[r] = dbFile
        /\ UNCHANGED dbFile
        /\ Goto(s, "failed")
  /\ UNCHANGED <<sample, task, continue, manifests, store, disk, regular, used, tables, rows, histVars>>

(* upload_input_files opens the cache and fills the thread pool.           *)
OpenCache(s) ==
  /\ phase[s] = "open"
  /\ \E d \in Dbs :
       /\ Connect(d)
       /\ handle' = [handle EXCEPT ![s] = d]
  /\ Goto(s, "small")
  /\ UNCHANGED <<sample, task, locals, continue, manifests, store, disk, regular, rows, histVars>>

(* connecting fails for good after three attempts: the database is locked  *)
CacheFails(s) ==
  /\ MayFail /\ phase[s] \in {"sample", "reset", "open"}
  /\ Goto(s, "failed")
  /\ UNCHANGED <<sample, task, handle, locals, continue, manifests, store, disk, regular,
                 cacheVars, histVars>>

-----------------------------------------------------------------------------
(* upload_object_to_cas, one call per file.  Small files run in a pool of  *)
(* Workers threads, and the pool goes on with the queued files after one   *)
(* has raised; large files run one at a time in the calling thread.        *)
ActiveFiles(s) == {f \in ManifestOf[s] : task[s][f] \in Active}

Runnable(s, f) ==
  /\ task[s][f] = "queued"
  /\ \/ /\ f \in SmallOf(s)
        /\ phase[s] \in {"small", "drain_failed", "drain_cancelled"}
        /\ Cardinality(ActiveFiles(s)) < Workers
     \/ /\ f \in LargeOf(s)
        /\ phase[s] = "large"
        /\ \A g \in LargeOf(s) : task[s][g] \in {"queued", "done"}

At(s, f, t) ==
  /\ phase[s] \in Running
  /\ f \in ManifestOf[s]
  /\ task[s][f] = t

LookupVars == <<phase, sample, handle, locals, continue, manifests, store, disk, regular,
                cacheVars, histVars>>

(* get_local_connection: a thread connects at its first lookup, and stays  *)
(* connected to that incarnation.  The large files are looked up by the    *)
(* calling thread only.                                                    *)
MayDial(s) == phase[s] = "large" => locals[s] = {}

Consults(s, d) ==
  /\ \/ d \in locals[s] /\ UNCHANGED <<dbFile, used>>
     \/ MayDial(s) /\ Dial(d)
  /\ locals' = [locals EXCEPT ![s] = @ \cup {d}]

(* get_connection_entry raises when the file has no table yet              *)
AfterLookup(d, f) ==
  IF d \notin tables THEN "failed" ELSE IF HashOf[f] \in rows[d] THEN "done" ELSE "head"

(* force_s3_check skips the cache                                          *)
Lookup(s, f) ==
  /\ Runnable(s, f)
  /\ \/ s \in Forced /\ Step(s, f, "head") /\ UNCHANGED <<locals, dbFile, used>>
     \/ /\ s \notin Forced
        /\ \E d \in Dbs : Consults(s, d) /\ Step(s, f, AfterLookup(d, f))
     \/ s \notin Forced /\ MayFail /\ Step(s, f, "failed") /\ UNCHANGED <<locals, dbFile, used>>
  /\ UNCHANGED <<phase, sample, handle, continue, manifests, store, disk, regular,
                 tables, rows, histVars>>

(* file_already_uploaded *)
Head(s, f) ==
  /\ At(s, f, "head")
  /\ \/ HeadSays(HashOf[f], "yes")   /\ Step(s, f, "put")
     \/ HeadSays(HashOf[f], "no")    /\ Step(s, f, "upload")
     \/ HeadSays(HashOf[f], "error") /\ Step(s, f, "failed")
  /\ UNCHANGED LookupVars

(* upload_file_to_s3 up to the start of the transfer: a path that cannot   *)
(* be opened as a regular file is skipped, and the caller is not told.     *)
AfterOpen(f) == IF f \in regular THEN "transfer" ELSE "put"

OpenFile(s, f) ==
  /\ At(s, f, "upload")
  /\ Step(s, f, AfterOpen(f))
  /\ UNCHANGED LookupVars

(* The transfer ends with the content the open file has by then (an edit   *)
(* in between is enough to make it differ from the hashed one).  Its       *)
(* progress callback may learn of a cancellation too late to stop it.      *)
EndTransfer(s, f) ==
  /\ At(s, f, "transfer")
  /\ store' = [store EXCEPT ![HashOf[f]] = disk[f]]
  /\ seen' = seen \cup {HashOf[f]}
  /\ \E c \in {continue[s], FALSE} : continue' = [continue EXCEPT ![s] = c]
  /\ Step(s, f, "put")
  /\ UNCHANGED <<phase, sample, handle, locals, manifests, disk, regular, cacheVars, stale, lost, unsampled>>

(* The callback's answer is latched; once it is FALSE every later progress *)
(* report cancels the transfer that makes it.                              *)
CancelTransferSwallowed(s, f) ==
  /\ At(s, f, "transfer")
  /\ continue' = [continue EXCEPT ![s] = FALSE]
  /\ Step(s, f, "put")
  /\ UNCHANGED <<phase, sample, handle, locals, manifests, store, disk, regular, cacheVars, histVars>>

CancelTransfer(s, f) ==
  /\ At(s, f, "transfer")
  /\ continue' = [continue EXCEPT ![s] = FALSE]
  /\ Step(s, f, "cancelled")
  /\ UNCHANGED <<phase, sample, handle, locals, manifests, store, disk, regular, cacheVars, histVars>>

FailTransfer(s, f) ==
  /\ At(s, f, "transfer") /\ MayFail
  /\ Step(s, f, "failed")
  /\ UNCHANGED LookupVars

(* S3CheckCache.put_entry; SQLite raises when the database stays locked *)
PutEntry(s, f) ==
  /\ At(s, f, "put")
  /\ \/ /\ rows' = [rows EXCEPT ![handle[s]] = @ \cup {HashOf[f]}]
        /\ Step(s, f, "done")
     \/ /\ MayFail
        /\ Step(s, f, "failed")
        /\ UNCHANGED rows
  /\ UNCHANGED <<phase, sample, handle, locals, continue, manifests, store, disk, regular,
                 dbFile, used, tables, histVars>>

-----------------------------------------------------------------------------
(* The calling thread of upload_input_files. *)
MainVars == <<sample, task, continue, manifests, store, disk, regular, cacheVars, histVars>>

(* future.result() raises; leaving the executor waits for every future.    *)
RaiseSmall(s) ==
  /\ phase[s] = "small"
  /\ \E f \in SmallOf(s) :
       \/ task[s][f] = "failed"    /\ Goto(s, "drain_failed")
       \/ task[s][f] = "cancelled" /\ Goto(s, "drain_cancelled")
  /\ UNCHANGED <<handle, locals, MainVars>>

AllSmallSurfaced(s) == \E f \in SmallOf(s) : task[s][f] \in Raised
AllSmallDone(s) == \A f \in SmallOf(s) : task[s][f] = "done"
AllSmallOver(s) == \A f \in SmallOf(s) : task[s][f] \in {"done"} \cup Raised

Drained(s) ==
  /\ phase[s] \in {"drain_failed", "drain_cancelled"}
  /\ AllSmallOver(s)
  /\ Goto(s, IF phase[s] = "drain_failed" THEN "failed" ELSE "cancelled")
  /\ CloseCache(s)
  /\ UNCHANGED MainVars

SmallDone(s) ==
  /\ phase[s] = "small"
  /\ \A f \in SmallOf(s) : task[s][f] = "done"
  /\ Goto(s, "large")
  /\ locals' = [locals EXCEPT ![s] = {}]
  /\ UNCHANGED <<handle, MainVars>>

RaiseLarge(s) ==
  /\ phase[s] = "large"
  /\ \E f \in LargeOf(s) : task[s][f] \in Raised /\ Goto(s, task[s][f])
  /\ CloseCache(s)
  /\ UNCHANGED MainVars

(* The last progress report may bring the cancellation.                    *)
OutcomeUnchecked(c) == "ok"
Outcome(c) == IF c THEN "ok" ELSE "cancelled"

Finish(s) ==
  /\ phase[s] = "large"
  /\ \A f \in LargeOf(s) : task[s][f] = "done"
  /\ \E c \in {continue[s], FALSE} :
       /\ continue' = [continue EXCEPT ![s] = c]
       /\ Goto(s, Outcome(c))
  /\ CloseCache(s)
  /\ UNCHANGED <<sample, task, manifests, store, disk, regular, cacheVars, histVars>>

-----------------------------------------------------------------------------
(* The environment. *)
(* The process is killed: its memory is gone, the cache file stays. *)
Crash(s) ==
  /\ phase[s] \in Running
  /\ Goto(s, "crashed")
  /\ sample' = [sample EXCEPT ![s] = {}]
  /\ task' = [task EXCEPT ![s] = [f \in Files |-> "queued"]]
  /\ CloseCache(s)
  /\ continue' = [continue EXCEPT ![s] = TRUE]
  /\ UNCHANGED <<manifests, store, disk, regular, cacheVars, histVars>>

MayTouch(f) ==
  Cardinality({g \in Files : g \notin regular \/ disk[g] # HashOf[g]} \cup {f}) <= MaxTouched

Vanish(f) ==
  /\ MayVanish /\ MayTouch(f)
  /\ regular' = regular \ {f}
  /\ UNCHANGED <<phase, sample, task, handle, locals, continue, manifests, store,
                 disk, cacheVars, histVars>>

Edit(f) ==
  /\ MayChange /\ MayTouch(f)
  /\ \E k \in Keys : disk' = [disk EXCEPT ![f] = k]
  /\ UNCHANGED <<phase, sample, task, handle, locals, continue, manifests, store,
                 regular, cacheVars, histVars>>

LoseObject(k) ==
  /\ MayLose /\ InStore(k)
  /\ store' = [store EXCEPT ![k] = NoObject]
  /\ lost' = lost \cup {k}
  /\ UNCHANGED <<phase, sample, task, handle, locals, continue, manifests, disk, regular,
                 cacheVars, stale, seen, unsampled>>

(* ENTRY_EXPIRY_DAYS have passed since the entry was last written *)
ExpireEntry(k) ==
  /\ \E d \in Dbs : k \in rows[d] /\ rows' = [rows EXCEPT ![d] = @ \ {k}]
  /\ UNCHANGED <<phase, sample, task, handle, locals, continue, manifests, store,
                 disk, regular, dbFile, used, tables, histVars>>

-----------------------------------------------------------------------------
Upload(s, f) ==
  \/ Lookup(s, f) \/ Head(s, f) \/ OpenFile(s, f) \/ EndTransfer(s, f)
  \/ CancelTransfer(s, f) \/ FailTransfer(s, f) \/ PutEntry(s, f)

Main(s) ==
  \/ UploadManifest(s) \/ SampleCache(s) \/ CheckSample(s) \/ SampleVerified(s)
  \/ ResetOpen(s) \/ RemoveCache(s) \/ OpenCache(s) \/ CacheFails(s) \/ RaiseSmall(s)
  \/ Drained(s) \/ SmallDone(s) \/ RaiseLarge(s) \/ Finish(s)

Submission(s) == Main(s) \/ \E f \in Files : Upload(s, f)

Environment ==
  \/ \E s \in Subs : Crash(s)
  \/ \E f \in Files : Vanish(f) \/ Edit(f)
  \/ \E k \in Keys : LoseObject(k) \/ ExpireEntry(k)

Next == (\E s \in Subs : Submission(s)) \/ Environment

Spec == Init /\ [][Next]_vars

(* A submission that has been started is scheduled, and its S3 calls       *)
(* return (botocore bounds them with timeouts).  Nothing is assumed of     *)
(* crashes, edits, deletions and expiry.                                   *)
FairSpec == Spec /\ \A s \in Subs : WF_vars(Submission(s))

-----------------------------------------------------------------------------
(* S3CheckCache, "specifies which full S3 object keys exist in the CAS": a *)
(* key is cached only after its object has been found in, or put into, the *)
(* bucket, in every incarnation of the cache file.                         *)
CacheOnlySeen == \A d \in Dbs : rows[d] \subseteq seen

(* What the job that is created next relies on: when upload_assets returns *)
(* normally, every object its manifest names is in the bucket, unless it   *)
(* was deleted meanwhile or was a stale entry beyond the sample.           *)
FinishedComplete ==
  \A s \in Subs : phase[s] = "ok" =>
    \A k \in KeysOf(s) : InStore(k) \/ k \in lost \/ k \in unsampled[s]

(* A cancellation the user's callback has answered is never lost, however  *)
(* late: upload_assets does not return normally after it.                  *)
CancelledNeverOk == \A s \in Subs : phase[s] = "ok" => continue[s]

(* upload_assets neither returns nor raises while a worker thread of its   *)
(* pool is still using the cache connection or the bucket.                 *)
QuietAfterEnd ==
  \A s \in Subs : phase[s] \in Ended \ {"crashed"} => ActiveFiles(s) = {}

(* The strengthening of CacheOnlySeen that the steps preserve when no file *)
(* vanishes: a task about to cache its key has found or stored the object. *)
SeenInv ==
  /\ CacheOnlySeen
  /\ \A k \in Keys : InStore(k) => k \in seen
  /\ \A s \in Subs : \A f \in ManifestOf[s] : task[s][f] = "put" => HashOf[f] \in seen
  /\ regular = Files

(* The strengthening of FinishedComplete.  Every cached key is vouched for *)
(* by an object (present, or deleted since the start), except the stale    *)
(* rows, which only the incarnation InitDb has; a submission that has      *)
(* verified its sample finds behind its connection no row of its own keys  *)
(* that nobody vouches for; and a task that is done, or about to cache its *)
(* key, is vouched for.                                                    *)
Backed(k) == InStore(k) \/ k \in lost
Vouched(s, k) == Backed(k) \/ k \in unsampled[s]

BeforePool == {"idle", "sample", "verify", "reset", "remove", "open"}
InPool     == {"small", "drain_failed", "drain_cancelled", "large"}

DbInv ==
  /\ InitDb \in used
  /\ dbFile \in used \cup {NoDb}
  /\ \A d \in Dbs : \A k \in rows[d] : Backed(k) \/ (d = InitDb /\ k \in stale)

OwnRowsVouched(s, exempt) ==
  \A k \in KeysOf(s) : k \in rows[InitDb] => Vouched(s, k) \/ k \in exempt

Trusting(s) ==
  /\ phase[s] = "verify" /\ dbFile = InitDb => OwnRowsVouched(s, sample[s])
  /\ phase[s] \in {"open"} \cup InPool /\ dbFile = InitDb => OwnRowsVouched(s, {})
  /\ phase[s] \in InPool /\ InitDb \in locals[s] => OwnRowsVouched(s, {})

Tasked(s) ==
  /\ phase[s] \in InPool => handle[s] \in Dbs
  /\ phase[s] \in BeforePool => locals[s] = {} /\ \A f \in Files : task[s][f] = "queued"
  /\ \A f \in ManifestOf[s] :
       /\ task[s][f] = "put" => Backed(HashOf[f])
       /\ task[s][f] = "done" => Vouched(s, HashOf[f])
  /\ phase[s] \in {"large", "ok"} => \A f \in SmallOf(s) : task[s][f] = "done"
  /\ phase[s] = "ok" => \A f \in LargeOf(s) : task[s][f] = "done"

CompletenessInv ==
  /\ DbInv
  /\ \A s \in Subs \ Forced : Trusting(s)
  /\ \A s \in Subs : Tasked(s)

(* Every submission returns or raises: no worker is left waiting for       *)
(* another, whatever fails, is cancelled or disappears on the way.         *)
Terminates == \A s \in Subs : phase[s] \in Running ~> phase[s] \in Ended
=============================================================================
