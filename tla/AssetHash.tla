------------------------------ MODULE AssetHash ------------------------------
(***************************************************************************)
(* S3AssetManager._create_manifest_file and _process_input_path: a thread  *)
(* pool computes the manifest entries of the input files, through the hash *)
(* cache, a SQLite table that remembers the hash and the modification time *)
(* of every file.  Files may be written at any moment in between, and      *)
(* several tasks (of one process or of several) may process the same file. *)
(* A content stands for its hash, and a modification time is only ever     *)
(* compared for equality.                                                  *)
(***************************************************************************)
EXTENDS FiniteSets

CONSTANTS
  Files, Tasks,
  FileOf,      \* FileOf[t]: the file task t processes
  Contents, Times,
  Mixed,       \* the hash of bytes read while they were being replaced
  NoTime, NoEntry, NoAnswer, Raised,
  Enabled      \* SQLite is available

ASSUME HashAssumption ==
  /\ FileOf \in [Tasks -> Files]
  /\ Mixed \notin Contents /\ NoAnswer \notin Contents \cup {Mixed}
  /\ Raised \notin Contents \cup {Mixed, NoAnswer}
  /\ NoTime \notin Times
  /\ NoEntry \notin [hash : Contents \cup {Mixed}, mtime : Times]
  /\ Enabled \in BOOLEAN

VARIABLES
  disk,      \* content and modification time of every file
  after,     \* history: the contents a file has had since it got a time
  reused,    \* history: the files written under a time they had before
  cache,     \* the hash cache: at most one row per file
  pc,        \* where _process_input_path is, per task
  mtime,     \* the modification time the task got from stat
  read,      \* the contents the file has had since hash_file opened it
  hash,      \* entry.file_hash of the task
  answer,    \* the hash in the manifest entry the task returned
  continue   \* ProgressTracker.continue_reporting

diskVars == <<disk, after, reused>>
vars == <<diskVars, cache, pc, mtime, read, hash, answer, continue>>

Hashes == Contents \cup {Mixed}
Used(f) == {m \in Times : after[f][m] # {}}

TypeOK ==
  /\ disk \in [Files -> [content : Contents, mtime : Times]]
  /\ after \in [Files -> [Times -> SUBSET Contents]]
  /\ reused \subseteq Files
  /\ cache \in [Files -> [hash : Hashes, mtime : Times] \cup {NoEntry}]
  /\ pc \in [Tasks -> {"queued", "lookup", "open", "read", "put", "return", "done", "raised"}]
  /\ mtime \in [Tasks -> Times \cup {NoTime}]
  /\ read \in [Tasks -> SUBSET Contents]
  /\ hash \in [Tasks -> Hashes]
  /\ answer \in [Tasks -> Hashes \cup {NoAnswer, Raised}]
  /\ continue \in BOOLEAN

(* An earlier submission may have cached a file, as it is or as it was.    *)
Init ==
  /\ disk \in [Files -> [content : Contents, mtime : Times]]
  /\ cache \in [Files -> [hash : Contents, mtime : Times] \cup {NoEntry}]
  /\ \A f \in Files : cache[f] # NoEntry /\ cache[f].mtime = disk[f].mtime
                        => cache[f].hash = disk[f].content
  /\ reused = {}
  /\ after = [f \in Files |-> [m \in Times |->
       IF m = disk[f].mtime THEN {disk[f].content}
       ELSE IF cache[f] # NoEntry /\ m = cache[f].mtime
            THEN {cache[f].hash, disk[f].content} ELSE {}]]
  /\ pc = [t \in Tasks |-> "queued"]
  /\ mtime = [t \in Tasks |-> NoTime]
  /\ read = [t \in Tasks |-> {}]
  /\ hash = [t \in Tasks |-> Mixed]
  /\ answer = [t \in Tasks |-> NoAnswer]
  /\ continue = TRUE

-----------------------------------------------------------------------------
(* _process_input_path, step by step. *)

(* The call starts with the cancellation check. *)
Cancelled(t) ==
  /\ pc[t] = "queued" /\ ~continue
  /\ pc' = [pc EXCEPT ![t] = "raised"]
  /\ answer' = [answer EXCEPT ![t] = Raised]
  /\ UNCHANGED <<diskVars, cache, mtime, read, hash, continue>>

Stat(t) ==
  /\ pc[t] = "queued" /\ continue
  /\ mtime' = [mtime EXCEPT ![t] = disk[FileOf[t]].mtime]
  /\ pc' = [pc EXCEPT ![t] = "lookup"]
  /\ UNCHANGED <<diskVars, cache, read, hash, answer, continue>>

(* get_connection_entry, then the comparison of the modification times *)
HitByFileOnly(t) == Enabled /\ cache[FileOf[t]] # NoEntry
Hit(t) ==
  /\ Enabled
  /\ cache[FileOf[t]] # NoEntry /\ cache[FileOf[t]].mtime = mtime[t]

Lookup(t) ==
  /\ pc[t] = "lookup"
  /\ \/ /\ Hit(t)
        /\ hash' = [hash EXCEPT ![t] = cache[FileOf[t]].hash]
        /\ pc' = [pc EXCEPT ![t] = "return"]
     \/ /\ ~Hit(t)
        /\ pc' = [pc EXCEPT ![t] = "open"]
        /\ UNCHANGED hash
  /\ UNCHANGED <<diskVars, cache, mtime, read, answer, continue>>

(* hash_file reads the file block by block: it sees one content, or bytes  *)
(* of several when the file is written meanwhile.                          *)
OpenToHash(t) ==
  /\ pc[t] = "open"
  /\ read' = [read EXCEPT ![t] = {disk[FileOf[t]].content}]
  /\ pc' = [pc EXCEPT ![t] = "read"]
  /\ UNCHANGED <<diskVars, cache, mtime, hash, answer, continue>>

Reads(h, S) == h \in S \/ (h = Mixed /\ \E c, d \in S : c # d)

HashFile(t) ==
  /\ pc[t] = "read"
  /\ \E h \in Hashes : Reads(h, read[t]) /\ hash' = [hash EXCEPT ![t] = h]
  /\ pc' = [pc EXCEPT ![t] = "put"]
  /\ UNCHANGED <<diskVars, cache, mtime, read, answer, continue>>

(* put_entry: INSERT OR REPLACE under the key of the file.  The time is    *)
(* the one stat returned before the file was read.                         *)
EntryUntimed(t) == [hash |-> hash[t], mtime |-> NoTime]
EntryTimedAfterRead(t) == [hash |-> hash[t], mtime |-> disk[FileOf[t]].mtime]
Entry(t) == [hash |-> hash[t], mtime |-> mtime[t]]

PutEntry(t) ==
  /\ pc[t] = "put"
  /\ cache' = IF Enabled THEN [cache EXCEPT ![FileOf[t]] = Entry(t)] ELSE cache
  /\ pc' = [pc EXCEPT ![t] = "return"]
  /\ UNCHANGED <<diskVars, mtime, read, hash, answer, continue>>

Return(t) ==
  /\ pc[t] = "return"
  /\ answer' = [answer EXCEPT ![t] = hash[t]]
  /\ pc' = [pc EXCEPT ![t] = "done"]
  /\ UNCHANGED <<diskVars, cache, mtime, read, hash, continue>>

(* The progress report of a finished file tells the tracker to stop. *)
StopReporting ==
  /\ continue
  /\ \E t \in Tasks : pc[t] = "done"
  /\ continue' = FALSE
  /\ UNCHANGED <<diskVars, cache, pc, mtime, read, hash, answer>>

-----------------------------------------------------------------------------
(* Another program writes file f, which gets content c and time m. *)
Modify(f, c, m) ==
  /\ disk' = [disk EXCEPT ![f] = [content |-> c, mtime |-> m]]
  /\ after' = [after EXCEPT ![f] =
       [n \in Times |-> IF n = m \/ after[f][n] # {} THEN after[f][n] \cup {c} ELSE {}]]
  /\ read' = [t \in Tasks |-> IF FileOf[t] = f /\ pc[t] = "read"
                              THEN read[t] \cup {c} ELSE read[t]]
  /\ UNCHANGED <<cache, pc, mtime, hash, answer, continue>>

(* an ordinary write: the file gets a time it never had before *)
Edit(f) ==
  /\ \E c \in Contents : \E m \in Times \ Used(f) : Modify(f, c, m)
  /\ UNCHANGED reused

(* The file gets a time it has had before: a copy that preserves times, a  *)
(* checkout, or two writes within the microsecond that is recorded.        *)
Reuse(f) ==
  /\ \E c \in Contents : \E m \in Used(f) : Modify(f, c, m)
  /\ reused' = reused \cup {f}

Process(t) ==
  \/ Cancelled(t) \/ Stat(t) \/ Lookup(t) \/ OpenToHash(t) \/ HashFile(t)
  \/ PutEntry(t) \/ Return(t)

Next ==
  \/ \E t \in Tasks : Process(t)
  \/ StopReporting
  \/ \E f \in Files : Edit(f) \/ Reuse(f)

Spec == Init /\ [][Next]_vars

-----------------------------------------------------------------------------
(* A row whose modification time is the file's current one has the hash of *)
(* the current content, unless the file was written under a time it had    *)
(* before: the next submission may trust the row without reading the file. *)
HitIsCurrent ==
  \A f \in Files \ reused :
    cache[f] # NoEntry /\ cache[f].mtime = disk[f].mtime => cache[f].hash = disk[f].content

(* The strengthening of HitIsCurrent: a hash is only ever paired, in the   *)
(* cache or in a task, with a time since which the file had that content.  *)
(* This holds whether or not times are reused; when they are not, the time *)
(* a file has now identifies its content.                                  *)
Paired(h, f, m) == Reads(h, after[f][m])

PairInv ==
  /\ \A f \in Files : disk[f].content \in after[f][disk[f].mtime]
  /\ \A f \in Files \ reused : after[f][disk[f].mtime] = {disk[f].content}
  /\ \A f \in Files : cache[f] # NoEntry => Paired(cache[f].hash, f, cache[f].mtime)
  /\ \A t \in Tasks :
       /\ pc[t] \in {"lookup", "open", "read", "put", "return"} =>
            /\ mtime[t] \in Times
            /\ disk[FileOf[t]].content \in after[FileOf[t]][mtime[t]]
            /\ answer[t] = NoAnswer
       /\ pc[t] = "queued" => answer[t] = NoAnswer
       /\ pc[t] = "read" => read[t] # {} /\ read[t] \subseteq after[FileOf[t]][mtime[t]]
       /\ pc[t] \in {"put", "return"} => Paired(hash[t], FileOf[t], mtime[t])

(* The hash in every manifest entry is the hash of a content the file had  *)
(* while it was processed (or, for a file whose times are reused, since it *)
(* first got the time it had then): AssetHash implements HashContract.     *)
InProgress(t) == pc[t] \in {"lookup", "open", "read", "put", "return"}

Contract == INSTANCE HashContract WITH
  content <- [f \in Files |-> disk[f].content],
  held <- [t \in Tasks |-> IF InProgress(t) THEN after[FileOf[t]][mtime[t]] ELSE {}]

Implements == Contract!Spec
=============================================================================
