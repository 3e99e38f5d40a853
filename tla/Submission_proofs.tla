-------------------------- MODULE Submission_proofs --------------------------
(***************************************************************************)
(* Theorems about the parts of a submission, each for every value of its   *)
(* constants.                                                              *)
(* 1. AssetHash: what the hash cache may be trusted for, and that hashing  *)
(*    implements HashContract.                                             *)
(* 2. AssetGroups, for any tree of paths, any links, locations and         *)
(*    requests, whatever the disk does meanwhile: every path is in the one *)
(*    group it belongs to, and the roots of the groups are apart.          *)
(* 3. ProgressTracker, for any files, asset roots and chunks: an answer No *)
(*    is final, and a call that returns has told of every file.            *)
(***************************************************************************)
EXTENDS AssetHash, AssetGroups, ProgressTracker, FiniteSetTheorems, WellFoundedInduction, TLAPS

-----------------------------------------------------------------------------
(* 1. AssetHash                                                            *)

(* The initial states have the types of the variables. *)
LEMMA InitTypeOK == Init => TypeOK
<1> SUFFICES ASSUME Init PROVE TypeOK
  OBVIOUS
<1>1. after \in [Files -> [Times -> SUBSET Contents]]
  <2> SUFFICES ASSUME NEW f \in Files, NEW m \in Times
               PROVE  (IF m = disk[f].mtime THEN {disk[f].content}
                       ELSE IF cache[f] # NoEntry /\ m = cache[f].mtime
                            THEN {cache[f].hash, disk[f].content} ELSE {}) \subseteq Contents
    BY DEF Init
  <2> QED
    BY DEF Init
<1>2. cache \in [Files -> [hash : Hashes, mtime : Times] \cup {NoEntry}]
  BY DEF Init, Hashes
<1> QED
  BY <1>1, <1>2 DEF Init, TypeOK, Hashes

(* A write of another program keeps the types. *)
LEMMA ModifyTypeOK ==
  ASSUME TypeOK, NEW f \in Files, NEW c \in Contents, NEW m \in Times, Modify(f, c, m),
         reused' \subseteq Files
  PROVE  TypeOK'
<1>1. disk' \in [Files -> [content : Contents, mtime : Times]]
  BY DEF TypeOK, Modify
<1>2. after' \in [Files -> [Times -> SUBSET Contents]]
  BY DEF TypeOK, Modify
<1>3. read' \in [Tasks -> SUBSET Contents]
  BY DEF TypeOK, Modify
<1> QED
  BY <1>1, <1>2, <1>3 DEF TypeOK, Modify

(* TypeOK alone is not inductive: put_entry stores a time only because a   *)
(* task past stat has one.                                                 *)
TimedInv == \A t \in Tasks : InProgress(t) => mtime[t] \in Times

(* Every step keeps the types, given that the tasks past stat have a time. *)
LEMMA NextTypeOK == TypeOK /\ TimedInv /\ [Next]_vars => TypeOK' /\ TimedInv'
<1> SUFFICES ASSUME TypeOK, TimedInv, [Next]_vars PROVE TypeOK' /\ TimedInv'
  OBVIOUS
<1> USE HashAssumption
<1>1. ASSUME NEW t \in Tasks, Cancelled(t) PROVE TypeOK' /\ TimedInv'
  BY <1>1 DEF TypeOK, TimedInv, InProgress, Cancelled, diskVars
<1>2. ASSUME NEW t \in Tasks, Stat(t) PROVE TypeOK' /\ TimedInv'
  BY <1>2 DEF TypeOK, TimedInv, InProgress, Stat, diskVars
<1>3. ASSUME NEW t \in Tasks, Lookup(t) PROVE TypeOK' /\ TimedInv'
  BY <1>3 DEF TypeOK, TimedInv, InProgress, Lookup, Hit, diskVars
<1>4. ASSUME NEW t \in Tasks, OpenToHash(t) PROVE TypeOK' /\ TimedInv'
  BY <1>4 DEF TypeOK, TimedInv, InProgress, OpenToHash, diskVars
<1>5. ASSUME NEW t \in Tasks, HashFile(t) PROVE TypeOK' /\ TimedInv'
  BY <1>5 DEF TypeOK, TimedInv, InProgress, HashFile, diskVars
<1>6. ASSUME NEW t \in Tasks, PutEntry(t) PROVE TypeOK' /\ TimedInv'
  <2>1. Entry(t) \in [hash : Hashes, mtime : Times]
    BY <1>6 DEF TypeOK, TimedInv, InProgress, PutEntry, Entry
  <2>2. cache' \in [Files -> [hash : Hashes, mtime : Times] \cup {NoEntry}]
    BY <1>6, <2>1 DEF TypeOK, PutEntry
  <2> QED
    BY <1>6, <2>2 DEF TypeOK, TimedInv, InProgress, PutEntry, diskVars
<1>7. ASSUME NEW t \in Tasks, Return(t) PROVE TypeOK' /\ TimedInv'
  BY <1>7 DEF TypeOK, TimedInv, InProgress, Return, diskVars
<1>8. CASE StopReporting
  BY <1>8 DEF TypeOK, TimedInv, InProgress, StopReporting, diskVars
<1>9. ASSUME NEW f \in Files, Edit(f) PROVE TypeOK' /\ TimedInv'
  <2>1. PICK c \in Contents, m \in Times : Modify(f, c, m)
    BY <1>9 DEF Edit
  <2>2. TypeOK'
    BY <1>9, <2>1, ModifyTypeOK DEF Edit, TypeOK
  <2>3. UNCHANGED <<pc, mtime>>
    BY <2>1 DEF Modify
  <2> QED
    BY <2>2, <2>3 DEF TimedInv, InProgress
<1>10. ASSUME NEW f \in Files, Reuse(f) PROVE TypeOK' /\ TimedInv'
  <2>1. PICK c \in Contents, m \in Times : Modify(f, c, m)
    BY <1>10 DEF Reuse, Used
  <2>2. TypeOK'
    BY <1>10, <2>1, ModifyTypeOK DEF Reuse, TypeOK
  <2>3. UNCHANGED <<pc, mtime>>
    BY <2>1 DEF Modify
  <2> QED
    BY <2>2, <2>3 DEF TimedInv, InProgress
<1>11. CASE UNCHANGED vars
  BY <1>11 DEF TypeOK, TimedInv, InProgress, vars, diskVars
<1> QED
  BY <1>1, <1>2, <1>3, <1>4, <1>5, <1>6, <1>7, <1>8, <1>9, <1>10, <1>11 DEF Next, Process

(* Every variable of the hashing model keeps its type: in particular no    *)
(* row of the hash cache is without a modification time.                   *)
THEOREM HashTyped == Spec => []TypeOK
<1>1. Init => TypeOK /\ TimedInv
  BY InitTypeOK DEF Init, TimedInv, InProgress
<1>2. TypeOK /\ TimedInv /\ [Next]_vars => (TypeOK /\ TimedInv)'
  BY NextTypeOK
<1> QED
  BY <1>1, <1>2, PTL DEF Spec

-----------------------------------------------------------------------------
(* The initial cache, whatever an earlier submission has left in it, pairs *)
(* every hash with a time since which the file had that content.           *)
LEMMA PairInit == Init => PairInv
<1> SUFFICES ASSUME Init PROVE PairInv
  OBVIOUS
<1>1. ASSUME NEW f \in Files PROVE after[f][disk[f].mtime] = {disk[f].content}
  BY DEF Init
<1>2. ASSUME NEW f \in Files, cache[f] # NoEntry
      PROVE  cache[f].hash \in after[f][cache[f].mtime]
  BY <1>2 DEF Init
<1> QED
  BY <1>1, <1>2 DEF Init, PairInv, Paired, Reads

(* A write of another program keeps every pair: it only adds contents to   *)
(* the times a file has had.                                               *)
LEMMA PairModify ==
  ASSUME TypeOK, PairInv, NEW f \in Files, NEW c \in Contents, NEW m \in Times,
         Modify(f, c, m),
         \/ m \notin Used(f) /\ reused' = reused
         \/ reused' = reused \cup {f}
  PROVE  PairInv'
<1> USE HashAssumption
<1>1. ASSUME NEW g \in Files, NEW n \in Times PROVE after[g][n] \subseteq after'[g][n]
  BY DEF TypeOK, Modify
<1>2. after'[f][m] = after[f][m] \cup {c} /\ disk'[f].content = c /\ disk'[f].mtime = m
  BY DEF TypeOK, Modify
<1>3. ASSUME NEW n \in Times, after[f][n] # {} PROVE c \in after'[f][n]
  BY <1>3 DEF TypeOK, Modify
<1>4. ASSUME NEW g \in Files, g # f PROVE after'[g] = after[g] /\ disk'[g] = disk[g]
  BY <1>4 DEF TypeOK, Modify
<1>5. \A g \in Files : disk'[g].content \in after'[g][disk'[g].mtime]
  BY <1>2, <1>4 DEF TypeOK, PairInv
<1>6. \A g \in Files \ reused' : after'[g][disk'[g].mtime] = {disk'[g].content}
  BY <1>2, <1>4 DEF TypeOK, PairInv, Used
<1>7. ASSUME NEW g \in Files, cache'[g] # NoEntry
      PROVE  Paired(cache[g].hash, g, cache[g].mtime)'
  <2>1. cache' = cache
    BY DEF Modify
  <2>2. cache[g].mtime \in Times /\ Paired(cache[g].hash, g, cache[g].mtime)
    BY <1>7, <2>1 DEF TypeOK, PairInv
  <2> QED
    BY <2>1, <2>2, <1>1 DEF Paired, Reads
<1>8. ASSUME NEW t \in Tasks, InProgress(t)
      PROVE  disk'[FileOf[t]].content \in after'[FileOf[t]][mtime[t]]
  <2> mtime[t] \in Times /\ FileOf[t] \in Files
      /\ disk[FileOf[t]].content \in after[FileOf[t]][mtime[t]]
    BY <1>8 DEF PairInv, InProgress
  <2>1. CASE FileOf[t] = f
    BY <2>1, <1>2, <1>3
  <2>2. CASE FileOf[t] # f
    BY <2>2, <1>1, <1>4
  <2> QED
    BY <2>1, <2>2
<1>9. ASSUME NEW t \in Tasks, pc[t] = "read"
      PROVE  read'[t] # {} /\ read'[t] \subseteq after'[FileOf[t]][mtime[t]]
  <2> mtime[t] \in Times /\ FileOf[t] \in Files /\ read[t] # {}
      /\ read[t] \subseteq after[FileOf[t]][mtime[t]]
    BY <1>9 DEF PairInv
  <2>1. CASE FileOf[t] = f
    <3>1. read'[t] = read[t] \cup {c}
      BY <1>9, <2>1 DEF Modify, TypeOK
    <3> QED
      BY <2>1, <3>1, <1>1, <1>3
  <2>2. CASE FileOf[t] # f
    BY <2>2, <1>1 DEF Modify, TypeOK
  <2> QED
    BY <2>1, <2>2
<1>10. ASSUME NEW t \in Tasks, pc[t] \in {"put", "return"}
       PROVE  Paired(hash[t], FileOf[t], mtime[t])'
  <2> mtime[t] \in Times /\ FileOf[t] \in Files /\ Paired(hash[t], FileOf[t], mtime[t])
    BY <1>10 DEF PairInv
  <2> UNCHANGED <<hash, mtime>>
    BY DEF Modify
  <2> QED
    BY <1>1 DEF Paired, Reads
<1>11. UNCHANGED <<cache, pc, mtime, hash, answer>>
  BY DEF Modify
<1>12. ASSUME NEW t \in Tasks
       PROVE  /\ InProgress(t) => mtime[t] \in Times /\ answer[t] = NoAnswer
              /\ pc[t] = "queued" => answer[t] = NoAnswer
  BY DEF PairInv, InProgress
<1> QED
  BY <1>5, <1>6, <1>7, <1>8, <1>9, <1>10, <1>11, <1>12 DEF PairInv, InProgress

(* Every step keeps the pairs: a hash computed from a file is put under    *)
(* the time that stat returned before the file was read, and a hash found  *)
(* in the cache was found under that time.                                 *)
LEMMA PairNext == TypeOK /\ PairInv /\ [Next]_vars => PairInv'
<1> SUFFICES ASSUME TypeOK, PairInv, [Next]_vars PROVE PairInv'
  OBVIOUS
<1> USE HashAssumption
<1>1. ASSUME NEW t \in Tasks, Cancelled(t) PROVE PairInv'
  BY <1>1 DEF TypeOK, PairInv, Cancelled, Paired, diskVars
<1>2. ASSUME NEW t \in Tasks, Stat(t) PROVE PairInv'
  <2>1. FileOf[t] \in Files /\ disk[FileOf[t]].mtime \in Times
    BY DEF TypeOK
  <2>2. mtime'[t] = disk[FileOf[t]].mtime
        /\ disk[FileOf[t]].content \in after[FileOf[t]][mtime'[t]]
    BY <1>2, <2>1 DEF TypeOK, PairInv, Stat
  <2> QED
    BY <1>2, <2>1, <2>2 DEF TypeOK, PairInv, Stat, Paired, diskVars
<1>3. ASSUME NEW t \in Tasks, Lookup(t) PROVE PairInv'
  <2>1. ASSUME Hit(t) PROVE Paired(cache[FileOf[t]].hash, FileOf[t], mtime[t])
    BY <2>1 DEF Hit, PairInv
  <2> QED
    BY <1>3, <2>1 DEF TypeOK, PairInv, Lookup, Paired, diskVars
<1>4. ASSUME NEW t \in Tasks, OpenToHash(t) PROVE PairInv'
  BY <1>4 DEF TypeOK, PairInv, OpenToHash, Paired, diskVars
<1>5. ASSUME NEW t \in Tasks, HashFile(t) PROVE PairInv'
  <2>1. PICK h \in Hashes : Reads(h, read[t]) /\ hash' = [hash EXCEPT ![t] = h]
    BY <1>5 DEF HashFile
  <2>2. Paired(h, FileOf[t], mtime[t])
    BY <1>5, <2>1 DEF HashFile, PairInv, Paired, Reads
  <2> QED
    BY <1>5, <2>1, <2>2 DEF TypeOK, PairInv, HashFile, Paired, diskVars
<1>6. ASSUME NEW t \in Tasks, PutEntry(t) PROVE PairInv'
  <2>1. mtime[t] \in Times /\ Paired(hash[t], FileOf[t], mtime[t]) /\ FileOf[t] \in Files
    BY <1>6 DEF PairInv, PutEntry
  <2>2. ASSUME NEW f \in Files, cache'[f] # NoEntry
        PROVE  Paired(cache'[f].hash, f, cache'[f].mtime)
    <3>1. CASE cache' = cache
      BY <2>2, <3>1 DEF PairInv
    <3>2. CASE cache' = [cache EXCEPT ![FileOf[t]] = Entry(t)]
      <4>1. CASE f = FileOf[t]
        BY <2>1, <3>2, <4>1 DEF TypeOK, Entry
      <4>2. CASE f # FileOf[t]
        BY <2>2, <3>2, <4>2 DEF TypeOK, PairInv
      <4> QED
        BY <4>1, <4>2
    <3> QED
      BY <1>6, <3>1, <3>2 DEF PutEntry
  <2> QED
    BY <1>6, <2>1, <2>2 DEF TypeOK, PairInv, PutEntry, Paired, diskVars
<1>7. ASSUME NEW t \in Tasks, Return(t) PROVE PairInv'
  BY <1>7 DEF TypeOK, PairInv, Return, Paired, diskVars
<1>8. CASE StopReporting
  BY <1>8 DEF PairInv, StopReporting, Paired, diskVars
<1>9. ASSUME NEW f \in Files, Edit(f) PROVE PairInv'
  BY <1>9, PairModify DEF Edit
<1>10. ASSUME NEW f \in Files, Reuse(f) PROVE PairInv'
  <2>1. PICK c \in Contents, m \in Times : Modify(f, c, m)
    BY <1>10 DEF Reuse, Used
  <2> QED
    BY <1>10, <2>1, PairModify DEF Reuse
<1>11. CASE UNCHANGED vars
  BY <1>11 DEF PairInv, Paired, vars, diskVars
<1> QED
  BY <1>1, <1>2, <1>3, <1>4, <1>5, <1>6, <1>7, <1>8, <1>9, <1>10, <1>11 DEF Next, Process

(* Whatever is written while files are hashed, a hash is only ever paired  *)
(* with a modification time since which the file had the hashed content.   *)
THEOREM Pairing == Spec => []PairInv
<1>1. Init => TypeOK /\ TimedInv /\ PairInv
  BY InitTypeOK, PairInit DEF Init, TimedInv, InProgress
<1>2. TypeOK /\ TimedInv /\ PairInv /\ [Next]_vars => (TypeOK /\ TimedInv /\ PairInv)'
  BY NextTypeOK, PairNext
<1> QED
  BY <1>1, <1>2, PTL DEF Spec

(* A hash cache row with the file's current modification time holds the    *)
(* hash of its current content, unless the file was written under a time   *)
(* it had before: _process_input_path may return a cached hash unread.     *)
THEOREM HitsAreCurrent == Spec => []HitIsCurrent
<1>1. PairInv => HitIsCurrent
  <2> SUFFICES ASSUME PairInv, NEW f \in Files \ reused,
                      cache[f] # NoEntry, cache[f].mtime = disk[f].mtime
               PROVE  cache[f].hash = disk[f].content
    BY DEF HitIsCurrent
  <2>1. after[f][disk[f].mtime] = {disk[f].content}
    BY DEF PairInv
  <2>2. Reads(cache[f].hash, after[f][disk[f].mtime])
    BY DEF PairInv, Paired
  <2> QED
    BY <2>1, <2>2 DEF Reads
<1> QED
  BY <1>1, Pairing, PTL

-----------------------------------------------------------------------------
(* The step simulation of HashContract: stat begins a task, its return     *)
(* reports, a write is a write, and every other step changes nothing that  *)
(* the contract shows.                                                     *)
LEMMA ContractInit == Init => Contract!Init
<1> SUFFICES ASSUME Init PROVE Contract!Init
  OBVIOUS
<1>1. [f \in Files |-> disk[f].content] \in [Files -> Contents]
  BY DEF Init
<1>2. \A t \in Tasks : ~InProgress(t)
  BY DEF Init, InProgress
<1> QED
  BY <1>1, <1>2 DEF Init, Contract!Init

(* what the contract sees of the files and of the tasks in progress *)
ContentNow == [f \in Files |-> disk[f].content]
HeldNow == [t \in Tasks |-> IF InProgress(t) THEN after[FileOf[t]][mtime[t]] ELSE {}]

(* A step that neither writes a file nor begins nor ends a task is a       *)
(* stuttering step of the contract.                                        *)
LEMMA ContractStutter ==
  ASSUME UNCHANGED <<diskVars, answer>>,
         \A t \in Tasks : /\ InProgress(t)' <=> InProgress(t)
                          /\ InProgress(t) => mtime'[t] = mtime[t]
  PROVE  UNCHANGED Contract!contractVars
<1>1. ContentNow' = ContentNow
  BY DEF ContentNow, diskVars
<1>2. HeldNow' = HeldNow
  BY DEF HeldNow, diskVars
<1> QED
  BY <1>1, <1>2 DEF Contract!contractVars, ContentNow, HeldNow, diskVars

(* A write is seen by the contract in the file and in every task that is   *)
(* in progress on it.                                                      *)
LEMMA ContractWrite ==
  ASSUME TypeOK, PairInv, NEW f \in Files, NEW c \in Contents, NEW m \in Times, Modify(f, c, m),
         reused' \in {reused, reused \cup {f}}
  PROVE  Contract!Write(f, c)
<1>1. ContentNow' = [ContentNow EXCEPT ![f] = c]
  BY DEF ContentNow, Modify, TypeOK
<1>2. ASSUME NEW t \in Tasks
      PROVE  HeldNow'[t] = IF FileOf[t] = f /\ HeldNow[t] # {}
                           THEN HeldNow[t] \cup {c} ELSE HeldNow[t]
  <2>1. CASE ~InProgress(t)
    <3>1. HeldNow[t] = {} /\ HeldNow'[t] = {}
      BY <2>1 DEF HeldNow, Modify, InProgress
    <3> QED
      BY <3>1
  <2>2. CASE InProgress(t)
    <3>1. mtime'[t] = mtime[t] /\ mtime[t] \in Times /\ FileOf[t] \in Files
      BY <2>2, HashAssumption DEF Modify, PairInv, InProgress
    <3>2. HeldNow[t] = after[FileOf[t]][mtime[t]] /\ HeldNow[t] # {}
      BY <2>2, <3>1 DEF HeldNow, PairInv, InProgress
    <3>3. HeldNow'[t] = after'[FileOf[t]][mtime[t]]
      BY <2>2, <3>1 DEF HeldNow, Modify, InProgress
    <3>4. after'[FileOf[t]][mtime[t]] = IF FileOf[t] = f THEN after[f][mtime[t]] \cup {c}
                                        ELSE after[FileOf[t]][mtime[t]]
      BY <3>1, <3>2 DEF Modify, TypeOK
    <3> QED
      BY <3>2, <3>3, <3>4
  <2> QED
    BY <2>1, <2>2
<1>3. HeldNow' = [t \in Tasks |-> IF FileOf[t] = f /\ HeldNow[t] # {}
                                  THEN HeldNow[t] \cup {c} ELSE HeldNow[t]]
  BY <1>2, SMT DEF HeldNow
<1> QED
  BY <1>1, <1>3 DEF Contract!Write, ContentNow, HeldNow, Modify

(* Every step of the hashing is one of the contract, or stutters.          *)
LEMMA ContractNext ==
  TypeOK /\ PairInv /\ [Next]_vars => [Contract!Next]_(Contract!contractVars)
<1> SUFFICES ASSUME TypeOK, PairInv, [Next]_vars
             PROVE  Contract!Next \/ UNCHANGED Contract!contractVars
  OBVIOUS
<1> USE HashAssumption
<1>1. ASSUME NEW t \in Tasks, Cancelled(t) PROVE Contract!Raise(t)
  <2>1. HeldNow' = HeldNow /\ HeldNow[t] = {}
    BY <1>1 DEF Cancelled, HeldNow, InProgress, TypeOK, diskVars
  <2>2. ContentNow' = ContentNow /\ answer[t] = NoAnswer
    BY <1>1 DEF Cancelled, ContentNow, PairInv, diskVars
  <2> QED
    BY <1>1, <2>1, <2>2 DEF Contract!Raise, Cancelled, ContentNow, HeldNow, diskVars
<1>2. ASSUME NEW t \in Tasks, Stat(t) PROVE Contract!Begin(t)
  <2>1. FileOf[t] \in Files /\ disk[FileOf[t]].mtime \in Times
    BY DEF TypeOK
  <2>2. HeldNow[t] = {} /\ answer[t] = NoAnswer /\ ContentNow' = ContentNow
    BY <1>2 DEF Stat, HeldNow, ContentNow, InProgress, PairInv, diskVars
  <2> DEFINE S == after[FileOf[t]][disk[FileOf[t]].mtime]
  <2>3. HeldNow'[t] = S
    BY <1>2 DEF Stat, InProgress, TypeOK, diskVars, HeldNow
  <2>6. /\ S \in SUBSET Contents /\ ContentNow[FileOf[t]] \in S
        /\ FileOf[t] \notin reused => S = {ContentNow[FileOf[t]]}
    BY <2>1 DEF TypeOK, PairInv, ContentNow
  <2>4. ASSUME NEW u \in Tasks \ {t} PROVE HeldNow'[u] = HeldNow[u]
    BY <1>2 DEF Stat, HeldNow, InProgress, TypeOK, diskVars
  <2>5. HeldNow' = [HeldNow EXCEPT ![t] = S]
    BY <2>3, <2>4 DEF HeldNow
  <2> QED
    BY <1>2, <2>2, <2>5, <2>6 DEF Contract!Begin, Stat, ContentNow, HeldNow, diskVars
<1>3. ASSUME NEW t \in Tasks, Lookup(t) PROVE UNCHANGED Contract!contractVars
  BY <1>3, ContractStutter DEF Lookup, InProgress, TypeOK
<1>4. ASSUME NEW t \in Tasks, OpenToHash(t) PROVE UNCHANGED Contract!contractVars
  BY <1>4, ContractStutter DEF OpenToHash, InProgress, TypeOK
<1>5. ASSUME NEW t \in Tasks, HashFile(t) PROVE UNCHANGED Contract!contractVars
  BY <1>5, ContractStutter DEF HashFile, InProgress, TypeOK
<1>6. ASSUME NEW t \in Tasks, PutEntry(t) PROVE UNCHANGED Contract!contractVars
  BY <1>6, ContractStutter DEF PutEntry, InProgress, TypeOK
<1>7. ASSUME NEW t \in Tasks, Return(t) PROVE Contract!Report(t)
  <2>1. InProgress(t) /\ mtime[t] \in Times /\ Reads(hash[t], HeldNow[t]) /\ HeldNow[t] # {}
    BY <1>7 DEF Return, InProgress, PairInv, Paired, HeldNow
  <2>2. hash[t] \in Contents \cup {Mixed} /\ Contract!Reportable(hash[t], HeldNow[t])
    BY <2>1 DEF TypeOK, Hashes, Reads, Contract!Reportable
  <2>3. HeldNow'[t] = {}
    BY <1>7 DEF Return, HeldNow, InProgress, TypeOK
  <2>4. ASSUME NEW u \in Tasks \ {t} PROVE HeldNow'[u] = HeldNow[u]
    BY <1>7 DEF Return, HeldNow, InProgress, TypeOK, diskVars
  <2>5. HeldNow' = [HeldNow EXCEPT ![t] = {}]
    BY <2>3, <2>4 DEF HeldNow
  <2>6. ContentNow' = ContentNow
    BY <1>7 DEF Return, ContentNow, diskVars
  <2> QED
    BY <1>7, <2>1, <2>2, <2>5, <2>6 DEF Contract!Report, Return, ContentNow, HeldNow, diskVars
<1>8. CASE StopReporting
  BY <1>8, ContractStutter DEF StopReporting, InProgress
<1>9. ASSUME NEW f \in Files, Edit(f) PROVE \E c \in Contents : Contract!Write(f, c)
  BY <1>9, ContractWrite DEF Edit
<1>10. ASSUME NEW f \in Files, Reuse(f) PROVE \E c \in Contents : Contract!Write(f, c)
  BY <1>10, ContractWrite DEF Reuse, Used
<1>11. CASE UNCHANGED vars
  BY <1>11, ContractStutter DEF vars, InProgress
<1> QED
  BY <1>1, <1>2, <1>3, <1>4, <1>5, <1>6, <1>7, <1>8, <1>9, <1>10, <1>11
  DEF Next, Process, Contract!Next

(* The hash in every manifest entry is the hash of a content (or of a      *)
(* mixture of contents) the file had while its task ran, though it may     *)
(* come from the cache: _process_input_path implements HashContract.       *)
THEOREM ImplementsContract == Spec => Implements
<1>1. Init => Contract!Init
  BY ContractInit
<1>2. TypeOK /\ PairInv /\ [Next]_vars => [Contract!Next]_(Contract!contractVars)
  BY ContractNext
<1> QED
  BY <1>1, <1>2, HashTyped, Pairing, PTL DEF Spec, Implements, Contract!Spec

-----------------------------------------------------------------------------
(* 2. AssetGroups                                                          *)

(* The tree *)

(* Of some subsets of a finite set, one has none of the others in it.      *)
LEMMA MinimalSubset ==
  ASSUME NEW S, IsFiniteSet(S), NEW T \in SUBSET (SUBSET S), T # {}
  PROVE  \E x \in T : \A y \in T : y \subseteq x => y = x
<1>1. FiniteSubsetsOf(S) = SUBSET S
  BY FS_FiniteSubsetsOfFinite
<1>2. IsWellFoundedOn(StrictSubsetOrdering(S), FiniteSubsetsOf(S))
  BY FS_StrictSubsetOrderingWellFounded
<1>3. IsWellFoundedOn(StrictSubsetOrdering(S), SUBSET S)
  BY <1>1, <1>2, Zenon
<1>4. PICK x \in T : \A y \in T : ~(<<y, x>> \in StrictSubsetOrdering(S))
  BY <1>3, WFMin
<1> QED
  BY <1>4 DEF StrictSubsetOrdering

(* Of the paths of a set that is not empty, one is the longest.            *)
LEMMA LongestExists ==
  ASSUME NEW S \in SUBSET GPaths, S # {}
  PROVE  \E p \in S : \A q \in S : Length[q] <= Length[p]
<1> DEFINE AtLeast(p) == {q \in S : Length[p] <= Length[q]}
           Sets == {AtLeast(p) : p \in S}
<1>1. IsFiniteSet(S)
  BY TreeAssumption, FS_Subset
<1>2. \A p \in S : AtLeast(p) \in SUBSET S
  OBVIOUS
<1> HIDE DEF AtLeast
<1>3. Sets \in SUBSET (SUBSET S) /\ Sets # {}
  BY <1>2
<1> HIDE DEF Sets
<1>4. PICK x \in Sets : \A y \in Sets : y \subseteq x => y = x
  BY <1>1, <1>3, MinimalSubset
<1>5. PICK p \in S : x = AtLeast(p)
  BY <1>4 DEF Sets
<1>6. ASSUME NEW q \in S, ~(Length[q] <= Length[p]) PROVE FALSE
  <2>1. Length[p] \in Nat /\ Length[q] \in Nat /\ \A o \in S : Length[o] \in Nat
    BY TreeAssumption
  <2>2. AtLeast(q) \subseteq AtLeast(p) /\ p \in AtLeast(p) /\ p \notin AtLeast(q)
    BY <1>6, <2>1 DEF AtLeast
  <2>3. AtLeast(q) \in Sets
    BY DEF Sets
  <2> QED
    BY <1>4, <1>5, <2>2, <2>3
<1> QED
  BY <1>6

(* Directories above one path follow each other: the longest is below all. *)
LEMMA DeepestInChain ==
  ASSUME NEW p \in GPaths, NEW S \in SUBSET Above[p], S # {}
  PROVE  Deepest(S) \in S /\ S \subseteq Above[Deepest(S)]
<1> USE TreeAssumption
<1>1. S \in SUBSET GPaths
  OBVIOUS
<1>2. PICK d \in S : \A q \in S : Length[q] <= Length[d]
  BY <1>1, LongestExists
<1>3. ASSUME NEW q \in S PROVE q \in Above[d]
  <2>1. q \in Above[d] \/ d \in Above[q]
    BY <1>1
  <2>2. CASE d \in Above[q] /\ q # d
    <3>1. Length[d] < Length[q] /\ Length[d] \in Nat /\ Length[q] \in Nat
      BY <1>1, <2>2
    <3> QED
      BY <1>2, <3>1
  <2>3. d \in Above[d]
    BY <1>1
  <2> QED
    BY <2>1, <2>2, <2>3
<1> QED
  BY <1>3 DEF Deepest

(* A path has a top directory, and no other top is above it.               *)
LEMMA TopDirectoryOfPath ==
  ASSUME NEW p \in GPaths
  PROVE  TopDirectory(p) \in Above[p] /\ Above[TopDirectory(p)] = {TopDirectory(p)}
<1> USE TreeAssumption
<1> DEFINE Sets == {Above[q] : q \in Above[p]}
<1>1. IsFiniteSet(Above[p])
  BY FS_Subset
<1>2. Sets \in SUBSET (SUBSET Above[p]) /\ Sets # {}
  OBVIOUS
<1> HIDE DEF Sets
<1>4. PICK x \in Sets : \A y \in Sets : y \subseteq x => y = x
  BY <1>1, <1>2, MinimalSubset
<1>5. PICK q \in Above[p] : x = Above[q]
  BY <1>4 DEF Sets
<1>6. ASSUME NEW o \in Above[q], o # q PROVE FALSE
  <2>1. q \in GPaths /\ o \in GPaths /\ o \in Above[p]
    OBVIOUS
  <2>2. Above[o] \subseteq Above[q] /\ q \in Above[q] /\ q \notin Above[o]
    BY <1>6, <2>1
  <2>3. Above[o] \in Sets
    BY <2>1 DEF Sets
  <2> QED
    BY <1>4, <1>5, <2>2, <2>3
<1>7. Above[q] = {q}
  BY <1>6
<1> QED
  BY <1>7 DEF TopDirectory

(* What is above a path, but not the path itself, is above its parent.     *)
LEMMA ParentOfPath ==
  ASSUME NEW p \in GPaths
  PROVE  /\ Parent(p) \in Above[p]
         /\ \A q \in Above[p] : q # p => q \in Above[Parent(p)]
         /\ Above[p] = {p} => Parent(p) = p
<1> USE TreeAssumption
<1>1. CASE Above[p] = {p}
  BY <1>1 DEF Parent
<1>2. CASE Above[p] # {p}
  <2>1. Above[p] \ {p} # {} /\ Above[p] \ {p} \in SUBSET Above[p]
    BY <1>2
  <2>2. Deepest(Above[p] \ {p}) \in Above[p] \ {p}
        /\ Above[p] \ {p} \subseteq Above[Deepest(Above[p] \ {p})]
    BY <2>1, DeepestInChain
  <2> QED
    BY <1>2, <2>2 DEF Parent
<1> QED
  BY <1>1, <1>2

(* The common path of some paths is the deepest directory above them all.  *)
LEMMA CommonPathOfSome ==
  ASSUME NEW S \in SUBSET GPaths, S # {}, CommonParts(S) # {}
  PROVE  /\ CommonPath(S) \in GPaths
         /\ \A p \in S : CommonPath(S) \in Above[p]
         /\ CommonParts(S) \subseteq Above[CommonPath(S)]
<1>1. PICK p \in S : p \in GPaths
  OBVIOUS
<1>2. CommonParts(S) \in SUBSET Above[p]
  BY <1>1 DEF CommonParts
<1>3. CommonPath(S) \in CommonParts(S) /\ CommonParts(S) \subseteq Above[CommonPath(S)]
  BY <1>1, <1>2, DeepestInChain DEF CommonPath
<1> QED
  BY <1>3 DEF CommonParts

-----------------------------------------------------------------------------
(* The keys of the groups *)

(* The location a path is grouped by is the longest it is under.           *)
LEMMA MatchLongest ==
  ASSUME NEW p \in GPaths, MatchesOf(p) # {}
  PROVE  /\ Key(p) \in MatchesOf(p) /\ MatchesOf(p) \subseteq GPaths
         /\ \A m \in MatchesOf(p) : Length[m] <= Length[Key(p)]
<1>1. MatchesOf(p) \in SUBSET GPaths
  BY GroupsAssumption DEF MatchesOf, LocalNow
<1>2. \E k \in MatchesOf(p) : \A m \in MatchesOf(p) : Length[m] <= Length[k]
  BY <1>1, LongestExists
<1> QED
  BY <1>1, <1>2 DEF Key, LongestMatch

(* Every path belongs to the group of its key. *)
LEMMA KeyBelongs ==
  ASSUME NEW p \in GPaths
  PROVE  Key(p) \in GPaths /\ BelongsTo(p, Key(p))
<1>1. CASE MatchesOf(p) # {}
  <2>1. /\ Key(p) \in MatchesOf(p) /\ Key(p) \in GPaths
        /\ \A m \in MatchesOf(p) : m \in GPaths /\ Length[m] <= Length[Key(p)]
    BY <1>1, MatchLongest
  <2>2. Key(p) \in LocalNow /\ IsUnder(p, Key(p))
    BY <2>1 DEF MatchesOf
  <2>3. ASSUME Real[Key(p)] = Key(p), NEW l \in LocalNow, Real[l] = l, IsUnder(p, l)
        PROVE  l \in Above[Key(p)]
    <3>1. l \in MatchesOf(p) /\ l \in GPaths /\ Length[l] <= Length[Key(p)]
      BY <2>1, <2>3 DEF MatchesOf
    <3>2. l \in Above[Real[p]] /\ Key(p) \in Above[Real[p]] /\ Real[p] \in GPaths
      BY <2>2, <2>3, TreeAssumption DEF IsUnder
    <3>3. l \in Above[Key(p)] \/ Key(p) \in Above[l]
      BY <3>2, TreeAssumption
    <3>4. CASE Key(p) \in Above[l] /\ Key(p) # l
      <4>1. Length[Key(p)] < Length[l] /\ Length[Key(p)] \in Nat /\ Length[l] \in Nat
        BY <2>1, <3>1, <3>4, TreeAssumption
      <4> QED
        BY <3>1, <4>1
    <3>5. CASE Key(p) = l
      BY <3>1, <3>5, TreeAssumption
    <3> QED
      BY <3>3, <3>4, <3>5
  <2> QED
    BY <2>1, <2>2, <2>3 DEF BelongsTo
<1>2. CASE MatchesOf(p) = {}
  <2>1. Key(p) = TopDirectory(p)
    BY <1>2 DEF Key
  <2>2. Key(p) \in Above[p] /\ Above[Key(p)] = {Key(p)} /\ Key(p) \in GPaths
    BY <2>1, TopDirectoryOfPath, TreeAssumption
  <2>3. \A l \in LocalNow : ~IsUnder(p, l)
    BY <1>2 DEF MatchesOf
  <2> QED
    BY <2>2, <2>3 DEF BelongsTo
<1> QED
  BY <1>1, <1>2

-----------------------------------------------------------------------------
(* The parts of the inductive invariant *)

(* The stat cache knows nothing that was never so.                         *)
DiskInv ==
  /\ \A p \in GPaths : kind[p] \in recent[p] /\ recent[p] \subseteq kinds[p]
  /\ \A p \in GPaths : stat[p] # "unknown" => stat[p] \in kinds[Real[p]]
  /\ \A l \in Local : kind[Real[l]] = "dir"

(* Every member is in the group of its key, for a reason.                  *)
MemberInv ==
  /\ \A k \in GPaths : \A p \in Members(k) : k = Key(p) /\ ~IsShared(p)
  /\ \A k \in GPaths :
       /\ groups[k].outputs \subseteq request.outputs
       /\ groups[k].references \subseteq refs
       /\ \A p \in groups[k].inputs : p \in request.inputs /\ "file" \in kinds[Real[p]]
  /\ request.references \subseteq refs
  /\ \A p \in refs \ request.references :
       p \in request.inputs /\ ~request.strict /\ "none" \in recent[Real[p]]
  /\ \A p \in unsized : "none" \in kinds[Real[p]]

(* What the loops have still to come to, and what they have come past,     *)
(* which is in its group.                                                  *)
TodoInv ==
  /\ gphase = "inputs" => todo \subseteq request.inputs
  /\ gphase = "outputs" => todo \subseteq request.outputs
  /\ gphase = "references" => todo \subseteq refs
  /\ gphase = "roots" => todo \subseteq GroupKeys

InputPlaced(p) == IsShared(p) \/ p \in groups[Key(p)].inputs \/ p \in refs
Placed(p, part) == IsShared(p) \/ p \in groups[Key(p)][part]

Past(phase) ==
  CASE phase = "inputs" -> {"outputs", "references", "roots", "sizes", "done"}
    [] phase = "outputs" -> {"references", "roots", "sizes", "done"}
    [] phase = "references" -> {"roots", "sizes", "done"}

LoopInv ==
  /\ gphase = "inputs" => \A p \in request.inputs \ todo : InputPlaced(p) \/ bad # {}
  /\ gphase \in Past("inputs") => \A p \in request.inputs : InputPlaced(p)
  /\ gphase = "outputs" => \A p \in request.outputs \ todo : Placed(p, "outputs")
  /\ gphase \in Past("outputs") => \A p \in request.outputs : Placed(p, "outputs")
  /\ gphase = "references" => \A p \in refs \ todo : Placed(p, "references")
  /\ gphase \in Past("references") => \A p \in refs : Placed(p, "references")

(* A root is above the members of its group, and in the location.          *)
RootFits(k) ==
  /\ \A p \in Members(k) : roots[k] \in Above[p]
  /\ LinkFree(k) => k \in Above[roots[k]]

RootInv ==
  /\ gphase = "roots" => \A k \in GroupKeys \ todo : RootFits(k)
  /\ gphase \in {"sizes", "done"} => \A k \in GroupKeys : RootFits(k)

GroupsInv == GroupsTypeOK /\ DiskInv /\ MemberInv /\ TodoInv /\ LoopInv /\ RootInv

(* Before the first call there are no groups.                              *)
LEMMA InitGroupsInv == GroupsInit => GroupsInv
<1> SUFFICES ASSUME GroupsInit PROVE GroupsInv
  OBVIOUS
<1> USE DEF GroupsInit
<1>1. kind \in [GPaths -> Kinds] /\ \A l \in Local : kind[Real[l]] = "dir"
  BY DiskAssumption
<1>2. GroupsTypeOK
  <2>1. groups \in [GPaths -> [GroupParts -> SUBSET GPaths]]
    BY DEF NoMembers
  <2>2. kinds \in [GPaths -> SUBSET Kinds] /\ recent \in [GPaths -> SUBSET Kinds]
    BY <1>1
  <2> QED
    BY <1>1, <2>1, <2>2, GroupsAssumption DEF GroupsTypeOK
<1>3. \A k \in GPaths : groups[k].inputs = {} /\ groups[k].outputs = {} /\ groups[k].references = {}
  BY DEF NoMembers, GroupParts
<1>4. DiskInv
  BY <1>1, TreeAssumption DEF DiskInv
<1>5. MemberInv
  BY <1>3 DEF MemberInv, Members, NoRequest
<1>6. TodoInv /\ LoopInv /\ RootInv
  BY DEF TodoInv, LoopInv, RootInv, Past
<1> QED
  BY <1>2, <1>4, <1>5, <1>6 DEF GroupsInv

-----------------------------------------------------------------------------
(* What the steps have in common *)

(* The group of a path depends on the request alone.                       *)
LEMMA SameKeys ==
  ASSUME UNCHANGED request, NEW p
  PROVE  Key(p)' = Key(p) /\ (IsShared(p)' <=> IsShared(p))
BY DEF Key, LongestMatch, MatchesOf, LocalNow, IsShared, SharedNow

(* What the stat cache answers was true of the path at some moment of the  *)
(* call.                                                                   *)
LEMMA Asked ==
  ASSUME GroupsTypeOK, DiskInv, NEW p \in GPaths, Asks(p)
  PROVE  /\ stat' \in [GPaths -> Kinds \cup {"unknown"}]
         /\ \A q \in GPaths : stat'[q] # "unknown" => stat'[q] \in kinds[Real[q]]
<1> USE TreeAssumption DEF GroupsTypeOK, DiskInv
<1>1. kind[Real[p]] \in Kinds /\ kind[Real[p]] \in kinds[Real[p]]
  OBVIOUS
<1>2. CASE stat[p] # "unknown"
  BY <1>2 DEF Asks
<1>3. CASE stat[p] = "unknown" /\ stat' = [stat EXCEPT ![p] = kind[Real[p]]]
  BY <1>1, <1>3
<1>4. CASE \E q \in GPaths : stat' = [stat EXCEPT ![p] = kind[Real[p]], ![q] = "unknown"]
  <2>1. PICK q \in GPaths : stat' = [stat EXCEPT ![p] = kind[Real[p]], ![q] = "unknown"]
    BY <1>4
  <2> QED
    BY <1>1, <2>1
<1> QED
  BY <1>2, <1>3, <1>4 DEF Asks

(* So is what is made of the answer.                                       *)
LEMMA Believed ==
  ASSUME GroupsTypeOK, DiskInv, NEW p \in GPaths
  PROVE  /\ Seen(p) = "file" => "file" \in kinds[Real[p]]
         /\ Seen(p) = "none" => "none" \in recent[Real[p]]
BY TreeAssumption DEF GroupsTypeOK, DiskInv, Seen

(* A path that is added to a part of its group is in that part, and        *)
(* nothing else changes.                                                   *)
LEMMA Added ==
  ASSUME GroupsTypeOK, NEW p \in GPaths, NEW part \in GroupParts, AddTo(p, part)
  PROVE  /\ groups' \in [GPaths -> [GroupParts -> SUBSET GPaths]]
         /\ \A k \in GPaths :
              LET plus(q) == IF k = Key(p) /\ part = q THEN {p} ELSE {}
              IN  /\ groups'[k].inputs = groups[k].inputs \cup plus("inputs")
                  /\ groups'[k].outputs = groups[k].outputs \cup plus("outputs")
                  /\ groups'[k].references = groups[k].references \cup plus("references")
<1>1. Key(p) \in GPaths
  BY KeyBelongs
<1>2. groups' = [groups EXCEPT ![Key(p)] = [groups[Key(p)] EXCEPT ![part] = @ \cup {p}]]
  BY DEF AddTo
<1>3. groups[Key(p)] \in [GroupParts -> SUBSET GPaths]
  BY <1>1 DEF GroupsTypeOK
<1>4. [groups[Key(p)] EXCEPT ![part] = @ \cup {p}] \in [GroupParts -> SUBSET GPaths]
  BY <1>3
<1>5. \A k \in GPaths, q \in GroupParts :
        groups'[k][q] = IF k = Key(p) /\ q = part THEN groups[k][q] \cup {p} ELSE groups[k][q]
  BY <1>1, <1>2, <1>3 DEF GroupsTypeOK
<1>6. groups' \in [GPaths -> [GroupParts -> SUBSET GPaths]]
  BY <1>1, <1>2, <1>3, <1>4 DEF GroupsTypeOK
<1> QED
  BY <1>5, <1>6 DEF GroupParts

(* A path that goes into the group of its key keeps the members in theirs. *)
LEMMA AddedMember ==
  ASSUME GroupsTypeOK, NEW p \in GPaths, NEW part \in GroupParts, AddTo(p, part)
  PROVE  \A k \in GPaths : Members(k)' = IF k = Key(p) THEN Members(k) \cup {p} ELSE Members(k)
<1>1. ASSUME NEW k \in GPaths, k # Key(p) PROVE Members(k)' = Members(k)
  BY <1>1, Added DEF Members
<1>2. ASSUME NEW k \in GPaths, k = Key(p) PROVE Members(k)' = Members(k) \cup {p}
  BY <1>2, Added DEF Members, GroupParts
<1> QED
  BY <1>1, <1>2

(* Nothing of a request changes but the part that a loop has come to.      *)
LEMMA GroupsTypeStep == ASSUME GroupsTypeOK, DiskInv, TodoInv, GroupsNext PROVE GroupsTypeOK'
<1> USE GroupsAssumption DEF GroupsTypeOK, diskVarsG, callVars
<1>1. CASE Prepare
  <2>1. /\ request' \in GRequests /\ request'.inputs \in SUBSET GPaths
        /\ request'.references \in SUBSET GPaths
    BY <1>1 DEF Prepare
  <2>2. groups' \in [GPaths -> [GroupParts -> SUBSET GPaths]] /\ roots' \in [GPaths -> GPaths]
    BY <1>1 DEF Prepare, NoMembers
  <2>3. recent' \in [GPaths -> SUBSET Kinds]
    BY <1>1 DEF Prepare
  <2> QED
    BY <1>1, <2>1, <2>2, <2>3 DEF Prepare
<1>2. ASSUME NEW p \in GPaths, GroupInput(p) PROVE GroupsTypeOK'
  <2>1. stat' \in [GPaths -> Kinds \cup {"unknown"}]
    BY <1>2, Asked DEF GroupInput
  <2>2. groups' \in [GPaths -> [GroupParts -> SUBSET GPaths]]
    <3>1. UNCHANGED groups \/ AddTo(p, "inputs")
      BY <1>2 DEF GroupInput, MissingInput, DirectoryInput, FileInput
    <3> QED
      BY <3>1, Added DEF GroupParts
  <2>3. refs' \subseteq GPaths /\ bad' \subseteq GPaths
    BY <1>2 DEF GroupInput, MissingInput, DirectoryInput, FileInput
  <2> QED
    BY <1>2, <2>1, <2>2, <2>3 DEF GroupInput
<1>3. ASSUME NEW p \in GPaths, NEW part \in {"outputs", "references"}, GroupOther(p, part)
      PROVE  GroupsTypeOK'
  <2>1. UNCHANGED groups \/ AddTo(p, part)
    BY <1>3 DEF GroupOther
  <2>2. groups' \in [GPaths -> [GroupParts -> SUBSET GPaths]]
    BY <2>1, Added DEF GroupParts
  <2> QED
    BY <1>3, <2>2 DEF GroupOther
<1>4. CASE InputsDone
  <2>1. request.outputs \subseteq GPaths
    BY DEF NoRequest
  <2> QED
    BY <1>4, <2>1 DEF InputsDone
<1>5. CASE OutputsDone \/ ReferencesDone \/ SizesDone
  BY <1>5 DEF OutputsDone, ReferencesDone, SizesDone, GroupKeys
<1>6. CASE RootsDone
  <2>1. \A k \in GPaths : groups[k].inputs \subseteq GPaths
    BY DEF GroupParts
  <2> QED
    BY <1>6, <2>1 DEF RootsDone
<1>7. ASSUME NEW k \in GPaths, SetRoot(k) PROVE GroupsTypeOK'
  <2>1. CASE CommonParts(Members(k)) = {}
    BY <1>7, <2>1 DEF SetRoot
  <2>2. CASE CommonParts(Members(k)) # {}
    <3>1. Members(k) \in SUBSET GPaths /\ Members(k) # {}
      BY <1>7 DEF SetRoot, TodoInv, GroupKeys, Members, GroupParts
    <3>2. CommonPath(Members(k)) \in GPaths
      BY <2>2, <3>1, CommonPathOfSome
    <3>3. RootOf(k) \in GPaths
      BY <3>2, ParentOfPath, TreeAssumption DEF RootOf
    <3> QED
      BY <1>7, <2>2, <3>3 DEF SetRoot
  <2> QED
    BY <2>1, <2>2
<1>8. ASSUME NEW p \in GPaths, SizeOf(p) PROVE GroupsTypeOK'
  <2>1. stat' \in [GPaths -> Kinds \cup {"unknown"}]
    BY <1>8, Asked DEF SizeOf
  <2> QED
    BY <1>8, <2>1 DEF SizeOf
<1>9. ASSUME NEW p \in GPaths, Appear(p) \/ Vanish(p) PROVE GroupsTypeOK'
  <2>1. PICK k \in Kinds : ChangeDisk(p, k)
    BY <1>9 DEF Appear, Vanish, Kinds
  <2> QED
    BY <2>1 DEF ChangeDisk
<1> QED
  BY <1>1, <1>2, <1>3, <1>4, <1>5, <1>6, <1>7, <1>8, <1>9 DEF GroupsNext, PrepareStep

(* What is on disk at a path has been so, and locations stay directories.  *)
LEMMA DiskStep ==
  ASSUME GroupsTypeOK, DiskInv, GroupsNext
  PROVE  DiskInv'
<1> USE TreeAssumption, GroupsAssumption DEF diskVarsG, callVars
<1>1. ASSUME UNCHANGED <<kind, kinds, recent, stat>> PROVE DiskInv'
  BY <1>1 DEF DiskInv
<1>2. CASE Prepare
  <2>1. /\ UNCHANGED <<kind, kinds, stat>>
        /\ \A p \in GPaths : recent'[p] = {kind[p]}
    BY <1>2 DEF Prepare
  <2>2. \A p \in GPaths : kind[p] \in kinds[p]
    BY DEF DiskInv
  <2> QED
    BY <2>1, <2>2 DEF DiskInv
<1>3. ASSUME NEW p \in GPaths, GroupInput(p) \/ SizeOf(p) PROVE DiskInv'
  <2>1. Asks(p) /\ UNCHANGED <<kind, kinds, recent>>
    BY <1>3 DEF GroupInput, SizeOf
  <2>2. \A q \in GPaths : stat'[q] # "unknown" => stat'[q] \in kinds[Real[q]]
    BY <2>1, Asked
  <2> QED
    BY <2>1, <2>2 DEF DiskInv
<1>4. ASSUME NEW p \in GPaths, NEW k \in Kinds, ChangeDisk(p, k),
             k # "dir" => \A l \in Local : Real[l] # p
      PROVE  DiskInv'
  <2>1. /\ kind' = [kind EXCEPT ![p] = k] /\ stat' = stat
        /\ kinds' = [kinds EXCEPT ![p] = @ \cup {k}]
        /\ recent' = [recent EXCEPT ![p] = @ \cup {k}]
    BY <1>4 DEF ChangeDisk
  <2>2. \A q \in GPaths : kind'[q] \in recent'[q] /\ recent'[q] \subseteq kinds'[q]
    BY <2>1 DEF DiskInv, GroupsTypeOK
  <2>3. \A q \in GPaths : kinds[q] \subseteq kinds'[q]
    BY <2>1 DEF GroupsTypeOK
  <2>4. \A q \in GPaths : stat'[q] # "unknown" => stat'[q] \in kinds'[Real[q]]
    BY <2>1, <2>3 DEF DiskInv
  <2>5. \A l \in Local : kind'[Real[l]] = "dir"
    BY <1>4, <2>1 DEF DiskInv, GroupsTypeOK
  <2> QED
    BY <2>2, <2>4, <2>5 DEF DiskInv
<1>5. ASSUME NEW p \in GPaths, Appear(p) PROVE DiskInv'
  <2>1. \A l \in Local : Real[l] # p
    BY <1>5 DEF Appear, DiskInv
  <2> QED
    BY <1>4, <1>5, <2>1 DEF Appear, Kinds
<1>6. ASSUME NEW p \in GPaths, Vanish(p) PROVE DiskInv'
  BY <1>4, <1>6 DEF Vanish, Kinds
<1>7. ASSUME NEW p \in GPaths, SetRoot(p) PROVE DiskInv'
  BY <1>1, <1>7 DEF SetRoot
<1>8. ASSUME NEW p \in GPaths, NEW part \in {"outputs", "references"}, GroupOther(p, part)
      PROVE  DiskInv'
  BY <1>1, <1>8 DEF GroupOther
<1>9. CASE InputsDone \/ OutputsDone \/ ReferencesDone \/ RootsDone \/ SizesDone
  BY <1>1, <1>9 DEF InputsDone, OutputsDone, ReferencesDone, RootsDone, SizesDone
<1> QED
  BY <1>2, <1>3, <1>5, <1>6, <1>7, <1>8, <1>9 DEF GroupsNext, PrepareStep

(* A path goes into a group only for a reason. *)
LEMMA MemberStep ==
  ASSUME GroupsTypeOK, DiskInv, MemberInv, TodoInv, GroupsNext
  PROVE  MemberInv'
<1> USE DEF diskVarsG, callVars
<1>1. ASSUME UNCHANGED <<request, refs, groups, unsized>>,
             \A p \in GPaths : kinds[p] \subseteq kinds'[p] /\ recent[p] \subseteq recent'[p]
      PROVE  MemberInv'
  <2>1. \A k \in GPaths : Members(k)' = Members(k)
    BY <1>1 DEF Members
  <2>2. \A k \in GPaths : \A p \in Members(k)' : k = Key(p)' /\ ~IsShared(p)'
    BY <1>1, <2>1, SameKeys DEF MemberInv
  <2>3. \A k \in GPaths : \A p \in groups[k].inputs : p \in GPaths
    BY DEF GroupsTypeOK, GroupParts
  <2>4. \A p \in GPaths : kinds[Real[p]] \subseteq kinds'[Real[p]]
                          /\ recent[Real[p]] \subseteq recent'[Real[p]]
    BY <1>1, TreeAssumption
  <2> QED
    BY <1>1, <2>2, <2>3, <2>4 DEF MemberInv, GroupsTypeOK
<1>2. CASE Prepare
  <2>1. \A k \in GPaths : groups'[k].inputs = {} /\ groups'[k].outputs = {} /\ groups'[k].references = {}
    BY <1>2 DEF Prepare, NoMembers, GroupParts
  <2>2. refs' = request'.references /\ unsized' = {}
    BY <1>2 DEF Prepare
  <2> QED
    BY <2>1, <2>2 DEF MemberInv, Members
<1>3. ASSUME NEW p \in GPaths, NEW part \in GroupParts, AddTo(p, part), ~IsShared(p),
             UNCHANGED <<request, refs, unsized, kinds, recent>>,
             part = "inputs" => p \in request.inputs /\ "file" \in kinds[Real[p]],
             part = "outputs" => p \in request.outputs,
             part = "references" => p \in refs
      PROVE  MemberInv'
  <2>1. \A k \in GPaths : \A q \in Members(k)' : k = Key(q)' /\ ~IsShared(q)'
    BY <1>3, AddedMember, SameKeys DEF MemberInv
  <2>2. ASSUME NEW k \in GPaths
        PROVE  /\ groups'[k].outputs \subseteq request.outputs
               /\ groups'[k].references \subseteq refs
               /\ \A q \in groups'[k].inputs : q \in request.inputs /\ "file" \in kinds[Real[q]]
    BY <1>3, Added DEF MemberInv
  <2> QED
    BY <1>3, <2>1, <2>2 DEF MemberInv
<1>4. ASSUME NEW p \in GPaths, GroupInput(p) PROVE MemberInv'
  <2>1. UNCHANGED <<kinds, recent, request, unsized>> /\ p \in request.inputs
    BY <1>4 DEF GroupInput, TodoInv
  <2>2. CASE MissingInput(p)
    <3>1. UNCHANGED groups /\ "none" \in recent[Real[p]]
      BY <2>2, Believed DEF MissingInput
    <3>2. refs' = refs \/ (refs' = refs \cup {p} /\ ~request.strict)
      BY <2>2 DEF MissingInput
    <3>3. \A k \in GPaths : Members(k)' = Members(k)
      BY <3>1 DEF Members
    <3>4. \A k \in GPaths : \A q \in Members(k)' : k = Key(q)' /\ ~IsShared(q)'
      BY <2>1, <3>3, SameKeys DEF MemberInv
    <3> QED
      BY <2>1, <3>1, <3>2, <3>4 DEF MemberInv
  <2>3. CASE DirectoryInput(p)
    BY <1>1, <2>1, <2>3 DEF DirectoryInput
  <2>4. CASE FileInput(p) /\ IsShared(p)
    BY <1>1, <2>1, <2>4 DEF FileInput
  <2>5. CASE FileInput(p) /\ ~IsShared(p)
    <3>1. AddTo(p, "inputs") /\ UNCHANGED refs /\ "file" \in kinds[Real[p]]
      BY <2>5, Believed DEF FileInput
    <3> QED
      BY <1>3, <2>1, <2>5, <3>1 DEF GroupParts
  <2> QED
    BY <1>4, <2>2, <2>3, <2>4, <2>5 DEF GroupInput
<1>5. ASSUME NEW p \in GPaths, NEW part \in {"outputs", "references"}, GroupOther(p, part)
      PROVE  MemberInv'
  <2>1. /\ UNCHANGED <<kinds, recent, request, refs, unsized>>
        /\ part = "outputs" => p \in request.outputs
        /\ part = "references" => p \in refs
    BY <1>5 DEF GroupOther, TodoInv
  <2>2. CASE IsShared(p)
    BY <1>1, <1>5, <2>1, <2>2 DEF GroupOther
  <2>3. CASE ~IsShared(p)
    BY <1>3, <1>5, <2>1, <2>3 DEF GroupOther, GroupParts
  <2> QED
    BY <2>2, <2>3
<1>6. ASSUME NEW p \in GPaths, SizeOf(p) PROVE MemberInv'
  <2>1. /\ UNCHANGED <<kinds, recent, request, refs, groups>>
        /\ unsized' \subseteq unsized \cup {p} /\ (p \in unsized' => p \in unsized \/ stat'[p] = "none")
    BY <1>6 DEF SizeOf
  <2>2. stat'[p] = "none" => "none" \in kinds[Real[p]]
    BY <1>6, Asked DEF SizeOf
  <2>3. \A k \in GPaths : Members(k)' = Members(k)
    BY <2>1 DEF Members
  <2>4. \A k \in GPaths : \A q \in Members(k)' : k = Key(q)' /\ ~IsShared(q)'
    BY <2>1, <2>3, SameKeys DEF MemberInv
  <2> QED
    BY <2>1, <2>2, <2>4 DEF MemberInv
<1>7. ASSUME NEW p \in GPaths, Appear(p) \/ Vanish(p) PROVE MemberInv'
  <2>1. PICK k \in Kinds : ChangeDisk(p, k)
    BY <1>7 DEF Appear, Vanish, Kinds
  <2> QED
    BY <1>1, <2>1 DEF ChangeDisk, GroupsTypeOK
<1>8. ASSUME NEW k \in GPaths, SetRoot(k) PROVE MemberInv'
  BY <1>1, <1>8 DEF SetRoot
<1>9. CASE InputsDone \/ OutputsDone \/ ReferencesDone \/ RootsDone \/ SizesDone
  BY <1>1, <1>9 DEF InputsDone, OutputsDone, ReferencesDone, RootsDone, SizesDone
<1> QED
  BY <1>2, <1>4, <1>5, <1>6, <1>7, <1>8, <1>9 DEF GroupsNext, PrepareStep

(* The loops come to what they are given, and put it where it belongs.     *)
LEMMA TodoStep ==
  ASSUME GroupsTypeOK, TodoInv, GroupsNext
  PROVE  TodoInv'
<1> USE DEF TodoInv, diskVarsG, callVars
<1>1. CASE Prepare
  BY <1>1 DEF Prepare
<1>2. ASSUME NEW p \in GPaths, GroupInput(p) PROVE TodoInv'
  BY <1>2 DEF GroupInput
<1>3. ASSUME NEW p \in GPaths, NEW part \in {"outputs", "references"}, GroupOther(p, part)
      PROVE  TodoInv'
  BY <1>3 DEF GroupOther
<1>4. CASE InputsDone
  BY <1>4 DEF InputsDone
<1>5. CASE OutputsDone
  BY <1>5 DEF OutputsDone
<1>6. CASE ReferencesDone
  BY <1>6 DEF ReferencesDone, GroupKeys, Members
<1>7. ASSUME NEW k \in GPaths, SetRoot(k) PROVE TodoInv'
  BY <1>7 DEF SetRoot, GroupKeys, Members
<1>8. CASE RootsDone \/ SizesDone
  BY <1>8 DEF RootsDone, SizesDone
<1>9. ASSUME NEW p \in GPaths, SizeOf(p) PROVE TodoInv'
  BY <1>9 DEF SizeOf
<1>10. ASSUME NEW p \in GPaths, Appear(p) \/ Vanish(p) PROVE TodoInv'
  <2>1. PICK k \in Kinds : ChangeDisk(p, k)
    BY <1>10 DEF Appear, Vanish, Kinds
  <2> QED
    BY <2>1 DEF ChangeDisk, GroupKeys, Members
<1> QED
  BY <1>1, <1>2, <1>3, <1>4, <1>5, <1>6, <1>7, <1>8, <1>9, <1>10 DEF GroupsNext, PrepareStep

(* What is placed stays so during a call. *)
LEMMA PlacedStays ==
  ASSUME GroupsTypeOK, UNCHANGED request, refs \subseteq refs',
         \/ UNCHANGED groups
         \/ \E p \in GPaths, part \in GroupParts : AddTo(p, part),
         NEW q \in GPaths
  PROVE  /\ InputPlaced(q) => InputPlaced(q)'
         /\ Placed(q, "outputs") => Placed(q, "outputs")'
         /\ Placed(q, "references") => Placed(q, "references")'
<1>1. Key(q)' = Key(q) /\ (IsShared(q)' <=> IsShared(q)) /\ Key(q) \in GPaths
  BY SameKeys, KeyBelongs
<1>2. ASSUME NEW k \in GPaths
      PROVE  /\ groups[k].inputs \subseteq groups'[k].inputs
             /\ groups[k].outputs \subseteq groups'[k].outputs
             /\ groups[k].references \subseteq groups'[k].references
  <2>1. CASE UNCHANGED groups
    BY <2>1
  <2>2. CASE \E p \in GPaths, part \in GroupParts : AddTo(p, part)
    BY <2>2, Added
  <2> QED
    BY <2>1, <2>2
<1>3. /\ groups[Key(q)].inputs \subseteq groups'[Key(q)].inputs
      /\ groups[Key(q)].outputs \subseteq groups'[Key(q)].outputs
      /\ groups[Key(q)].references \subseteq groups'[Key(q)].references
  BY <1>1, <1>2
<1> QED
  BY <1>1, <1>3 DEF InputPlaced, Placed

(* So it is placed as it should be.                                        *)
LEMMA AddedPlaced ==
  ASSUME GroupsTypeOK, UNCHANGED request, NEW p \in GPaths, NEW part \in GroupParts,
         AddTo(p, part)
  PROVE  /\ part = "inputs" => InputPlaced(p)'
         /\ part = "outputs" => Placed(p, "outputs")'
         /\ part = "references" => Placed(p, "references")'
<1>1. Key(p)' = Key(p) /\ Key(p) \in GPaths
  BY SameKeys, KeyBelongs
<1>2. /\ part = "inputs" => p \in groups'[Key(p)].inputs
      /\ part = "outputs" => p \in groups'[Key(p)].outputs
      /\ part = "references" => p \in groups'[Key(p)].references
  BY <1>1, Added
<1> QED
  BY <1>1, <1>2 DEF InputPlaced, Placed

(* Every turn of the three loops keeps that a path is placed or still to   *)
(* do.                                                                     *)
LEMMA LoopStep ==
  ASSUME GroupsTypeOK, TodoInv, LoopInv, GroupsNext, GroupsTypeOK'
  PROVE  LoopInv'
<1> USE DEF diskVarsG, callVars
<1>2. /\ request.inputs \subseteq GPaths /\ request.outputs \subseteq GPaths /\ refs \subseteq GPaths
  BY GroupsAssumption DEF GroupsTypeOK, NoRequest
<1>3. ASSUME UNCHANGED <<request, refs, groups, bad>>,
             \/ UNCHANGED <<gphase, todo>>
             \/ gphase' \in {"error", "idle"}
             \/ gphase \in Past("references") /\ gphase' \in Past("references")
      PROVE  LoopInv'
  <2>1. \A q \in GPaths : /\ InputPlaced(q) => InputPlaced(q)'
                          /\ Placed(q, "outputs") => Placed(q, "outputs")'
                          /\ Placed(q, "references") => Placed(q, "references")'
    BY <1>3, PlacedStays
  <2> QED
    BY <1>2, <1>3, <2>1 DEF LoopInv, Past
<1>4. CASE Prepare
  BY <1>4 DEF Prepare, LoopInv, Past
<1>5. ASSUME NEW p \in GPaths, GroupInput(p) PROVE LoopInv'
  <2>1. gphase = "inputs" /\ gphase' = "inputs" /\ request' = request /\ todo' = todo \ {p}
        /\ refs \subseteq refs' /\ bad \subseteq bad'
    BY <1>5 DEF GroupInput, MissingInput, DirectoryInput, FileInput
  <2>2. UNCHANGED groups \/ AddTo(p, "inputs")
    BY <1>5 DEF GroupInput, MissingInput, DirectoryInput, FileInput
  <2>3. \A q \in GPaths : InputPlaced(q) => InputPlaced(q)'
    BY <2>1, <2>2, PlacedStays DEF GroupParts
  <2>4. InputPlaced(p)' \/ bad' # {}
    <3>1. CASE MissingInput(p)
      BY <3>1 DEF MissingInput, InputPlaced
    <3>2. CASE DirectoryInput(p)
      BY <3>2 DEF DirectoryInput
    <3>3. CASE FileInput(p) /\ IsShared(p)
      BY <2>1, <3>3, SameKeys DEF InputPlaced
    <3>4. CASE FileInput(p) /\ ~IsShared(p)
      BY <2>1, <3>4, AddedPlaced DEF FileInput, GroupParts
    <3> QED
      BY <1>5, <3>1, <3>2, <3>3, <3>4 DEF GroupInput
  <2> QED
    BY <1>2, <2>1, <2>3, <2>4 DEF LoopInv, Past
<1>6. ASSUME NEW p \in GPaths, NEW part \in {"outputs", "references"}, GroupOther(p, part)
      PROVE  LoopInv'
  <2>1. gphase = part /\ gphase' = part /\ UNCHANGED <<request, refs, bad>> /\ todo' = todo \ {p}
    BY <1>6 DEF GroupOther
  <2>2. UNCHANGED groups \/ AddTo(p, part)
    BY <1>6 DEF GroupOther
  <2>3. \A q \in GPaths : /\ InputPlaced(q) => InputPlaced(q)'
                          /\ Placed(q, "outputs") => Placed(q, "outputs")'
                          /\ Placed(q, "references") => Placed(q, "references")'
    BY <2>1, <2>2, PlacedStays DEF GroupParts
  <2>4. /\ part = "outputs" => Placed(p, "outputs")'
        /\ part = "references" => Placed(p, "references")'
    <3>1. CASE IsShared(p)
      BY <2>1, <3>1, SameKeys DEF Placed
    <3>2. CASE ~IsShared(p)
      BY <1>6, <2>1, <3>2, AddedPlaced DEF GroupOther, GroupParts
    <3> QED
      BY <3>1, <3>2
  <2> QED
    BY <1>2, <2>1, <2>3, <2>4 DEF LoopInv, Past
<1>7. CASE InputsDone \/ OutputsDone \/ ReferencesDone
  <2>1. UNCHANGED <<request, refs, groups>>
    BY <1>7 DEF InputsDone, OutputsDone, ReferencesDone
  <2>2. \A q \in GPaths : /\ InputPlaced(q) => InputPlaced(q)'
                          /\ Placed(q, "outputs") => Placed(q, "outputs")'
                          /\ Placed(q, "references") => Placed(q, "references")'
    BY <2>1, PlacedStays
  <2>3. CASE InputsDone
    BY <1>2, <2>1, <2>2, <2>3 DEF InputsDone, LoopInv, Past
  <2>4. CASE OutputsDone
    BY <1>2, <2>1, <2>2, <2>4 DEF OutputsDone, LoopInv, Past
  <2>5. CASE ReferencesDone
    BY <1>2, <2>1, <2>2, <2>5 DEF ReferencesDone, LoopInv, Past
  <2> QED
    BY <1>7, <2>3, <2>4, <2>5
<1>8. ASSUME NEW k \in GPaths, SetRoot(k) PROVE LoopInv'
  <2>1. gphase = "roots" /\ gphase' \in {"roots", "error"} /\ UNCHANGED <<request, refs, groups, bad>>
    BY <1>8 DEF SetRoot
  <2> QED
    BY <1>3, <2>1 DEF Past
<1>9. ASSUME NEW p \in GPaths, SizeOf(p) PROVE LoopInv'
  BY <1>3, <1>9 DEF SizeOf, Past
<1>10. CASE RootsDone \/ SizesDone
  BY <1>3, <1>10 DEF RootsDone, SizesDone, Past
<1>11. ASSUME NEW p \in GPaths, Appear(p) \/ Vanish(p) PROVE LoopInv'
  <2>1. PICK k \in Kinds : ChangeDisk(p, k)
    BY <1>11 DEF Appear, Vanish, Kinds
  <2> QED
    BY <1>3, <2>1 DEF ChangeDisk
<1> QED
  BY <1>4, <1>5, <1>6, <1>7, <1>8, <1>9, <1>10, <1>11 DEF GroupsNext, PrepareStep

-----------------------------------------------------------------------------
(* The roots *)

(* In a group without links the key is above every member. *)
LEMMA KeyAbove ==
  ASSUME MemberInv, NEW k \in GPaths, LinkFree(k), NEW p \in Members(k), p \in GPaths
  PROVE  /\ k = Key(p) /\ Real[p] = p /\ Real[k] = k /\ k \in Above[p]
         /\ k \in LocalNow \/ Above[k] = {k}
<1>1. k = Key(p) /\ Real[p] = p /\ Real[k] = k
  BY DEF MemberInv, LinkFree
<1>2. BelongsTo(p, k)
  BY <1>1, KeyBelongs
<1> QED
  BY <1>1, <1>2 DEF BelongsTo, IsUnder

(* The root of a group is above all its members, and in the group's        *)
(* location if no member is a link.                                        *)
LEMMA RootOfGroup ==
  ASSUME GroupsTypeOK, DiskInv, MemberInv,
         NEW k \in GPaths, Members(k) # {}, CommonParts(Members(k)) # {}
  PROVE  /\ RootOf(k) \in GPaths
         /\ \A p \in Members(k) : RootOf(k) \in Above[p]
         /\ LinkFree(k) => k \in Above[RootOf(k)]
<1> DEFINE c == CommonPath(Members(k))
<1>1. Members(k) \in SUBSET GPaths
  BY DEF GroupsTypeOK, Members, GroupParts
<1>2. /\ c \in GPaths /\ \A p \in Members(k) : c \in Above[p]
      /\ CommonParts(Members(k)) \subseteq Above[c]
  BY <1>1, CommonPathOfSome
<1>3. /\ Parent(c) \in Above[c] /\ \A q \in Above[c] : q # c => q \in Above[Parent(c)]
      /\ Above[c] = {c} => Parent(c) = c
  BY <1>2, ParentOfPath
<1>4. RootOf(k) = IF kind[Real[c]] = "file" THEN Parent(c) ELSE c
  BY DEF RootOf
<1> HIDE DEF c
<1>5. RootOf(k) \in Above[c] /\ RootOf(k) \in GPaths
  BY <1>2, <1>3, <1>4, TreeAssumption
<1>6. \A p \in Members(k) : RootOf(k) \in Above[p]
  BY <1>1, <1>2, <1>5, TreeAssumption
<1>7. ASSUME LinkFree(k) PROVE k \in Above[RootOf(k)]
  <2>1. \A p \in Members(k) : k \in Above[p] /\ (k \in LocalNow \/ Above[k] = {k})
    BY <1>1, <1>7, KeyAbove
  <2>2. k \in Above[c]
    BY <1>2, <2>1 DEF CommonParts
  <2>3. CASE kind[Real[c]] # "file"
    BY <1>4, <2>2, <2>3
  <2>4. CASE kind[Real[c]] = "file" /\ c # k
    BY <1>3, <1>4, <2>2, <2>4
  <2>5. CASE kind[Real[c]] = "file" /\ c = k
    <3>1. k \notin LocalNow
      BY <2>5 DEF DiskInv, LocalNow
    <3>2. Above[k] = {k}
      BY <2>1, <3>1
    <3> QED
      BY <1>3, <1>4, <2>5, <3>2
  <2> QED
    BY <2>3, <2>4, <2>5
<1> QED
  BY <1>5, <1>6, <1>7

(* Every step keeps the roots right.                                       *)
LEMMA RootStep ==
  ASSUME GroupsTypeOK, DiskInv, MemberInv, TodoInv, RootInv, GroupsNext
  PROVE  RootInv'
<1> USE DEF diskVarsG, callVars
<1>1. ASSUME UNCHANGED groups
      PROVE  /\ GroupKeys' = GroupKeys
             /\ \A k \in GPaths : Members(k)' = Members(k) /\ (LinkFree(k)' <=> LinkFree(k))
  BY <1>1 DEF GroupKeys, Members, LinkFree
<1>2. ASSUME UNCHANGED <<groups, roots, gphase, todo>> PROVE RootInv'
  BY <1>1, <1>2 DEF RootInv, RootFits, GroupKeys
<1>3. CASE Prepare
  BY <1>3 DEF Prepare, RootInv
<1>4. ASSUME NEW p \in GPaths, GroupInput(p) PROVE RootInv'
  BY <1>4 DEF GroupInput, RootInv
<1>5. ASSUME NEW p \in GPaths, NEW part \in {"outputs", "references"}, GroupOther(p, part)
      PROVE  RootInv'
  BY <1>5 DEF GroupOther, RootInv
<1>6. CASE InputsDone \/ OutputsDone
  BY <1>6 DEF InputsDone, OutputsDone, RootInv
<1>7. CASE ReferencesDone
  BY <1>1, <1>7 DEF ReferencesDone, RootInv
<1>8. ASSUME NEW k \in GPaths, SetRoot(k) PROVE RootInv'
  <2>1. CASE CommonParts(Members(k)) = {}
    BY <1>8, <2>1 DEF SetRoot, RootInv
  <2>2. CASE CommonParts(Members(k)) # {}
    <3>1. /\ k \in GroupKeys /\ gphase = "roots" /\ gphase' = "roots" /\ todo' = todo \ {k}
          /\ UNCHANGED groups /\ roots' = [roots EXCEPT ![k] = RootOf(k)]
      BY <1>8, <2>2 DEF SetRoot, TodoInv
    <3>2. /\ \A p \in Members(k) : RootOf(k) \in Above[p]
          /\ LinkFree(k) => k \in Above[RootOf(k)]
      BY <2>2, <3>1, RootOfGroup DEF GroupKeys
    <3>3. roots'[k] = RootOf(k) /\ \A j \in GPaths : j # k => roots'[j] = roots[j]
      BY <3>1 DEF GroupsTypeOK
    <3>4. RootFits(k)'
      BY <1>1, <3>1, <3>2, <3>3 DEF RootFits
    <3>5. ASSUME NEW j \in GroupKeys \ todo, j # k PROVE RootFits(j)'
      <4>1. j \in GPaths
        BY DEF GroupKeys
      <4> QED
        BY <1>1, <3>1, <3>3, <3>5, <4>1 DEF RootFits, RootInv
    <3> QED
      BY <1>1, <3>1, <3>4, <3>5 DEF RootInv
  <2> QED
    BY <2>1, <2>2
<1>9. CASE RootsDone \/ SizesDone
  <2>1. UNCHANGED <<groups, roots>>
    BY <1>9 DEF RootsDone, SizesDone
  <2>2. \A k \in GroupKeys : RootFits(k)
    BY <1>9 DEF RootsDone, SizesDone, RootInv
  <2>3. \A k \in GroupKeys' : RootFits(k)'
    BY <1>1, <2>1, <2>2 DEF RootFits, GroupKeys
  <2>4. gphase' # "roots"
    BY <1>9 DEF RootsDone, SizesDone
  <2> QED
    BY <2>3, <2>4 DEF RootInv
<1>10. ASSUME NEW p \in GPaths, SizeOf(p) PROVE RootInv'
  <2>1. UNCHANGED <<groups, roots, gphase>> /\ gphase = "sizes"
    BY <1>10 DEF SizeOf
  <2> QED
    BY <1>1, <2>1 DEF RootInv, RootFits, GroupKeys
<1>11. ASSUME NEW p \in GPaths, Appear(p) \/ Vanish(p) PROVE RootInv'
  <2>1. PICK k \in Kinds : ChangeDisk(p, k)
    BY <1>11 DEF Appear, Vanish, Kinds
  <2> QED
    BY <1>2, <2>1 DEF ChangeDisk
<1> QED
  BY <1>3, <1>4, <1>5, <1>6, <1>7, <1>8, <1>9, <1>10, <1>11 DEF GroupsNext, PrepareStep

-----------------------------------------------------------------------------
(* Every step of the grouping keeps the invariant.                         *)
LEMMA NextGroupsInv == GroupsInv /\ [GroupsNext]_groupVars => GroupsInv'
<1>1. ASSUME GroupsInv, GroupsNext PROVE GroupsInv'
  <2>1. GroupsTypeOK' /\ DiskInv' /\ MemberInv' /\ TodoInv' /\ RootInv'
    BY <1>1, GroupsTypeStep, DiskStep, MemberStep, TodoStep, RootStep DEF GroupsInv
  <2>2. LoopInv'
    BY <1>1, <2>1, LoopStep DEF GroupsInv
  <2> QED
    BY <2>1, <2>2 DEF GroupsInv
<1>2. ASSUME GroupsInv, UNCHANGED groupVars PROVE GroupsInv'
  <2> USE <1>2 DEF GroupsInv, groupVars, diskVarsG, callVars
  <2>1. GroupsTypeOK' /\ DiskInv'
    BY DEF GroupsTypeOK, DiskInv
  <2>2. MemberInv'
    BY DEF MemberInv, Members, IsShared, SharedNow, Key, LongestMatch, MatchesOf, LocalNow
  <2>3. TodoInv' /\ RootInv'
    BY DEF TodoInv, RootInv, GroupKeys, RootFits, Members, LinkFree
  <2>4. LoopInv'
    BY DEF LoopInv, InputPlaced, Placed, IsShared, SharedNow, Key, LongestMatch, MatchesOf, LocalNow
  <2> QED
    BY <2>1, <2>2, <2>3, <2>4
<1> QED
  BY <1>1, <1>2

(* Every reachable state of the grouping is well typed.                    *)
THEOREM GroupsTyped == GroupsSpec => []GroupsTypeOK
<1>1. GroupsInv => GroupsTypeOK
  BY DEF GroupsInv
<1> QED
  BY <1>1, InitGroupsInv, NextGroupsInv, PTL DEF GroupsSpec

(* Every path of a request is in the one group it belongs to, under what   *)
(* it was given as, and only because of what was so on disk.               *)
THEOREM Grouped == GroupsSpec => []GroupedRight
<1>1. GroupsInv => GroupedRight
  <2> SUFFICES ASSUME GroupsInv, gphase = "done" PROVE GroupedRight
    BY DEF GroupedRight
  <2> USE DEF GroupsInv
  <2>1. /\ request.inputs \subseteq GPaths /\ request.outputs \subseteq GPaths
        /\ refs \subseteq GPaths
    BY GroupsAssumption DEF GroupsTypeOK, NoRequest
  <2>2. /\ \A p \in request.inputs : InputPlaced(p)
        /\ \A p \in request.outputs : Placed(p, "outputs")
        /\ \A p \in refs : Placed(p, "references")
    BY DEF LoopInv, Past
  <2>3. ASSUME NEW p \in GPaths, ~IsShared(p) PROVE AsAsked(p, Key(p))
    <3>1. Key(p) \in GPaths
      BY KeyBelongs
    <3>2. p \in groups[Key(p)].outputs <=> p \in request.outputs
      BY <2>2, <2>3, <3>1 DEF MemberInv, Placed
    <3>3. p \in refs => p \in groups[Key(p)].references
      BY <2>2, <2>3, <3>1 DEF Placed
    <3>4. p \in request.references => p \in groups[Key(p)].references
      BY <3>3 DEF MemberInv
    <3>5. p \in groups[Key(p)].references \ request.references =>
            p \in request.inputs /\ ~request.strict /\ "none" \in recent[Real[p]]
      BY <3>1 DEF MemberInv
    <3>6. p \in groups[Key(p)].inputs => p \in request.inputs /\ "file" \in kinds[Real[p]]
      BY <3>1 DEF MemberInv
    <3>7. p \in request.inputs => p \in groups[Key(p)].inputs \cup groups[Key(p)].references
      BY <2>2, <2>3, <3>3 DEF InputPlaced
    <3> QED
      BY <3>2, <3>4, <3>5, <3>6, <3>7 DEF AsAsked
  <2>4. \A p \in GPaths : IsShared(p) => \A k \in GPaths : p \notin Members(k)
    BY DEF MemberInv
  <2>5. \A p \in request.inputs \cup request.outputs \cup request.references :
          IF IsShared(p) THEN \A k \in GPaths : p \notin Members(k)
          ELSE \E k \in GPaths : BelongsTo(p, k) /\ AsAsked(p, k)
    BY <2>1, <2>3, <2>4, KeyBelongs DEF MemberInv
  <2>6. \A k \in GPaths : \A p \in Members(k) : p \in GPaths
    BY DEF Members, GroupsTypeOK, GroupParts
  <2>7. \A k \in GPaths : \A p \in Members(k) : BelongsTo(p, k) /\ AsAsked(p, k)
    BY <2>3, <2>6, KeyBelongs DEF MemberInv
  <2>8. \A j, k \in GPaths : j # k => Members(j) \cap Members(k) = {}
    BY DEF MemberInv
  <2>9. \A p \in unsized : "none" \in kinds[Real[p]]
    BY DEF MemberInv
  <2> QED
    BY <2>5, <2>7, <2>8, <2>9 DEF GroupedRight
<1> QED
  BY <1>1, InitGroupsInv, NextGroupsInv, PTL DEF GroupsSpec

(* Two groups without links never share a root: of two keys one of which   *)
(* is above the other, the lower one is the more specific location.        *)
LEMMA KeysApart ==
  ASSUME GroupsInv, NEW j \in GroupKeys, NEW k \in GroupKeys, LinkFree(j), LinkFree(k),
         RootFits(j), roots[j] = roots[k], k \in Above[roots[k]], j \in Above[k]
  PROVE  j = k
<1> SUFFICES ASSUME j # k PROVE FALSE
  OBVIOUS
<1> USE DEF GroupsInv
<1>1. j \in GPaths /\ k \in GPaths /\ Members(j) # {} /\ Members(k) # {}
  BY DEF GroupKeys
<1>2. Members(j) \subseteq GPaths /\ Members(k) \subseteq GPaths
  BY <1>1 DEF Members, GroupsTypeOK, GroupParts
<1>3. PICK p \in Members(j) : p \in GPaths
  BY <1>1, <1>2
<1>4. PICK q \in Members(k) : q \in GPaths
  BY <1>1, <1>2
<1>5. j = Key(p) /\ Real[p] = p /\ Real[k] = k /\ (k \in LocalNow \/ Above[k] = {k})
  BY <1>1, <1>3, <1>4, KeyAbove
<1>6. k \in LocalNow
  BY <1>5
<1>7. roots[j] \in Above[p]
  BY <1>3 DEF RootFits
<1>8. k \in Above[p]
  BY <1>3, <1>7, TreeAssumption
<1>9. k \in MatchesOf(p)
  BY <1>5, <1>6, <1>8 DEF MatchesOf, IsUnder
<1>10. Length[k] <= Length[j]
  BY <1>3, <1>5, <1>9, MatchLongest
<1>11. Length[j] < Length[k] /\ Length[j] \in Nat /\ Length[k] \in Nat
  BY <1>1, TreeAssumption
<1> QED
  BY <1>10, <1>11

(* The roots of a submission's groups are above their members, within      *)
(* their locations, and apart.                                             *)
THEOREM RootsNeverMeet == GroupsSpec => []RootsApart
<1>1. GroupsInv => RootsApart
  <2> SUFFICES ASSUME GroupsInv, gphase \in {"sizes", "done"}, NEW k \in GroupKeys
               PROVE  /\ \A p \in Members(k) : roots[k] \in Above[p]
                      /\ LinkFree(k) =>
                           /\ k \in Above[roots[k]]
                           /\ \A j \in GroupKeys : LinkFree(j) /\ roots[j] = roots[k] => j = k
    BY DEF RootsApart
  <2>1. \A j \in GroupKeys : RootFits(j)
    BY DEF GroupsInv, RootInv
  <2>2. ASSUME NEW j \in GroupKeys, LinkFree(j), LinkFree(k), roots[j] = roots[k] PROVE j = k
    <3>1. j \in Above[roots[k]] /\ k \in Above[roots[k]]
      BY <2>1, <2>2 DEF RootFits
    <3>2. roots[k] \in GPaths /\ j \in GPaths /\ k \in GPaths
      BY DEF GroupsInv, GroupsTypeOK, GroupKeys
    <3>3. j \in Above[k] \/ k \in Above[j]
      BY <3>1, <3>2, TreeAssumption
    <3> QED
      BY <2>1, <2>2, <3>1, <3>3, KeysApart
  <2> QED
    BY <2>1, <2>2 DEF RootFits
<1> QED
  BY <1>1, InitGroupsInv, NextGroupsInv, PTL DEF GroupsSpec

-----------------------------------------------------------------------------
(* 3. ProgressTracker                                                      *)

(* The lock is held only while an answer is awaited, by a thread that is   *)
(* in the callback, and nobody enters it once the answer was No.           *)
HolderInv ==
  /\ reporting <=> ~refused
  /\ refused => holder = Nobody
  /\ holder \in TFiles =>
       worker[holder] = "telling" /\ BatchOf[holder] = batch /\ tphase = "running"
  /\ holder = Caller => caller \in {"reporting", "finishing"} /\ tphase = "running"

(* The roots before this one are done with, and so is this one when the    *)
(* caller makes its last report; a call that has returned was at the last. *)
BatchInv ==
  /\ \A f \in TFiles : BatchOf[f] < batch => worker[f] = "counted"
  /\ caller \in {"final", "finishing", "check"} => Collected
  /\ tphase = "returned" => Collected /\ batch = Batches /\ holder = Nobody /\ caller = "over"

(* Files that were not begun when the answer was No are not hashed.        *)
PendingInv ==
  /\ ~refused => pending = {}
  /\ tkind = "hash" => \A f \in pending : worker[f] \in {"queued", "failed"}

TrackerInv == TrackerTypeOK /\ HolderInv /\ BatchInv /\ PendingInv /\ NoIsFinal

(* Before the operation nothing was counted or refused.                    *)
LEMMA InitTrackerInv == TrackerInit => TrackerInv
<1> SUFFICES ASSUME TrackerInit PROVE TrackerInv
  OBVIOUS
<1> USE TrackerAssumption DEF TrackerInit
<1>1. TrackerTypeOK
  <2>1. 1 \in 1..Batches /\ worker \in [TFiles -> WorkerStates]
    BY DEF WorkerStates
  <2> QED
    BY <2>1 DEF TrackerTypeOK
<1>2. HolderInv /\ BatchInv /\ PendingInv /\ NoIsFinal
  BY DEF HolderInv, BatchInv, PendingInv, NoIsFinal
<1> QED
  BY <1>1, <1>2 DEF TrackerInv

(* Steps of the threads that leave the counters and the answer alone, and  *)
(* those that count a file.                                                *)
LEMMA BecomesType ==
  ASSUME TrackerTypeOK, NEW f \in TFiles, NEW s \in WorkerStates, Becomes(f, s)
  PROVE  worker' \in [TFiles -> WorkerStates] /\ worker'[f] = s
         /\ \A g \in TFiles \ {f} : worker'[g] = worker[g]
BY DEF TrackerTypeOK, Becomes

(* What an answer, or an exception instead of one, leaves of the counters. *)
LEMMA AnswerKeeps ==
  ASSUME Yes \/ No \/ Raises
  PROVE  /\ processed' = processed /\ skipped' = skipped
         /\ \/ shown' = Completed /\ inChunk' = 0 /\ timed' = TRUE
            \/ shown' = shown /\ inChunk' = inChunk /\ timed' = timed
         /\ \/ reporting' = reporting /\ refused' = refused /\ pending' = pending
            \/ /\ reporting' = FALSE /\ refused' = TRUE
               /\ pending' = {f \in TFiles : worker[f] = "queued"}
BY Zenon DEF Yes, No, Raises, Answered, counters

(* Whatever the callback answers, reporting stops with a refusal and only  *)
(* then.                                                                   *)
LEMMA AnswerAgrees ==
  ASSUME reporting <=> ~refused, Yes \/ No \/ Raises
  PROVE  reporting' <=> ~refused'
<1>1. CASE reporting' = reporting /\ refused' = refused
  BY <1>1, Zenon
<1>2. CASE reporting' = FALSE /\ refused' = TRUE
  BY <1>2, Zenon
<1> QED
  BY <1>1, <1>2, AnswerKeeps, Zenon

(* Whatever it answers, the counters have their types.                     *)
LEMMA AnswerType ==
  ASSUME TrackerTypeOK, Yes \/ No \/ Raises
  PROVE  /\ shown' \in Nat /\ inChunk' \in Nat /\ processed' \in Nat /\ skipped' \in Nat
         /\ timed' \in BOOLEAN /\ reporting' \in BOOLEAN /\ refused' \in BOOLEAN
         /\ pending' \subseteq TFiles
<1>1. Completed \in Nat
  BY DEF TrackerTypeOK, Completed
<1>2. /\ shown' \in Nat /\ inChunk' \in Nat /\ processed' \in Nat /\ skipped' \in Nat
  <2>1. /\ processed' = processed /\ skipped' = skipped
        /\ (shown' = Completed /\ inChunk' = 0) \/ (shown' = shown /\ inChunk' = inChunk)
    BY AnswerKeeps, Zenon
  <2> QED
    BY <1>1, <2>1 DEF TrackerTypeOK
<1>3. timed' \in BOOLEAN
  BY AnswerKeeps, Zenon DEF TrackerTypeOK
<1>4. reporting' \in BOOLEAN /\ refused' \in BOOLEAN
  BY AnswerKeeps, Zenon DEF TrackerTypeOK
<1>5. pending' \subseteq TFiles
  BY AnswerKeeps DEF TrackerTypeOK
<1> QED
  BY <1>2, <1>3, <1>4, <1>5

(* Every step keeps the types.                                             *)
LEMMA TrackerTypeStep == TrackerTypeOK /\ TrackerNext => TrackerTypeOK'
<1> SUFFICES ASSUME TrackerTypeOK, TrackerNext PROVE TrackerTypeOK'
  OBVIOUS
<1> USE TrackerAssumption DEF TrackerTypeOK, WorkerStates, counters, historyT
<1>1. CASE StartTracking
  BY <1>1 DEF StartTracking
<1>2. ASSUME NEW f \in TFiles, Begin(f) PROVE TrackerTypeOK'
  <2>1. PICK s \in WorkerStates : Becomes(f, s)
    BY <1>2 DEF Begin, BeginsAs
  <2> QED
    BY <1>2, <2>1, BecomesType DEF Begin
<1>3. ASSUME NEW f \in TFiles, BeginGone(f) PROVE TrackerTypeOK'
  BY <1>3, BecomesType DEF BeginGone
<1>4. ASSUME NEW f \in TFiles, Track(f) PROVE TrackerTypeOK'
  <2>1. PICK s \in WorkerStates : Becomes(f, s)
    BY <1>4 DEF Track, Heeded
  <2>2. holder' \in TFiles \cup {Caller, Nobody}
    BY <1>4 DEF Track, CallBack, StaySilent
  <2> QED
    BY <1>4, <2>1, <2>2, BecomesType DEF Track
<1>5. ASSUME NEW f \in TFiles, TrackAnswered(f) PROVE TrackerTypeOK'
  <2>1. PICK s \in WorkerStates : Becomes(f, s)
    BY <1>5 DEF TrackAnswered, Heeded
  <2>2. shown' \in Nat /\ inChunk' \in Nat /\ timed' \in BOOLEAN /\ processed' \in Nat
        /\ skipped' \in Nat /\ reporting' \in BOOLEAN /\ refused' \in BOOLEAN
        /\ pending' \subseteq TFiles
    BY <1>5, AnswerType DEF TrackAnswered
  <2> QED
    BY <1>5, <2>1, <2>2, BecomesType DEF TrackAnswered
<1>6. ASSUME NEW f \in TFiles, FinishUpload(f) PROVE TrackerTypeOK'
  BY <1>6, BecomesType DEF FinishUpload
<1>7. ASSUME NEW f \in TFiles, Finish(f) PROVE TrackerTypeOK'
  <2>1. PICK s \in WorkerStates : Becomes(f, s)
    BY <1>7 DEF Finish
  <2> QED
    BY <1>7, <2>1, BecomesType DEF Finish
<1>8. ASSUME NEW f \in TFiles, Fail(f) PROVE TrackerTypeOK'
  BY <1>8, BecomesType DEF Fail
<1>9. ASSUME NEW f \in TFiles, Collect(f) PROVE TrackerTypeOK'
  <2>1. worker' \in [TFiles -> WorkerStates]
    BY <1>9, BecomesType DEF Collect
  <2>2. processed' \in Nat /\ skipped' \in Nat /\ inChunk' \in Nat
    BY <1>9 DEF Collect
  <2>3. timed' \in BOOLEAN
    BY <1>9, Zenon DEF Collect
  <2> QED
    BY <1>9, <2>1, <2>2, <2>3 DEF Collect
<1>10. ASSUME NEW f \in TFiles, CollectFailure(f) PROVE TrackerTypeOK'
  BY <1>10 DEF CollectFailure
<1>11. CASE Report
  <2>1. holder' \in TFiles \cup {Caller, Nobody}
    BY <1>11 DEF Report, CallBack, StaySilent
  <2>2. caller' \in {"collect", "report", "reporting", "final", "finishing", "check", "drain", "over"}
    BY <1>11 DEF Report
  <2> QED
    BY <1>11, <2>1, <2>2 DEF Report
<1>12. CASE ReportAnswered
  <2>1. shown' \in Nat /\ inChunk' \in Nat /\ timed' \in BOOLEAN /\ processed' \in Nat
        /\ skipped' \in Nat /\ reporting' \in BOOLEAN /\ refused' \in BOOLEAN
        /\ pending' \subseteq TFiles
    BY <1>12, AnswerType DEF ReportAnswered
  <2>2. /\ caller' \in {"collect", "report", "reporting", "final", "finishing", "check", "drain", "over"}
        /\ tphase' \in {"idle", "running", "returned", "raised"}
    BY <1>12 DEF ReportAnswered
  <2> QED
    BY <1>12, <2>1, <2>2 DEF ReportAnswered
<1>13. CASE BatchDone
  BY <1>13 DEF BatchDone, Leave
<1>14. CASE LastCheck
  BY <1>14 DEF LastCheck, Leave
<1>15. CASE Drained
  BY <1>15 DEF Drained
<1> QED
  BY <1>1, <1>2, <1>3, <1>4, <1>5, <1>6, <1>7, <1>8, <1>9, <1>10, <1>11, <1>12, <1>13, <1>14, <1>15
     DEF TrackerNext, Transfer

(* The lock is taken by threads that may report, and given back with the   *)
(* answer, in which case nobody else holds it.                             *)
LEMMA HolderStep ==
  ASSUME TrackerTypeOK, HolderInv, BatchInv, TrackerNext
  PROVE  HolderInv'
<1> USE TrackerAssumption DEF TrackerTypeOK, HolderInv, counters, historyT
<1>1. CASE StartTracking
  BY <1>1 DEF StartTracking
<1>2. ASSUME NEW f \in TFiles, Begin(f) PROVE HolderInv'
  <2>1. PICK s \in WorkerStates : Becomes(f, s)
    BY <1>2 DEF Begin, BeginsAs, WorkerStates
  <2> QED
    BY <1>2, <2>1, BecomesType DEF Begin
<1>3. ASSUME NEW f \in TFiles, BeginGone(f) PROVE HolderInv'
  BY <1>3, BecomesType DEF BeginGone, WorkerStates
<1>4. ASSUME NEW f \in TFiles, Track(f) PROVE HolderInv'
  <2>1. CASE CallBack(f) /\ Becomes(f, "telling")
    <3>1. reporting /\ holder' = f /\ worker'[f] = "telling"
      BY <2>1, BecomesType DEF CallBack, MayReport, WorkerStates
    <3> QED
      BY <1>4, <3>1 DEF Track, Active
  <2>2. CASE StaySilent(TRUE)
    BY <1>4, <2>2 DEF Track, StaySilent
  <2> QED
    BY <1>4, <2>1, <2>2 DEF Track
<1>5. ASSUME NEW f \in TFiles, TrackAnswered(f) PROVE HolderInv'
  <2>1. holder' = Nobody
    BY <1>5 DEF TrackAnswered
  <2>2. Yes \/ No \/ Raises
    BY <1>5 DEF TrackAnswered
  <2>3. reporting' <=> ~refused'
    BY <2>2, AnswerAgrees DEF HolderInv
  <2> QED
    BY <2>1, <2>3
<1>6. ASSUME NEW f \in TFiles, FinishUpload(f) PROVE HolderInv'
  BY <1>6 DEF FinishUpload
<1>7. ASSUME NEW f \in TFiles, Finish(f) PROVE HolderInv'
  <2>1. PICK s \in WorkerStates : Becomes(f, s)
    BY <1>7 DEF Finish, WorkerStates
  <2> QED
    BY <1>7, <2>1, BecomesType DEF Finish, Finishes
<1>8. ASSUME NEW f \in TFiles, Fail(f) PROVE HolderInv'
  BY <1>8, BecomesType DEF Fail, WorkerStates
<1>9. ASSUME NEW f \in TFiles, Collect(f) PROVE HolderInv'
  <2>1. worker'[f] = "counted" /\ \A g \in TFiles \ {f} : worker'[g] = worker[g]
    BY <1>9, BecomesType DEF Collect, WorkerStates
  <2> QED
    BY <1>9, <2>1 DEF Collect
<1>10. ASSUME NEW f \in TFiles, CollectFailure(f) PROVE HolderInv'
  BY <1>10 DEF CollectFailure
<1>11. CASE Report
  <2>1. CASE CallBack(Caller)
    BY <1>11, <2>1 DEF Report, CallBack, StaySilent, MayReport
  <2>2. CASE StaySilent(timed)
    BY <1>11, <2>2 DEF Report, StaySilent
  <2> QED
    BY <1>11, <2>1, <2>2 DEF Report
<1>12. CASE ReportAnswered
  <2>1. holder' = Nobody
    BY <1>12 DEF ReportAnswered
  <2>2. Yes \/ No \/ Raises
    BY <1>12 DEF ReportAnswered
  <2>3. reporting' <=> ~refused'
    BY <2>2, AnswerAgrees DEF HolderInv
  <2> QED
    BY <2>1, <2>3
<1>13. CASE BatchDone
  <2>1. holder \notin TFiles /\ holder # Caller
    BY <1>13 DEF BatchDone, Collected
  <2> QED
    BY <1>13, <2>1 DEF BatchDone
<1>14. CASE LastCheck
  <2>1. holder \notin TFiles /\ holder # Caller
    BY <1>14 DEF LastCheck, BatchInv, Collected
  <2> QED
    BY <1>14, <2>1 DEF LastCheck
<1>15. CASE Drained
  <2>1. holder \notin TFiles /\ holder # Caller
    BY <1>15 DEF Drained
  <2> QED
    BY <1>15, <2>1 DEF Drained
<1> QED
  BY <1>1, <1>2, <1>3, <1>4, <1>5, <1>6, <1>7, <1>8, <1>9, <1>10, <1>11, <1>12, <1>13, <1>14, <1>15
     DEF TrackerNext, Transfer

(* A task moves only while the call runs and is not at its last report of  *)
(* the root, and never from what is counted.                               *)
LEMMA TaskMoves ==
  ASSUME TrackerTypeOK, HolderInv, BatchInv, NEW f \in TFiles,
         \/ Begin(f) \/ BeginGone(f) \/ Track(f) \/ TrackAnswered(f)
         \/ FinishUpload(f) \/ Finish(f) \/ Fail(f)
  PROVE  /\ tphase = "running" /\ BatchOf[f] = batch
         /\ worker[f] \in {"queued", "moving", "stopping", "telling"}
         /\ \A g \in TFiles \ {f} : worker'[g] = worker[g]
         /\ UNCHANGED <<tkind, tphase, batch, caller>>
<1> USE TrackerAssumption DEF TrackerTypeOK, HolderInv, WorkerStates
<1>1. \A s : Becomes(f, s) => \A g \in TFiles \ {f} : worker'[g] = worker[g]
  BY DEF Becomes
<1>2. CASE Begin(f) \/ BeginGone(f)
  BY <1>1, <1>2 DEF Begin, BeginGone, Active
<1>3. CASE Track(f)
  BY <1>1, <1>3 DEF Track, Active
<1>4. CASE TrackAnswered(f)
  BY <1>1, <1>4 DEF TrackAnswered
<1>5. CASE FinishUpload(f) \/ Finish(f) \/ Fail(f)
  BY <1>1, <1>5 DEF FinishUpload, Finish, Fail, Active, Finishes
<1> QED
  BY <1>2, <1>3, <1>4, <1>5

(* Every step keeps the asset roots that are over, under way and to come   *)
(* apart.                                                                  *)
LEMMA BatchStep ==
  ASSUME TrackerTypeOK, HolderInv, BatchInv, TrackerNext
  PROVE  BatchInv'
<1> USE TrackerAssumption DEF TrackerTypeOK, BatchInv, Collected, counters, historyT
<1>1. CASE StartTracking
  BY <1>1 DEF StartTracking
<1>2. ASSUME NEW f \in TFiles, Transfer(f) PROVE BatchInv'
  <2>1. /\ tphase = "running" /\ BatchOf[f] = batch /\ worker[f] # "counted"
        /\ \A g \in TFiles \ {f} : worker'[g] = worker[g]
        /\ UNCHANGED <<tkind, tphase, batch, caller>>
    BY <1>2, TaskMoves DEF Transfer
  <2>2. caller \notin {"final", "finishing", "check"}
    BY <2>1
  <2> QED
    BY <2>1, <2>2
<1>3. ASSUME NEW f \in TFiles, Collect(f) PROVE BatchInv'
  <2>1. worker'[f] = "counted" /\ \A g \in TFiles \ {f} : worker'[g] = worker[g]
    BY <1>3, BecomesType DEF Collect, WorkerStates
  <2> QED
    BY <1>3, <2>1 DEF Collect, Active
<1>4. ASSUME NEW f \in TFiles, CollectFailure(f) PROVE BatchInv'
  BY <1>4 DEF CollectFailure, Active
<1>5. CASE Report
  BY <1>5 DEF Report
<1>6. CASE ReportAnswered
  BY <1>6 DEF ReportAnswered, HolderInv
<1>7. ASSUME Leave, Collected, tphase = "running", caller \in {"collect", "check"},
             UNCHANGED <<worker, holder>>
      PROVE  BatchInv'
  <2>1. CASE batch < Batches
    <3>1. batch' = batch + 1 /\ caller' = "collect" /\ tphase' = tphase
      BY <1>7, <2>1 DEF Leave
    <3>2. \A f \in TFiles : BatchOf[f] < batch' => worker'[f] = "counted"
      BY <1>7, <3>1
    <3> QED
      BY <1>7, <3>1, <3>2
  <2>2. CASE ~(batch < Batches)
    <3>1. batch' = batch /\ caller' = "over" /\ tphase' = "returned" /\ batch = Batches
      BY <1>7, <2>2 DEF Leave
    <3>2. holder = Nobody
      BY <1>7 DEF HolderInv
    <3> QED
      BY <1>7, <3>1, <3>2
  <2> QED
    BY <2>1, <2>2
<1>8. CASE BatchDone
  BY <1>7, <1>8 DEF BatchDone
<1>9. CASE LastCheck
  BY <1>7, <1>9 DEF LastCheck
<1>10. CASE Drained
  BY <1>10 DEF Drained
<1> QED
  BY <1>1, <1>2, <1>3, <1>4, <1>5, <1>6, <1>8, <1>9, <1>10 DEF TrackerNext

(* The files that were not begun when the answer was No stay so, or fail.  *)
LEMMA PendingStep ==
  ASSUME TrackerTypeOK, HolderInv, PendingInv, TrackerNext
  PROVE  PendingInv'
<1> USE TrackerAssumption DEF TrackerTypeOK, PendingInv, counters, historyT
<1>1. ASSUME UNCHANGED <<tkind, worker>>, UNCHANGED <<refused, pending>> PROVE PendingInv'
  BY <1>1
<1>2. CASE StartTracking \/ BatchDone \/ LastCheck \/ Drained \/ Report
  BY <1>1, <1>2 DEF StartTracking, BatchDone, LastCheck, Drained, Report
<1>3. ASSUME NEW f \in TFiles, NEW s \in WorkerStates, Becomes(f, s),
             UNCHANGED <<tkind, refused, pending>>,
             tkind = "hash" => worker[f] # "queued" /\ worker[f] # "failed"
      PROVE  PendingInv'
  BY <1>3, BecomesType
<1>4. ASSUME NEW f \in TFiles, Begin(f) PROVE PendingInv'
  <2>1. PICK s \in BeginsAs(f) : Becomes(f, s)
    BY <1>4 DEF Begin
  <2>2. s \in WorkerStates
    BY DEF BeginsAs, WorkerStates
  <2>3. CASE tkind = "hash" /\ refused
    <3>1. s = "failed"
      BY <2>3 DEF BeginsAs, HolderInv
    <3> QED
      BY <1>4, <2>1, <2>2, <3>1, BecomesType DEF Begin
  <2>4. CASE tkind # "hash" \/ ~refused
    BY <1>4, <2>4 DEF Begin
  <2> QED
    BY <2>3, <2>4
<1>5. ASSUME NEW f \in TFiles, BeginGone(f) PROVE PendingInv'
  BY <1>5 DEF BeginGone
<1>6. ASSUME NEW f \in TFiles, Track(f) PROVE PendingInv'
  BY <1>6 DEF Track
<1>7. ASSUME NEW f \in TFiles, FinishUpload(f) \/ Finish(f) \/ Fail(f) PROVE PendingInv'
  <2>1. PICK s \in WorkerStates : Becomes(f, s)
    BY <1>7 DEF FinishUpload, Finish, Fail, WorkerStates
  <2> QED
    BY <1>3, <1>7, <2>1 DEF FinishUpload, Finish, Fail, Finishes
<1>8. ASSUME NEW f \in TFiles, Collect(f) PROVE PendingInv'
  BY <1>3, <1>8 DEF Collect, WorkerStates
<1>9. ASSUME NEW f \in TFiles, CollectFailure(f) PROVE PendingInv'
  BY <1>1, <1>9 DEF CollectFailure
<1>10. ASSUME Yes \/ No \/ Raises, holder # Nobody, UNCHANGED tkind,
              \A g \in TFiles : worker[g] = "queued" => worker'[g] = "queued"
       PROVE  PendingInv'
  <2>1. pending = {} /\ ~refused
    BY <1>10 DEF HolderInv
  <2>2. CASE reporting' = reporting /\ refused' = refused /\ pending' = pending
    BY <2>1, <2>2
  <2>3. CASE reporting' = FALSE /\ refused' = TRUE /\ pending' = {g \in TFiles : worker[g] = "queued"}
    BY <1>10, <2>3
  <2> QED
    BY <1>10, <2>2, <2>3, AnswerKeeps, Zenon
<1>11. ASSUME NEW f \in TFiles, TrackAnswered(f) PROVE PendingInv'
  <2>1. worker[f] = "telling" /\ \A g \in TFiles \ {f} : worker'[g] = worker[g]
    BY <1>11 DEF TrackAnswered, Becomes, HolderInv
  <2> QED
    BY <1>10, <1>11, <2>1 DEF TrackAnswered
<1>12. CASE ReportAnswered
  BY <1>10, <1>12 DEF ReportAnswered
<1> QED
  BY <1>2, <1>4, <1>5, <1>6, <1>7, <1>8, <1>9, <1>11, <1>12 DEF TrackerNext, Transfer

(* Nobody returns from a call that was refused, but for the exceptions.    *)
LEMMA FinalStep ==
  ASSUME TrackerInv, HolderInv', BatchInv', PendingInv', TrackerNext
  PROVE  NoIsFinal'
<1> USE TrackerAssumption DEF TrackerInv, TrackerTypeOK
<1>1. refused' => holder' = Nobody
  BY DEF HolderInv
<1>2. CASE tphase' # "returned"
  BY <1>1, <1>2 DEF NoIsFinal
<1>3. CASE tphase' = "returned" /\ tphase = "returned"
  <2>1. holder = Nobody /\ Caller # Nobody
    BY <1>3 DEF BatchInv
  <2>2. UNCHANGED <<tkind, refused, pending>>
    BY <1>3, <2>1 DEF TrackerNext, Transfer, StartTracking, Begin, BeginGone, Track, TrackAnswered,
       FinishUpload, Finish, Fail, Collect, CollectFailure, Report, ReportAnswered, BatchDone,
       LastCheck, Drained, Active, historyT
  <2> QED
    BY <1>1, <1>3, <2>2 DEF NoIsFinal
<1>4. CASE tphase' = "returned" /\ tphase # "returned"
  <2>1. BatchDone \/ LastCheck
    BY <1>4 DEF TrackerNext, Transfer, StartTracking, Begin, BeginGone, Track, TrackAnswered,
       FinishUpload, Finish, Fail, Collect, CollectFailure, Report, ReportAnswered, Drained
  <2>2. UNCHANGED <<tkind, refused, pending>>
    BY <2>1 DEF BatchDone, LastCheck, historyT
  <2>3. CASE tkind = "hash"
    <3>1. \A f \in TFiles : worker'[f] = "counted"
      BY <1>4 DEF BatchInv, Collected
    <3>2. worker' = worker
      BY <2>1 DEF BatchDone, LastCheck
    <3>3. pending = {}
      BY <2>3, <3>1, <3>2 DEF PendingInv
    <3> QED
      BY <1>1, <2>2, <2>3, <3>3 DEF NoIsFinal
  <2>4. CASE tkind = "download"
    BY <1>1, <2>2, <2>4 DEF NoIsFinal
  <2>5. CASE tkind \in {"upload", "snapshot"}
    <3>1. LastCheck
      BY <1>4, <2>1, <2>5 DEF BatchDone
    <3>2. reporting
      BY <1>4, <2>5, <3>1 DEF LastCheck, Cancels
    <3> QED
      BY <2>2, <3>2 DEF HolderInv, NoIsFinal
  <2> QED
    BY <2>3, <2>4, <2>5
<1> QED
  BY <1>2, <1>3, <1>4

(* Every step of the tracker keeps the invariant.                          *)
LEMMA NextTrackerInv == TrackerInv /\ [TrackerNext]_trackerVars => TrackerInv'
<1>1. ASSUME TrackerInv, TrackerNext PROVE TrackerInv'
  <2>1. TrackerTypeOK' /\ HolderInv' /\ BatchInv' /\ PendingInv'
    BY <1>1, TrackerTypeStep, HolderStep, BatchStep, PendingStep DEF TrackerInv
  <2> QED
    BY <1>1, <2>1, FinalStep DEF TrackerInv
<1>2. TrackerInv /\ UNCHANGED trackerVars => TrackerInv'
  BY DEF TrackerInv, TrackerTypeOK, HolderInv, BatchInv, Collected, PendingInv, NoIsFinal,
         trackerVars, counters, historyT
<1> QED
  BY <1>1, <1>2

(* Every reachable state of the tracker is well typed.                     *)
THEOREM TrackerTyped == TrackerSpec => []TrackerTypeOK
<1>1. TrackerInv => TrackerTypeOK
  BY DEF TrackerInv
<1> QED
  BY <1>1, InitTrackerInv, NextTrackerInv, PTL DEF TrackerSpec

(* A No is final, whichever thread got it and whatever the others are at.  *)
THEOREM NoStaysNo == TrackerSpec => []NoIsFinal
<1>1. TrackerInv => NoIsFinal
  BY DEF TrackerInv
<1> QED
  BY <1>1, InitTrackerInv, NextTrackerInv, PTL DEF TrackerSpec

-----------------------------------------------------------------------------
(* The counters.  A file is done when it is counted; one that is uploaded, *)
(* or gone, is done when its task has finished.                            *)
Done == {f \in TFiles : worker[f] = "counted" \/ (tkind = "upload" /\ worker[f] = "new")}

CountInv ==
  tkind # "snapshot" =>
    /\ gone \subseteq Done /\ (tkind # "upload" => gone = {})
    /\ Completed + Cardinality(gone) = Cardinality(Done)

(* Hashing owes a report once all is counted; the others make one before   *)
(* they look at the answer for the last time.                              *)
Owed == caller \in {"report", "reporting", "drain"} \/ tphase = "raised"

ShownInv ==
  ~refused /\ TFiles # {} =>
    /\ tkind = "hash" /\ Completed = Total => shown = Total \/ Owed
    /\ /\ tkind \in {"upload", "download"} /\ gone = {} /\ batch = Batches
       /\ caller = "check" \/ tphase = "returned"
       => shown = Total

ReportInv == TrackerInv /\ CountInv /\ ShownInv

(* The files that are done, and all files, can be counted.                 *)
LEMMA Counting ==
  ASSUME TrackerTypeOK
  PROVE  /\ IsFiniteSet(Done) /\ IsFiniteSet(gone) /\ IsFiniteSet(TFiles)
         /\ Cardinality(Done) \in Nat /\ Cardinality(gone) \in Nat /\ Total \in Nat
         /\ Total = 0 <=> TFiles = {}
<1>1. IsFiniteSet(TFiles) /\ Done \subseteq TFiles /\ gone \subseteq TFiles
  BY TrackerAssumption DEF TrackerTypeOK, Done
<1>2. IsFiniteSet(Done) /\ IsFiniteSet(gone)
  BY <1>1, FS_Subset
<1> QED
  BY <1>1, <1>2, FS_CardinalityType, FS_EmptySet DEF Total

(* Before the operation nothing has to be shown.                           *)
LEMMA InitReportInv == TrackerInit => ReportInv
<1> SUFFICES ASSUME TrackerInit PROVE ReportInv
  OBVIOUS
<1>1. TrackerInv
  BY InitTrackerInv
<1>2. Done = {} /\ gone = {} /\ Completed = 0
  BY DEF TrackerInit, Done, Completed
<1>3. Cardinality({}) = 0
  BY FS_EmptySet
<1>4. CountInv
  BY <1>2, <1>3 DEF CountInv
<1>5. ShownInv
  BY <1>1, <1>2, Counting DEF ShownInv, TrackerInv, TrackerInit
<1> QED
  BY <1>1, <1>4, <1>5 DEF ReportInv

(* One more file is done, and counted.                                     *)
LEMMA CountOne ==
  ASSUME TrackerTypeOK, CountInv, tkind # "snapshot", UNCHANGED <<tkind, gone>>,
         NEW f \in TFiles, f \notin Done, Done' = Done \cup {f},
         processed' \in Nat, skipped' \in Nat, Completed' = Completed + 1
  PROVE  CountInv'
<1>1. Cardinality(Done') = Cardinality(Done) + 1
  BY Counting, FS_AddElement
<1>2. Completed \in Nat
  BY DEF TrackerTypeOK, Completed
<1> QED
  BY <1>1, <1>2, Counting DEF CountInv

(* Every step keeps the counters equal to the numbers of files counted.    *)
LEMMA CountStep ==
  ASSUME TrackerTypeOK, HolderInv, BatchInv, CountInv, TrackerTypeOK', TrackerNext
  PROVE  CountInv'
<1> USE TrackerAssumption DEF counters, historyT
<1>1. ASSUME UNCHANGED <<tkind, gone, processed, skipped>>, Done' = Done PROVE CountInv'
  BY <1>1 DEF CountInv, Completed
<1>2. ASSUME UNCHANGED <<tkind, gone, processed, skipped, worker>> PROVE CountInv'
  BY <1>1, <1>2 DEF Done
<1>3. CASE StartTracking \/ BatchDone \/ LastCheck \/ Drained \/ Report
  BY <1>2, <1>3 DEF StartTracking, BatchDone, LastCheck, Drained, Report
<1>4. CASE ReportAnswered
  BY <1>2, <1>4, AnswerKeeps DEF ReportAnswered
<1>5. ASSUME NEW f \in TFiles, CollectFailure(f) PROVE CountInv'
  BY <1>2, <1>5 DEF CollectFailure
<1>6. ASSUME NEW f \in TFiles, NEW s \in WorkerStates, Becomes(f, s),
             worker[f] # "counted", s # "counted",
             tkind = "upload" => worker[f] # "new" /\ s # "new",
             UNCHANGED <<tkind, gone, processed, skipped>>
      PROVE  CountInv'
  <2>1. Done' = Done
    BY <1>6, BecomesType DEF Done
  <2> QED
    BY <1>1, <1>6, <2>1
<1>7. ASSUME NEW f \in TFiles, Begin(f) PROVE CountInv'
  <2>1. PICK s \in BeginsAs(f) : Becomes(f, s)
    BY <1>7 DEF Begin
  <2>2. s \in WorkerStates /\ s \notin {"new", "counted"}
    BY DEF BeginsAs, WorkerStates
  <2> QED
    BY <1>6, <1>7, <2>1, <2>2 DEF Begin
<1>8. ASSUME NEW f \in TFiles, BeginGone(f) PROVE CountInv'
  <2>1. /\ worker'[f] = "new" /\ \A g \in TFiles \ {f} : worker'[g] = worker[g]
        /\ worker[f] = "queued" /\ tkind = "upload" /\ tkind' = tkind
        /\ gone' = gone \cup {f} /\ UNCHANGED <<processed, skipped>>
    BY <1>8, BecomesType DEF BeginGone, WorkerStates
  <2>2. Done' = Done \cup {f} /\ f \notin Done
    BY <2>1 DEF Done
  <2>3. f \notin gone
    BY <2>1, <2>2 DEF CountInv
  <2>4. Cardinality(Done') = Cardinality(Done) + 1
    BY <2>2, Counting, FS_AddElement
  <2>5. Cardinality(gone') = Cardinality(gone) + 1
    BY <2>1, <2>3, Counting, FS_AddElement
  <2>6. Completed' = Completed /\ Completed \in Nat
    BY <2>1 DEF Completed, TrackerTypeOK
  <2> QED
    BY <2>1, <2>2, <2>4, <2>5, <2>6, Counting DEF CountInv
<1>9. ASSUME NEW f \in TFiles, Track(f) PROVE CountInv'
  <2>1. CASE tkind = "snapshot"
    BY <1>9, <2>1 DEF Track, CountInv
  <2>2. CASE tkind # "snapshot"
    <3>1. PICK s \in {"telling", "moving", "stopping"} : Becomes(f, s)
      BY <1>9, <2>2 DEF Track, Heeded
    <3> QED
      BY <1>6, <1>9, <3>1 DEF Track, WorkerStates
  <2> QED
    BY <2>1, <2>2
<1>10. ASSUME NEW f \in TFiles, TrackAnswered(f) PROVE CountInv'
  <2>1. UNCHANGED <<tkind, gone, processed, skipped>>
    BY <1>10, AnswerKeeps DEF TrackAnswered
  <2>2. CASE tkind = "snapshot"
    BY <2>1, <2>2 DEF CountInv
  <2>3. CASE tkind # "snapshot"
    <3>1. PICK s \in {"failed", "moving", "stopping"} : Becomes(f, s)
      BY <1>10, <2>3 DEF TrackAnswered, Heeded
    <3>2. worker[f] = "telling"
      BY <1>10 DEF TrackAnswered, HolderInv
    <3> QED
      BY <1>6, <2>1, <3>1, <3>2 DEF WorkerStates
  <2> QED
    BY <2>2, <2>3
<1>11. ASSUME NEW f \in TFiles, FinishUpload(f) PROVE CountInv'
  <2>1. /\ worker'[f] = "new" /\ \A g \in TFiles \ {f} : worker'[g] = worker[g]
        /\ worker[f] \in {"moving", "stopping"} /\ tkind = "upload" /\ UNCHANGED <<tkind, gone>>
        /\ processed' = processed + 1 /\ skipped' = skipped
    BY <1>11, BecomesType DEF FinishUpload, Finishes, WorkerStates
  <2>2. Done' = Done \cup {f} /\ f \notin Done
    BY <2>1 DEF Done
  <2>3. Completed' = Completed + 1
    BY <2>1 DEF Completed, TrackerTypeOK
  <2> QED
    BY <2>1, <2>2, <2>3, CountOne DEF TrackerTypeOK
<1>12. ASSUME NEW f \in TFiles, Finish(f) PROVE CountInv'
  <2>1. PICK s \in {"new", "skipped"} : Becomes(f, s)
    BY <1>12 DEF Finish
  <2> QED
    BY <1>6, <1>12, <2>1 DEF Finish, Finishes, WorkerStates
<1>13. ASSUME NEW f \in TFiles, Fail(f) PROVE CountInv'
  BY <1>6, <1>13 DEF Fail, WorkerStates
<1>14. ASSUME NEW f \in TFiles, Collect(f) PROVE CountInv'
  <2>1. /\ worker'[f] = "counted" /\ \A g \in TFiles \ {f} : worker'[g] = worker[g]
        /\ worker[f] \in {"new", "skipped"} /\ UNCHANGED <<tkind, gone>>
    BY <1>14, BecomesType DEF Collect, WorkerStates
  <2>2. CASE CountsProcessed(f) \/ CountsSkipped(f)
    <3>1. Completed' = Completed + 1
      <4>1. \/ processed' = processed + 1 /\ skipped' = skipped
            \/ skipped' = skipped + 1 /\ processed' = processed
        BY <1>14, <2>2 DEF Collect
      <4>2. processed \in Nat /\ skipped \in Nat
        BY DEF TrackerTypeOK
      <4> QED
        BY <4>1, <4>2 DEF Completed
    <3>2. Done' = Done \cup {f} /\ f \notin Done
      BY <2>1, <2>2 DEF Done, CountsProcessed, CountsSkipped
    <3>3. tkind # "snapshot"
      BY <2>2 DEF CountsProcessed, CountsSkipped
    <3> QED
      BY <2>1, <3>1, <3>2, <3>3, CountOne DEF TrackerTypeOK
  <2>3. CASE ~CountsProcessed(f) /\ ~CountsSkipped(f)
    <3>1. UNCHANGED <<processed, skipped>>
      BY <1>14, <2>3 DEF Collect
    <3>2. CASE tkind = "snapshot"
      BY <2>1, <3>2 DEF CountInv
    <3>3. CASE tkind # "snapshot"
      <4>1. tkind = "upload" /\ worker[f] = "new"
        BY <2>1, <2>3, <3>3, TrackerAssumption DEF CountsProcessed, CountsSkipped, TrackerTypeOK
      <4>2. Done' = Done
        BY <2>1, <4>1 DEF Done
      <4> QED
        BY <1>1, <2>1, <3>1, <4>2
    <3> QED
      BY <3>2, <3>3
  <2> QED
    BY <2>2, <2>3
<1> QED
  BY <1>3, <1>4, <1>5, <1>7, <1>8, <1>9, <1>10, <1>11, <1>12, <1>13, <1>14
     DEF TrackerNext, Transfer

(* All files are done when the caller is through with the last root.       *)
LEMMA AllDone ==
  ASSUME TrackerTypeOK, CountInv, tkind # "snapshot", \A f \in TFiles : worker[f] = "counted"
  PROVE  Completed + Cardinality(gone) = Total
<1>1. Done = TFiles
  BY DEF Done
<1> QED
  BY <1>1 DEF CountInv, Total

(* When the last asset root is collected, every file was counted.          *)
LEMMA LastRoot ==
  ASSUME TrackerTypeOK, BatchInv, Collected, batch = Batches
  PROVE  \A f \in TFiles : worker[f] = "counted"
BY TrackerAssumption DEF TrackerTypeOK, BatchInv, Collected

(* Once all files are counted the last report shows them all, or it is     *)
(* still owed: every step keeps this.                                      *)
LEMMA ShownStep ==
  ASSUME ReportInv, TrackerInv', TrackerNext
  PROVE  ShownInv'
<1> USE TrackerAssumption DEF ReportInv, TrackerInv, counters, historyT
<1>1. SUFFICES ASSUME ~refused', TFiles # {}
               PROVE  /\ tkind' = "hash" /\ Completed' = Total => shown' = Total \/ Owed'
                      /\ /\ tkind' \in {"upload", "download"} /\ gone' = {} /\ batch' = Batches
                         /\ caller' = "check" \/ tphase' = "returned"
                         => shown' = Total
  BY DEF ShownInv, Total
<1>2. ~refused /\ tkind' = tkind
  <2>1. refused => refused'
    BY AnswerKeeps, Zenon DEF TrackerNext, Transfer, StartTracking, Begin, BeginGone, Track,
       TrackAnswered, FinishUpload, Finish, Fail, Collect, CollectFailure, Report, ReportAnswered,
       BatchDone, LastCheck, Drained
  <2>2. tkind' = tkind
    BY DEF TrackerNext, Transfer, StartTracking, Begin, BeginGone, Track,
       TrackAnswered, FinishUpload, Finish, Fail, Collect, CollectFailure, Report, ReportAnswered,
       BatchDone, LastCheck, Drained
  <2> QED
    BY <1>1, <2>1, <2>2
<1> DEFINE Owes == tkind' = "hash" /\ Completed' = Total => shown' = Total \/ Owed'
           Told == /\ tkind' \in {"upload", "download"} /\ gone' = {} /\ batch' = Batches
                   /\ caller' = "check" \/ tphase' = "returned"
                   => shown' = Total
<1>3. tkind = "hash" /\ Completed = Total => shown = Total \/ Owed
  BY <1>1, <1>2 DEF ShownInv
<1>4. tkind \in {"upload", "download"} /\ batch = Batches /\ Collected /\ gone = {}
      => Completed = Total
  <2>1. Cardinality({}) = 0
    BY FS_EmptySet
  <2>2. Completed \in Nat
    BY DEF TrackerTypeOK, Completed
  <2> QED
    BY <2>1, <2>2, LastRoot, AllDone
<1>5. CASE StartTracking
  BY <1>1, <1>2, <1>3, <1>5 DEF StartTracking, ShownInv, Owed, Completed
<1>6. ASSUME NEW f \in TFiles, Transfer(f) PROVE Owes /\ Told
  <2>1. tphase = "running" /\ BatchOf[f] = batch /\ worker[f] # "counted"
        /\ UNCHANGED <<tphase, batch, caller>>
    BY <1>6, TaskMoves DEF Transfer
  <2>2. Told
    BY <2>1 DEF BatchInv, Collected
  <2>3. ASSUME tkind = "hash"
        PROVE  processed' = processed /\ skipped' = skipped /\ shown' \in {shown, Completed}
    <3>1. Begin(f) \/ TrackAnswered(f) \/ Finish(f) \/ Fail(f)
      BY <1>6, <2>3 DEF Transfer, BeginGone, Track, FinishUpload
    <3>2. CASE Begin(f) \/ Finish(f) \/ Fail(f)
      BY <3>2 DEF Begin, Finish, Fail
    <3>3. CASE TrackAnswered(f)
      BY <3>3, AnswerKeeps DEF TrackAnswered
    <3> QED
      BY <3>1, <3>2, <3>3
  <2>4. Owes
    BY <1>2, <1>3, <2>1, <2>3 DEF Owed, Completed
  <2> QED
    BY <2>2, <2>4
<1>7. ASSUME NEW f \in TFiles, Collect(f) \/ CollectFailure(f) PROVE Owes /\ Told
  BY <1>2, <1>7 DEF Collect, CollectFailure, Active, Owed
<1>8. CASE Report
  <2>1. /\ reporting /\ tphase = "running" /\ caller \in {"report", "final"}
        /\ UNCHANGED <<processed, skipped, shown, gone, batch, tphase>>
    BY <1>2, <1>8 DEF Report, HolderInv
  <2>2. CASE caller' \in {"reporting", "finishing"}
    BY <1>2, <1>3, <1>8, <2>1, <2>2 DEF Report, Owed, Completed
  <2>3. CASE StaySilent(timed) /\ caller' = IF caller = "report" THEN "collect" ELSE "check"
    <3>1. Completed # Total
      BY <2>1, <2>3 DEF StaySilent, MayReport, Due
    <3>2. Completed' = Completed
      BY <2>1 DEF Completed
    <3>3. caller' = "check" => Collected
      BY <2>1, <2>3 DEF BatchInv
    <3> QED
      BY <1>2, <1>4, <2>1, <3>1, <3>2, <3>3
  <2> QED
    BY <1>8, <2>2, <2>3 DEF Report
<1>9. CASE ReportAnswered
  <2>1. /\ tphase = "running" /\ caller \in {"reporting", "finishing"}
        /\ UNCHANGED <<gone, batch>>
    BY <1>9 DEF ReportAnswered, HolderInv
  <2>2. CASE Yes /\ caller' = (IF caller = "reporting" THEN "collect" ELSE "check") /\ UNCHANGED tphase
    <3>1. shown' = Completed /\ processed' = processed /\ skipped' = skipped
      BY <2>2 DEF Yes, Answered
    <3>2. Completed' = Completed
      BY <3>1 DEF Completed
    <3>3. caller' = "check" => Collected
      BY <2>1, <2>2 DEF BatchInv
    <3> QED
      BY <1>2, <1>4, <2>1, <2>2, <3>1, <3>2, <3>3
  <2>3. CASE No
    BY <1>1, <2>3 DEF No
  <2>4. CASE Raises /\ IF caller = "reporting" THEN caller' = "drain" /\ UNCHANGED tphase
                                               ELSE caller' = "over" /\ tphase' = "raised"
    BY <2>1, <2>4 DEF Owed
  <2> QED
    BY <1>9, <2>2, <2>3, <2>4 DEF ReportAnswered
<1>10. CASE BatchDone
  <2>1. UNCHANGED <<processed, skipped, shown, gone>> /\ ~Owed
    BY <1>10 DEF BatchDone, Owed
  <2>2. Owes
    BY <1>2, <1>3, <2>1 DEF Completed
  <2>3. Told
    BY <1>2, <1>10 DEF BatchDone
  <2> QED
    BY <2>2, <2>3
<1>11. CASE LastCheck
  <2>1. UNCHANGED <<processed, skipped, shown, gone>> /\ ~Owed
    BY <1>11 DEF LastCheck, Owed
  <2>2. Owes
    BY <1>2, <1>3, <2>1 DEF Completed
  <2>3. batch < Batches => tphase' # "returned" /\ caller' # "check"
    BY <1>11 DEF LastCheck, Leave
  <2>4. batch' = Batches /\ ~(batch < Batches) => batch = Batches
    BY DEF TrackerTypeOK
  <2>5. batch' = batch \/ batch < Batches
    BY <1>11 DEF LastCheck, Leave
  <2>6. Told
    BY <1>1, <1>2, <1>11, <2>1, <2>3, <2>4, <2>5 DEF ShownInv, LastCheck
  <2> QED
    BY <2>2, <2>6
<1>12. CASE Drained
  BY <1>12 DEF Drained, Owed
<1> QED
  BY <1>5, <1>6, <1>7, <1>8, <1>9, <1>10, <1>11, <1>12 DEF TrackerNext

(* Every step keeps the invariant of the reports.                          *)
LEMMA NextReportInv == ReportInv /\ [TrackerNext]_trackerVars => ReportInv'
<1>1. ASSUME ReportInv, TrackerNext PROVE ReportInv'
  <2>1. TrackerInv'
    BY <1>1, NextTrackerInv DEF ReportInv
  <2>2. CountInv'
    BY <1>1, <2>1, CountStep DEF ReportInv, TrackerInv
  <2>3. ShownInv'
    BY <1>1, <2>1, ShownStep DEF ReportInv
  <2> QED
    BY <2>1, <2>2, <2>3 DEF ReportInv
<1>2. ASSUME ReportInv, UNCHANGED trackerVars PROVE ReportInv'
  <2>1. TrackerInv'
    BY <1>2, NextTrackerInv DEF ReportInv
  <2>2. CountInv' /\ ShownInv'
    BY <1>2 DEF ReportInv, CountInv, Done, ShownInv, Owed, Completed, Total, trackerVars, counters, historyT
  <2> QED
    BY <2>1, <2>2 DEF ReportInv
<1> QED
  BY <1>1, <1>2

(* A call that returns has counted every file once, and has shown the user *)
(* all of them, unless the user wanted no more or files had vanished.      *)
THEOREM EverythingReported == TrackerSpec => []AllReported
<1>1. ReportInv => AllReported
  <2> SUFFICES ASSUME ReportInv, tphase = "returned", tkind # "snapshot", TFiles # {}
               PROVE  /\ Completed + Cardinality(gone) = Total
                      /\ ~refused /\ gone = {} => shown = Total
    BY DEF AllReported
  <2> USE DEF ReportInv, TrackerInv
  <2>1. Collected /\ batch = Batches /\ caller = "over"
    BY DEF BatchInv
  <2>2. Completed + Cardinality(gone) = Total
    BY <2>1, LastRoot, AllDone
  <2>3. CASE tkind = "hash" /\ ~refused /\ gone = {}
    <3>1. Cardinality({}) = 0 /\ Completed \in Nat
      BY FS_EmptySet DEF TrackerTypeOK, Completed
    <3>2. Completed = Total
      BY <2>2, <2>3, <3>1
    <3> QED
      BY <2>1, <2>2, <2>3, <3>2 DEF ShownInv, Owed
  <2>4. CASE tkind # "hash" /\ ~refused /\ gone = {}
    <3>1. tkind \in {"upload", "download"}
      BY <2>4, TrackerAssumption DEF TrackerTypeOK
    <3> QED
      BY <2>1, <2>2, <2>4, <3>1 DEF ShownInv
  <2> QED
    BY <2>2, <2>3, <2>4
<1> QED
  BY <1>1, InitReportInv, NextReportInv, PTL DEF TrackerSpec
=============================================================================
