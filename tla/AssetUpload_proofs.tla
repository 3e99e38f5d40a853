------------------------- MODULE AssetUpload_proofs -------------------------
(* Theorems about AssetUpload for every set of submissions, files and      *)
(* keys, every pool size and every sample limit.                           *)
EXTENDS AssetUpload, TLAPS

(* At first the variables have their types.                                *)
LEMMA InitTypeOK == Init => TypeOK
  BY ConstantsAssumption DEF Init, TypeOK, ConstantsAssumption

(* Every step keeps the types.                                             *)
LEMMA NextTypeOK == TypeOK /\ [Next]_vars => TypeOK'
<1> SUFFICES ASSUME TypeOK, [Next]_vars PROVE TypeOK'
  OBVIOUS
<1> USE ConstantsAssumption DEF TypeOK, ConstantsAssumption, Goto, Step, Running,
        Ended, Active, Raised, cacheVars, histVars, LookupVars, MainVars, KeysOf,
        SmallOf, LargeOf, CloseCache
<1>1. ASSUME NEW s \in Subs, Main(s) PROVE TypeOK'
  <2>1. CASE UploadManifest(s)  BY <2>1 DEF UploadManifest
  <2>2. CASE SampleCache(s)     BY <2>2 DEF SampleCache, Connect, Dial
  <2>3. CASE CheckSample(s)
    <3>1. PICK k \in sample[s] :
             \/ /\ sample' = [sample EXCEPT ![s] = @ \ {k}]
                /\ UNCHANGED phase
             \/ /\ sample' = [sample EXCEPT ![s] = {}]
                /\ Goto(s, "reset")
      BY <2>3 DEF CheckSample
    <3>2. sample' \in [Subs -> SUBSET Keys]
      BY <3>1
    <3>3. phase' \in [Subs -> {"idle"} \cup Running \cup Ended]
      BY <3>1
    <3> QED BY <2>3, <3>2, <3>3 DEF CheckSample
  <2>4. CASE SampleVerified(s)  BY <2>4 DEF SampleVerified
  <2>5. CASE ResetOpen(s)       BY <2>5 DEF ResetOpen, Connect, Dial
  <2>6. CASE RemoveCache(s)     BY <2>6 DEF RemoveCache
  <2>7. CASE OpenCache(s)       BY <2>7 DEF OpenCache, Connect, Dial
  <2>8. CASE CacheFails(s)      BY <2>8 DEF CacheFails
  <2>9. CASE RaiseSmall(s)      BY <2>9 DEF RaiseSmall
  <2>10. CASE Drained(s)        BY <2>10 DEF Drained
  <2>11. CASE SmallDone(s)      BY <2>11 DEF SmallDone
  <2>12. CASE RaiseLarge(s)     BY <2>12 DEF RaiseLarge
  <2>13. CASE Finish(s)
    <3>1. PICK c \in {continue[s], FALSE} :
             /\ continue' = [continue EXCEPT ![s] = c]
             /\ Goto(s, Outcome(c))
      BY <2>13 DEF Finish
    <3>2. Outcome(c) \in {"ok", "cancelled"}
      BY DEF Outcome
    <3>3. continue' \in [Subs -> BOOLEAN]
      BY <3>1
    <3>4. phase' \in [Subs -> {"idle"} \cup Running \cup Ended]
      BY <3>1, <3>2
    <3> QED BY <2>13, <3>3, <3>4 DEF Finish
  <2> QED BY <1>1, <2>1, <2>2, <2>3, <2>4, <2>5, <2>6, <2>7, <2>8, <2>9, <2>10,
             <2>11, <2>12, <2>13 DEF Main
<1>2. ASSUME NEW s \in Subs, NEW f \in Files, Upload(s, f) PROVE TypeOK'
  <2>1. CASE Lookup(s, f)
    <3>1. CASE \E t \in {"head", "failed"} : Step(s, f, t) /\ UNCHANGED <<locals, dbFile, used>>
      BY <2>1, <3>1 DEF Lookup
    <3>2. ASSUME NEW d \in Dbs, Consults(s, d), Step(s, f, AfterLookup(d, f))
          PROVE  TypeOK'
      <4>1. AfterLookup(d, f) \in {"failed", "done", "head"}
        BY DEF AfterLookup
      <4>2. locals' \in [Subs -> SUBSET Dbs] /\ dbFile' \in Dbs \cup {NoDb} /\ used' \subseteq Dbs
        BY <3>2 DEF Consults, Dial
      <4> QED BY <2>1, <3>2, <4>1, <4>2 DEF Lookup
    <3> QED BY <2>1, <3>1, <3>2 DEF Lookup
  <2>2. CASE Head(s, f)
    <3>1. PICK t \in {"put", "upload", "failed"} : Step(s, f, t)
      BY <2>2 DEF Head
    <3> QED BY <2>2, <3>1 DEF Head
  <2>3. CASE OpenFile(s, f)       BY <2>3 DEF OpenFile, AfterOpen
  <2>4. CASE EndTransfer(s, f)
    <3>1. PICK c \in {continue[s], FALSE} : continue' = [continue EXCEPT ![s] = c]
      BY <2>4 DEF EndTransfer
    <3>2. continue' \in [Subs -> BOOLEAN]
      BY <3>1
    <3>3. store' \in [Keys -> Keys \cup {NoObject}] /\ seen' \subseteq Keys
      BY <2>4 DEF EndTransfer
    <3>4. task' \in [Subs -> [Files -> {"queued", "done"} \cup Active \cup Raised]]
      BY <2>4 DEF EndTransfer
    <3> QED BY <2>4, <3>2, <3>3, <3>4 DEF EndTransfer
  <2>5. CASE CancelTransfer(s, f) BY <2>5 DEF CancelTransfer
  <2>6. CASE FailTransfer(s, f)   BY <2>6 DEF FailTransfer
  <2>7. CASE PutEntry(s, f)
    <3>1. rows' \in [Dbs -> SUBSET Keys]
      <4>1. \/ rows' = [rows EXCEPT ![handle[s]] = @ \cup {HashOf[f]}]
            \/ rows' = rows
        BY <2>7 DEF PutEntry
      <4>2. HashOf[f] \in Keys
        OBVIOUS
      <4>3. CASE rows' = [rows EXCEPT ![handle[s]] = @ \cup {HashOf[f]}]
        BY <4>2, <4>3
      <4>4. CASE rows' = rows
        BY <4>4
      <4> QED BY <4>1, <4>3, <4>4
    <3>2. PICK t \in {"done", "failed"} : Step(s, f, t)
      BY <2>7 DEF PutEntry
    <3> QED BY <2>7, <3>1, <3>2 DEF PutEntry
  <2> QED BY <1>2, <2>1, <2>2, <2>3, <2>4, <2>5, <2>6, <2>7 DEF Upload
<1>3. ASSUME Environment PROVE TypeOK'
  <2>1. ASSUME NEW s \in Subs, Crash(s) PROVE TypeOK'
    BY <2>1 DEF Crash
  <2>2. ASSUME NEW f \in Files, Vanish(f) PROVE TypeOK'
    BY <2>2 DEF Vanish
  <2>3. ASSUME NEW f \in Files, Edit(f) PROVE TypeOK'
    BY <2>3 DEF Edit
  <2>4. ASSUME NEW k \in Keys, LoseObject(k) PROVE TypeOK'
    BY <2>4 DEF LoseObject
  <2>5. ASSUME NEW k \in Keys, ExpireEntry(k) PROVE TypeOK'
    BY <2>5 DEF ExpireEntry
  <2> QED BY <1>3, <2>1, <2>2, <2>3, <2>4, <2>5 DEF Environment
<1>4. ASSUME UNCHANGED vars PROVE TypeOK'
  BY <1>4 DEF vars
<1> QED BY <1>1, <1>2, <1>3, <1>4 DEF Next, Submission

(* Every variable of the upload model keeps its type, whatever the sets of *)
(* submissions, files and keys are.                                        *)
THEOREM TypeCorrect == Spec => []TypeOK
  BY InitTypeOK, NextTypeOK, PTL DEF Spec

-----------------------------------------------------------------------------
(* The cache only ever names objects that have been seen.                  *)

(* At first nothing is cached that was not seen.                           *)
LEMMA SeenInvInit == Init => SeenInv
  BY ConstantsAssumption DEF Init, SeenInv, CacheOnlySeen, InStore, ConstantsAssumption

(* Every step keeps it so: what goes into a cache was found in the bucket  *)
(* or put there.                                                           *)
LEMMA SeenInvNext ==
  ASSUME ~MayVanish, TypeOK, SeenInv, [Next]_vars
  PROVE  SeenInv'
<1> USE ConstantsAssumption DEF TypeOK, ConstantsAssumption, SeenInv, CacheOnlySeen,
        InStore, Goto, Step, cacheVars, histVars, LookupVars, MainVars, CloseCache
<1>1. ASSUME NEW s \in Subs, Main(s) PROVE SeenInv'
  <2>1. UNCHANGED <<task, rows, store, seen, regular>>
    BY <1>1 DEF Main, UploadManifest, SampleCache, CheckSample, SampleVerified,
       ResetOpen, RemoveCache, OpenCache, CacheFails, RaiseSmall, Drained, SmallDone,
       RaiseLarge, Finish
  <2> QED BY <2>1
<1>2. ASSUME NEW s \in Subs, NEW f \in Files, Upload(s, f) PROVE SeenInv'
  <2>1. ASSUME NEW t, Step(s, f, t), t # "put", UNCHANGED <<rows, store, seen, regular>>
        PROVE SeenInv'
    BY <2>1
  <2>2. CASE Lookup(s, f)
    BY <2>1, <2>2 DEF Lookup, AfterLookup
  <2>3. CASE Head(s, f)
    <3>1. CASE HeadSays(HashOf[f], "yes") /\ Step(s, f, "put")
      BY <2>3, <3>1 DEF Head, HeadSays
    <3>2. CASE Step(s, f, "upload")
      BY <2>1, <2>3, <3>2 DEF Head
    <3>3. CASE Step(s, f, "failed")
      BY <2>1, <2>3, <3>3 DEF Head
    <3> QED BY <2>3, <3>1, <3>2, <3>3 DEF Head
  <2>4. CASE OpenFile(s, f)
    BY <2>1, <2>4 DEF OpenFile, AfterOpen
  <2>5. CASE EndTransfer(s, f)
    BY <2>5 DEF EndTransfer
  <2>6. CASE CancelTransfer(s, f)
    BY <2>1, <2>6 DEF CancelTransfer
  <2>7. CASE FailTransfer(s, f)
    BY <2>1, <2>7 DEF FailTransfer
  <2>8. CASE PutEntry(s, f)
    <3>1. CASE /\ rows' = [rows EXCEPT ![handle[s]] = @ \cup {HashOf[f]}]
               /\ Step(s, f, "done")
      <4>1. HashOf[f] \in seen
        BY <2>8 DEF PutEntry, At
      <4>2. CacheOnlySeen'
        BY <2>8, <3>1, <4>1 DEF PutEntry
      <4> QED BY <2>8, <3>1, <4>2 DEF PutEntry
    <3>2. CASE Step(s, f, "failed") /\ UNCHANGED rows
      BY <2>1, <2>8, <3>2 DEF PutEntry
    <3> QED BY <2>8, <3>1, <3>2 DEF PutEntry
  <2> QED BY <1>2, <2>2, <2>3, <2>4, <2>5, <2>6, <2>7, <2>8 DEF Upload
<1>3. ASSUME Environment PROVE SeenInv'
  <2>1. ASSUME NEW s \in Subs, Crash(s) PROVE SeenInv'
    BY <2>1 DEF Crash
  <2>2. ASSUME NEW f \in Files, Vanish(f) \/ Edit(f) PROVE SeenInv'
    BY <2>2 DEF Vanish, Edit
  <2>3. ASSUME NEW k \in Keys, LoseObject(k) PROVE SeenInv'
    BY <2>3 DEF LoseObject
  <2>4. ASSUME NEW k \in Keys, ExpireEntry(k) PROVE SeenInv'
    BY <2>4 DEF ExpireEntry
  <2> QED BY <1>3, <2>1, <2>2, <2>3, <2>4 DEF Environment
<1>4. ASSUME UNCHANGED vars PROVE SeenInv'
  BY <1>4 DEF vars
<1> QED BY <1>1, <1>2, <1>3, <1>4 DEF Next, Submission

(* While files stay where they were hashed, the S3 check cache holds no    *)
(* key whose object was never in the bucket, however many submissions,     *)
(* failures, cancellations, crashes and cache resets there are.            *)
THEOREM CacheSound ==
  ASSUME ~MayVanish
  PROVE  Spec => []CacheOnlySeen
<1>1. TypeOK /\ SeenInv /\ [Next]_vars => SeenInv'
  BY SeenInvNext
<1>2. SeenInv => CacheOnlySeen
  BY DEF SeenInv
<1> QED BY SeenInvInit, TypeCorrect, <1>1, <1>2, PTL DEF Spec

-----------------------------------------------------------------------------
(* A submission that returns normally leaves nothing out.                  *)

(* A key that is vouched for stays so: a deletion is remembered.           *)
LEMMA BackedMonotone ==
  ASSUME TypeOK, [Next]_vars, NEW k \in Keys, Backed(k)
  PROVE  Backed(k)'
<1> USE ConstantsAssumption DEF TypeOK, ConstantsAssumption, Backed, InStore,
        cacheVars, histVars, LookupVars, MainVars
<1>1. ASSUME NEW s \in Subs, Main(s) PROVE Backed(k)'
  BY <1>1 DEF Main, UploadManifest, SampleCache, CheckSample, SampleVerified,
     ResetOpen, RemoveCache, OpenCache, CacheFails, RaiseSmall, Drained, SmallDone,
     RaiseLarge, Finish
<1>2. ASSUME NEW s \in Subs, NEW f \in Files, Upload(s, f) PROVE Backed(k)'
  BY <1>2 DEF Upload, Lookup, Head, OpenFile, EndTransfer, CancelTransfer,
     FailTransfer, PutEntry
<1>3. ASSUME Environment PROVE Backed(k)'
  BY <1>3 DEF Environment, Crash, Vanish, Edit, LoseObject, ExpireEntry
<1>4. ASSUME UNCHANGED vars PROVE Backed(k)'
  BY <1>4 DEF vars
<1> QED BY <1>1, <1>2, <1>3, <1>4 DEF Next, Submission

(* At first nothing has to be vouched for.                                 *)
LEMMA CompletenessInit == Init => CompletenessInv
<1> SUFFICES ASSUME Init PROVE CompletenessInv
  OBVIOUS
<1> USE ConstantsAssumption DEF Init, ConstantsAssumption
<1>1. DbInv
  BY DEF DbInv, Backed, InStore
<1>2. \A s \in Subs \ Forced : Trusting(s)
  BY DEF Trusting, InPool
<1>3. \A s \in Subs : Tasked(s)
  BY DEF Tasked, InPool
<1> QED BY <1>1, <1>2, <1>3 DEF CompletenessInv

(* Connecting never leads back to an incarnation that has been removed.    *)
LEMMA DialOnce ==
  ASSUME DbInv, NEW d \in Dbs, Dial(d)
  PROVE  /\ InitDb \in used' /\ dbFile' \in used' /\ dbFile' = d
         /\ dbFile' = InitDb => dbFile = InitDb
  BY ConstantsAssumption DEF Dial, DbInv, ConstantsAssumption

(* What the steps change that CompletenessInv speaks of.                   *)
LEMMA RowsStep ==
  ASSUME TypeOK, CompletenessInv, [Next]_vars
  PROVE  /\ \A d \in Dbs : \A k \in rows'[d] : k \in rows[d] \/ Backed(k)
         /\ dbFile' = InitDb => dbFile = InitDb
         /\ InitDb \in used'
         /\ dbFile' \in used' \cup {NoDb}
         /\ stale' = stale
<1> DEFINE Goal ==
         /\ \A d \in Dbs : \A k \in rows'[d] : k \in rows[d] \/ Backed(k)
         /\ dbFile' = InitDb => dbFile = InitDb
         /\ InitDb \in used'
         /\ dbFile' \in used' \cup {NoDb}
         /\ stale' = stale
<1> SUFFICES Goal
  OBVIOUS
<1> USE ConstantsAssumption DEF ConstantsAssumption, cacheVars, histVars, LookupVars, MainVars, Connect
<1>0. DbInv
  BY DEF CompletenessInv
<1>a. ASSUME UNCHANGED <<rows, dbFile, used, stale>> PROVE Goal
  BY <1>0, <1>a DEF DbInv
<1>1. ASSUME NEW s \in Subs, Main(s) PROVE Goal
  <2>1. ASSUME NEW d \in Dbs, Dial(d), UNCHANGED <<rows, stale>> PROVE Goal
    BY <1>0, <2>1, DialOnce
  <2>2. CASE SampleCache(s) BY <2>1, <2>2 DEF SampleCache
  <2>3. CASE ResetOpen(s)   BY <2>1, <2>3 DEF ResetOpen
  <2>4. CASE OpenCache(s)   BY <2>1, <2>4 DEF OpenCache
  <2>5. CASE RemoveCache(s) BY <1>0, <2>5 DEF RemoveCache, DbInv
  <2> QED BY <1>a, <1>1, <2>2, <2>3, <2>4, <2>5 DEF Main, UploadManifest, CheckSample,
             SampleVerified, CacheFails, RaiseSmall, Drained, SmallDone, RaiseLarge, Finish
<1>2. ASSUME NEW s \in Subs, NEW f \in Files, Upload(s, f) PROVE Goal
  <2>1. CASE PutEntry(s, f)
    <3>1. UNCHANGED <<dbFile, used, stale>>
      BY <2>1 DEF PutEntry
    <3>2. Backed(HashOf[f])
      BY <2>1 DEF PutEntry, At, CompletenessInv, Tasked
    <3>3. \/ rows' = [rows EXCEPT ![handle[s]] = @ \cup {HashOf[f]}]
          \/ rows' = rows
      BY <2>1 DEF PutEntry
    <3>4. ASSUME NEW d \in Dbs, NEW k \in rows'[d] PROVE k \in rows[d] \/ Backed(k)
      <4>1. CASE rows' = [rows EXCEPT ![handle[s]] = @ \cup {HashOf[f]}]
        <5>1. rows'[d] = IF d = handle[s] THEN rows[d] \cup {HashOf[f]} ELSE rows[d]
          BY ONLY <4>1, TypeOK, d \in Dbs DEF TypeOK
        <5>2. k \in rows[d] \/ k = HashOf[f]
          BY ONLY <5>1, k \in rows'[d]
        <5> QED BY <3>2, <5>2, Zenon
      <4>2. CASE rows' = rows
        BY <4>2
      <4> QED BY <3>3, <4>1, <4>2
    <3> QED BY <1>0, <3>1, <3>4 DEF DbInv
  <2>2. CASE Lookup(s, f)
    <3>1. ASSUME NEW d \in Dbs, Consults(s, d) PROVE Goal
      BY <1>0, <1>a, <2>2, <3>1, DialOnce DEF Lookup, Consults, DbInv
    <3> QED BY <1>a, <2>2, <3>1 DEF Lookup
  <2> QED BY <1>a, <1>2, <2>1, <2>2 DEF Upload, Head, OpenFile, EndTransfer,
             CancelTransfer, FailTransfer
<1>3. ASSUME Environment PROVE Goal
  <2>1. ASSUME NEW k \in Keys, ExpireEntry(k) PROVE Goal
    BY <1>0, <2>1 DEF ExpireEntry, DbInv, TypeOK
  <2> QED BY <1>a, <1>3, <2>1 DEF Environment, Crash, Vanish, Edit, LoseObject
<1>4. ASSUME UNCHANGED vars PROVE Goal
  BY <1>a, <1>4 DEF vars
<1> QED BY <1>1, <1>2, <1>3, <1>4 DEF Next, Submission

(* The rows of the database stay vouched for, whoever adds, expires or     *)
(* removes them.                                                           *)
LEMMA DbInvNext ==
  ASSUME TypeOK, CompletenessInv, [Next]_vars
  PROVE  DbInv'
<1>1. DbInv
  BY DEF CompletenessInv
<1>2. \A d \in Dbs : \A k \in rows'[d] : k \in Keys
  BY NextTypeOK DEF TypeOK
<1>3. \A d \in Dbs : \A k \in rows'[d] : Backed(k)' \/ (d = InitDb /\ k \in stale')
  BY <1>1, <1>2, RowsStep, BackedMonotone DEF DbInv
<1> QED BY <1>3, RowsStep DEF DbInv

(* A submission whose own state is untouched keeps what it trusts.         *)
LEMMA OwnRowsFrame ==
  ASSUME TypeOK, CompletenessInv, [Next]_vars, NEW r \in Subs, NEW exempt,
         unsampled'[r] = unsampled[r], OwnRowsVouched(r, exempt)
  PROVE  \A k \in KeysOf(r) : k \in rows'[InitDb] => Vouched(r, k)' \/ k \in exempt
<1> SUFFICES ASSUME NEW k \in KeysOf(r), k \in rows'[InitDb], k \notin exempt
             PROVE  Vouched(r, k)'
  OBVIOUS
<1>1. k \in Keys
  BY ConstantsAssumption DEF KeysOf, ConstantsAssumption
<1>2. k \in rows[InitDb] \/ Backed(k)
  BY RowsStep, ConstantsAssumption DEF ConstantsAssumption
<1>3. Vouched(r, k)
  BY <1>2 DEF OwnRowsVouched, Vouched
<1> QED BY <1>1, <1>3, BackedMonotone DEF Vouched

(* A submission whose own rows are vouched for without exceptions keeps    *)
(* that.                                                                   *)
LEMMA EmptyRowsFrame ==
  ASSUME TypeOK, CompletenessInv, [Next]_vars, NEW r \in Subs,
         unsampled'[r] = unsampled[r], OwnRowsVouched(r, {})
  PROVE  OwnRowsVouched(r, {})'
<1>1. \A k \in KeysOf(r) : k \in rows'[InitDb] => Vouched(r, k)' \/ k \in {}
  BY OwnRowsFrame
<1> QED BY <1>1 DEF OwnRowsVouched

(* A submission goes on to trust what it trusted while its connections,    *)
(* sample and pool stay as they are.                                       *)
LEMMA TrustFrame ==
  ASSUME TypeOK, CompletenessInv, [Next]_vars, NEW r \in Subs \ Forced,
         phase'[r] = phase[r] \/ (phase[r] \in InPool /\ phase'[r] \in InPool),
         sample'[r] = sample[r], unsampled'[r] = unsampled[r],
         InitDb \in locals'[r] => InitDb \in locals[r] \/ dbFile = InitDb
  PROVE  Trusting(r)'
<1>1. Trusting(r)
  BY DEF CompletenessInv
<1>2. ASSUME phase'[r] = "verify", dbFile' = InitDb PROVE OwnRowsVouched(r, sample[r])'
  BY <1>1, <1>2, RowsStep, OwnRowsFrame DEF Trusting, OwnRowsVouched, InPool
<1>3. ASSUME phase'[r] \in {"open"} \cup InPool, dbFile' = InitDb PROVE OwnRowsVouched(r, {})'
  <2>1. OwnRowsVouched(r, {})
    BY <1>1, <1>3, RowsStep DEF Trusting, InPool
  <2> QED BY <2>1, EmptyRowsFrame
<1>4. ASSUME phase'[r] \in InPool, InitDb \in locals'[r] PROVE OwnRowsVouched(r, {})'
  <2>1. OwnRowsVouched(r, {})
    BY <1>1, <1>4 DEF Trusting, InPool
  <2> QED BY <2>1, EmptyRowsFrame
<1> QED BY <1>2, <1>3, <1>4 DEF Trusting

(* Every step keeps what a submission may trust the cache for.             *)
LEMMA TrustNext ==
  ASSUME TypeOK, CompletenessInv, [Next]_vars, NEW r \in Subs \ Forced
  PROVE  Trusting(r)'
<1> USE ConstantsAssumption DEF ConstantsAssumption, TypeOK, cacheVars, histVars,
        LookupVars, MainVars, Goto, CloseCache
<1>a. ASSUME phase'[r] \notin {"verify", "open"} \cup InPool PROVE Trusting(r)'
  BY <1>a DEF Trusting
<1>b. DbInv /\ Trusting(r)
  BY DEF CompletenessInv
<1>1. ASSUME NEW s \in Subs, Main(s) PROVE Trusting(r)'
  <2>1. CASE s # r
    <3>1. /\ phase'[r] = phase[r] /\ sample'[r] = sample[r]
          /\ unsampled'[r] = unsampled[r] /\ locals'[r] = locals[r]
      <4>1. CASE UploadManifest(s) \/ SampleCache(s) \/ CheckSample(s) \/ SampleVerified(s)
        BY <2>1, <4>1 DEF UploadManifest, SampleCache, CheckSample, SampleVerified
      <4>2. CASE ResetOpen(s) \/ RemoveCache(s) \/ OpenCache(s) \/ CacheFails(s)
        BY <2>1, <4>2 DEF ResetOpen, RemoveCache, OpenCache, CacheFails
      <4>3. CASE RaiseSmall(s) \/ Drained(s) \/ SmallDone(s)
        BY <2>1, <4>3 DEF RaiseSmall, Drained, SmallDone
      <4>4. CASE RaiseLarge(s) \/ Finish(s)
        BY <2>1, <4>4 DEF RaiseLarge, Finish
      <4> QED BY <1>1, <4>1, <4>2, <4>3, <4>4 DEF Main
    <3> QED BY <3>1, TrustFrame
  <2>2. CASE s = r
    <3>1. CASE UploadManifest(r)
      BY <1>a, <3>1 DEF UploadManifest, InPool
    <3>2. CASE SampleCache(r)
      <4>1. PICK d \in Dbs, chosen \in SUBSET Keys :
               /\ Dial(d)
               /\ chosen \subseteq rows[d] \cap KeysOf(r)
               /\ sample' = [sample EXCEPT ![r] = chosen]
               /\ unsampled' = [unsampled EXCEPT ![r] = (rows[d] \cap KeysOf(r)) \ chosen]
               /\ phase' = [phase EXCEPT ![r] = "verify"]
               /\ rows' = rows
        BY <3>2 DEF SampleCache, Connect
      <4>2. dbFile' = InitDb => d = InitDb
        BY <1>b, <4>1, DialOnce
      <4>3. sample'[r] = chosen /\ unsampled'[r] = (rows[d] \cap KeysOf(r)) \ chosen
        BY <4>1
      <4>4. dbFile' = InitDb => OwnRowsVouched(r, sample[r])'
        BY <4>1, <4>2, <4>3 DEF OwnRowsVouched, Vouched
      <4> QED BY <4>1, <4>4 DEF Trusting, InPool
    <3>3. CASE CheckSample(r)
      <4>1. PICK k \in sample[r] :
              \/ /\ HeadSays(k, "yes")
                 /\ sample' = [sample EXCEPT ![r] = @ \ {k}]
                 /\ UNCHANGED phase
              \/ phase' = [phase EXCEPT ![r] = "reset"]
        BY <3>3 DEF CheckSample
      <4>2. CASE phase' = [phase EXCEPT ![r] = "reset"]
        BY <1>a, <4>2 DEF InPool
      <4>3. CASE HeadSays(k, "yes") /\ UNCHANGED phase /\ sample' = [sample EXCEPT ![r] = @ \ {k}]
        <5>1. k \in Keys /\ Backed(k)
          BY <4>3 DEF HeadSays, Backed
        <5>2. Backed(k)'
          BY <5>1, BackedMonotone
        <5>3. UNCHANGED unsampled /\ phase'[r] = "verify" /\ sample'[r] = sample[r] \ {k}
          BY <3>3, <4>3 DEF CheckSample
        <5>4. ASSUME dbFile' = InitDb PROVE OwnRowsVouched(r, sample[r])'
          <6>1. OwnRowsVouched(r, sample[r])
            BY <1>b, <5>3, <5>4, <3>3, RowsStep DEF Trusting, CheckSample
          <6>2. \A j \in KeysOf(r) : j \in rows'[InitDb] => Vouched(r, j)' \/ j \in sample[r]
            BY <5>3, <6>1, OwnRowsFrame
          <6> QED BY <5>2, <5>3, <6>2 DEF OwnRowsVouched, Vouched
        <5> QED BY <5>3, <5>4 DEF Trusting, InPool
      <4> QED BY <4>1, <4>2, <4>3
    <3>4. CASE SampleVerified(r)
      <4>1. phase[r] = "verify" /\ phase'[r] = "open" /\ unsampled'[r] = unsampled[r] /\ sample[r] = {}
        BY <3>4 DEF SampleVerified
      <4>2. ASSUME dbFile' = InitDb PROVE OwnRowsVouched(r, {})'
        BY <1>b, <4>1, <4>2, RowsStep, OwnRowsFrame DEF Trusting, OwnRowsVouched
      <4> QED BY <4>1, <4>2 DEF Trusting, InPool
    <3>5. CASE ResetOpen(r)
      BY <1>a, <3>5 DEF ResetOpen, InPool
    <3>6. CASE RemoveCache(r)
      BY <1>a, <3>6 DEF RemoveCache, InPool, Trusting
    <3>7. CASE OpenCache(r)
      <4>1. /\ phase[r] = "open" /\ phase'[r] = "small"
            /\ unsampled'[r] = unsampled[r] /\ locals' = locals
        BY <3>7 DEF OpenCache
      <4>2. locals'[r] = {}
        BY <4>1 DEF CompletenessInv, Tasked, BeforePool
      <4>3. ASSUME dbFile' = InitDb PROVE OwnRowsVouched(r, {})'
        <5>1. OwnRowsVouched(r, {})
          BY <1>b, <4>1, <4>3, RowsStep DEF Trusting
        <5> QED BY <4>1, <5>1, EmptyRowsFrame
      <4> QED BY <4>1, <4>2, <4>3 DEF Trusting, InPool
    <3>8. CASE CacheFails(r)
      BY <1>a, <3>8 DEF CacheFails, InPool
    <3>9. CASE RaiseSmall(r)
      BY <3>9, TrustFrame DEF RaiseSmall, InPool
    <3>10. CASE Drained(r)
      BY <1>a, <3>10 DEF Drained, InPool
    <3>11. CASE SmallDone(r)
      BY <3>11, TrustFrame DEF SmallDone, InPool
    <3>12. CASE RaiseLarge(r)
      BY <1>a, <3>12 DEF RaiseLarge, InPool, Raised
    <3>13. CASE Finish(r)
      BY <1>a, <3>13 DEF Finish, InPool, Outcome
    <3> QED BY <1>1, <2>2, <3>1, <3>2, <3>3, <3>4, <3>5, <3>6, <3>7, <3>8, <3>9,
               <3>10, <3>11, <3>12, <3>13 DEF Main
  <2> QED BY <2>1, <2>2
<1>2. ASSUME NEW s \in Subs, NEW f \in Files, Upload(s, f) PROVE Trusting(r)'
  <2>1. CASE Lookup(s, f)
    <3>1. ASSUME NEW d \in Dbs, Consults(s, d) PROVE Trusting(r)'
      <4>1. InitDb \in locals'[r] => InitDb \in locals[r] \/ dbFile = InitDb
        <5>1. CASE d \in locals[s]
          BY <3>1, <5>1 DEF Consults
        <5>2. CASE Dial(d)
          BY <1>b, <3>1, <5>2, DialOnce DEF Consults
        <5> QED BY <3>1, <5>1, <5>2 DEF Consults
      <4> QED BY <2>1, <4>1, TrustFrame DEF Lookup
    <3> QED BY <2>1, <3>1, TrustFrame DEF Lookup
  <2> QED BY <1>2, <2>1, TrustFrame DEF Upload, Head, OpenFile, EndTransfer, CancelTransfer,
             FailTransfer, PutEntry
<1>3. ASSUME Environment PROVE Trusting(r)'
  <2>1. ASSUME NEW s \in Subs, Crash(s) PROVE Trusting(r)'
    BY <1>a, <2>1, TrustFrame DEF Crash, InPool
  <2> QED BY <1>3, <2>1, TrustFrame DEF Environment, Vanish, Edit, LoseObject, ExpireEntry
<1>4. ASSUME UNCHANGED vars PROVE Trusting(r)'
  BY <1>4, TrustFrame DEF vars
<1> QED BY <1>1, <1>2, <1>3, <1>4 DEF Next, Submission

(* A submission whose own tasks are untouched keeps what they rely on.     *)
LEMMA TaskedFrame ==
  ASSUME TypeOK, CompletenessInv, [Next]_vars, NEW r \in Subs,
         phase'[r] = phase[r], handle'[r] = handle[r],
         phase[r] \in BeforePool => locals'[r] = locals[r],
         task'[r] = task[r], unsampled'[r] = unsampled[r]
  PROVE  Tasked(r)'
<1>1. Tasked(r)
  BY DEF CompletenessInv
<1>2. \A f \in ManifestOf[r] : HashOf[f] \in Keys
  BY ConstantsAssumption DEF ConstantsAssumption
<1>3. \A f \in ManifestOf[r] : /\ Backed(HashOf[f]) => Backed(HashOf[f])'
                               /\ Vouched(r, HashOf[f]) => Vouched(r, HashOf[f])'
  BY <1>2, BackedMonotone DEF Vouched
<1> QED BY <1>1, <1>3 DEF Tasked

(* One step of one task of a submission in its pool.                       *)
LEMMA TaskedStep ==
  ASSUME TypeOK, CompletenessInv, [Next]_vars, NEW r \in Subs, NEW f \in ManifestOf[r],
         NEW t, Step(r, f, t), task[r][f] # "done", phase[r] \in InPool \/ task[r][f] # "queued",
         phase' = phase, handle' = handle, unsampled' = unsampled,
         t = "put" => Backed(HashOf[f])',
         t = "done" => Vouched(r, HashOf[f])'
  PROVE  Tasked(r)'
<1> USE ConstantsAssumption DEF ConstantsAssumption, TypeOK
<1>1. Tasked(r)
  BY DEF CompletenessInv
<1>2. f \in Files
  OBVIOUS
<1>3. phase[r] \notin BeforePool
  BY <1>1, <1>2 DEF Tasked, BeforePool, InPool
<1>4. \A g \in ManifestOf[r] : task'[r][g] = IF g = f THEN t ELSE task[r][g]
  BY <1>2 DEF Step
<1>5. \A g \in ManifestOf[r] : /\ Backed(HashOf[g]) => Backed(HashOf[g])'
                               /\ Vouched(r, HashOf[g]) => Vouched(r, HashOf[g])'
  BY BackedMonotone DEF Vouched
<1>6. \A g \in ManifestOf[r] : /\ task'[r][g] = "put" => Backed(HashOf[g])'
                               /\ task'[r][g] = "done" => Vouched(r, HashOf[g])'
  BY <1>1, <1>4, <1>5 DEF Tasked
<1>7. phase[r] \in {"large", "ok"} => \A g \in SmallOf(r) : task'[r][g] = "done"
  BY <1>1, <1>4 DEF Tasked, SmallOf
<1>8. phase[r] = "ok" => \A g \in LargeOf(r) : task'[r][g] = "done"
  BY <1>1, <1>4 DEF Tasked, LargeOf
<1> QED BY <1>1, <1>3, <1>6, <1>7, <1>8 DEF Tasked

(* Every step keeps that a task that is finished has its object vouched    *)
(* for.                                                                    *)
LEMMA TaskedNext ==
  ASSUME ~MayVanish, TypeOK, SeenInv, CompletenessInv, [Next]_vars, NEW r \in Subs
  PROVE  Tasked(r)'
<1> USE ConstantsAssumption DEF ConstantsAssumption, TypeOK, cacheVars, histVars,
        LookupVars, MainVars, Goto, CloseCache
<1>a. Tasked(r) /\ DbInv /\ (r \notin Forced => Trusting(r))
  BY DEF CompletenessInv
<1>b. \A f \in ManifestOf[r] : /\ f \in Files /\ HashOf[f] \in Keys
                               /\ Backed(HashOf[f]) => Backed(HashOf[f])'
                               /\ UNCHANGED unsampled =>
                                    (Vouched(r, HashOf[f]) => Vouched(r, HashOf[f])')
  BY BackedMonotone DEF Vouched
<1>1. ASSUME NEW s \in Subs, Main(s) PROVE Tasked(r)'
  <2>1. CASE s # r
    <3>1. /\ task' = task /\ phase'[r] = phase[r] /\ handle'[r] = handle[r]
          /\ locals'[r] = locals[r] /\ unsampled'[r] = unsampled[r]
      <4>1. CASE UploadManifest(s) \/ SampleCache(s) \/ CheckSample(s) \/ SampleVerified(s)
        BY <2>1, <4>1 DEF UploadManifest, SampleCache, CheckSample, SampleVerified
      <4>2. CASE ResetOpen(s) \/ RemoveCache(s) \/ OpenCache(s) \/ CacheFails(s)
        BY <2>1, <4>2 DEF ResetOpen, RemoveCache, OpenCache, CacheFails
      <4>3. CASE RaiseSmall(s) \/ Drained(s) \/ SmallDone(s)
        BY <2>1, <4>3 DEF RaiseSmall, Drained, SmallDone
      <4>4. CASE RaiseLarge(s)
        BY <2>1, <4>4 DEF RaiseLarge
      <4>5. CASE Finish(s)
        BY <2>1, <4>5 DEF Finish
      <4> QED BY <1>1, <4>1, <4>2, <4>3, <4>4, <4>5 DEF Main
    <3> QED BY <3>1, TaskedFrame
  <2>2. CASE s = r
    <3>a. ASSUME task' = task, phase[r] \in BeforePool, locals'[r] \in {locals[r], {}},
                 phase'[r] \in BeforePool \cup {"failed"}
          PROVE  Tasked(r)'
      BY <1>a, <1>b, <3>a DEF Tasked, BeforePool, InPool
    <3>b. ASSUME task' = task, unsampled' = unsampled, phase[r] \in InPool,
                 \/ phase'[r] \in {"drain_failed", "drain_cancelled"} /\ handle' = handle
                 \/ phase'[r] \in {"failed", "cancelled"}
          PROVE  Tasked(r)'
      BY <1>a, <1>b, <3>b DEF Tasked, BeforePool, InPool
    <3>1. CASE UploadManifest(r)  BY <3>a, <3>1 DEF UploadManifest, BeforePool
    <3>2. CASE SampleCache(r)     BY <3>a, <3>2 DEF SampleCache, BeforePool
    <3>3. CASE CheckSample(r)     BY <3>a, <3>3 DEF CheckSample, BeforePool
    <3>4. CASE SampleVerified(r)  BY <3>a, <3>4 DEF SampleVerified, BeforePool
    <3>5. CASE ResetOpen(r)       BY <3>a, <3>5 DEF ResetOpen, BeforePool
    <3>6. CASE RemoveCache(r)     BY <3>a, <3>6 DEF RemoveCache, BeforePool
    <3>7. CASE OpenCache(r)
      <4>1. task' = task /\ phase[r] = "open" /\ phase'[r] = "small" /\ handle'[r] \in Dbs
        BY <3>7 DEF OpenCache
      <4> QED BY <1>a, <4>1 DEF Tasked, BeforePool, InPool
    <3>8. CASE CacheFails(r)      BY <3>a, <3>8 DEF CacheFails, BeforePool
    <3>9. CASE RaiseSmall(r)      BY <3>b, <3>9 DEF RaiseSmall, InPool
    <3>10. CASE Drained(r)        BY <3>b, <3>10 DEF Drained, InPool
    <3>11. CASE SmallDone(r)
      <4>1. /\ task' = task /\ handle' = handle /\ unsampled' = unsampled
            /\ phase[r] = "small" /\ phase'[r] = "large"
            /\ \A f \in SmallOf(r) : task[r][f] = "done"
        BY <3>11 DEF SmallDone
      <4> QED BY <1>a, <1>b, <4>1 DEF Tasked, BeforePool, InPool
    <3>12. CASE RaiseLarge(r)     BY <3>b, <3>12 DEF RaiseLarge, InPool, Raised
    <3>13. CASE Finish(r)
      <4>1. /\ task' = task /\ unsampled' = unsampled
            /\ phase[r] = "large" /\ phase'[r] \in {"ok", "cancelled"}
            /\ \A f \in LargeOf(r) : task[r][f] = "done"
        BY <3>13 DEF Finish, Outcome
      <4> QED BY <1>a, <1>b, <4>1 DEF Tasked, BeforePool, InPool
    <3> QED BY <1>1, <2>2, <3>1, <3>2, <3>3, <3>4, <3>5, <3>6, <3>7, <3>8, <3>9,
               <3>10, <3>11, <3>12, <3>13 DEF Main
  <2> QED BY <2>1, <2>2
<1>2. ASSUME NEW s \in Subs, NEW f \in Files, Upload(s, f) PROVE Tasked(r)'
  <2>1. CASE s # r
    <3>1. CASE Lookup(s, f)
      <4>1. locals'[r] = locals[r] /\ task'[r] = task[r]
        BY <2>1, <3>1 DEF Lookup, Consults, Step
      <4> QED BY <3>1, <4>1, TaskedFrame DEF Lookup
    <3> QED BY <1>2, <2>1, <3>1, TaskedFrame DEF Upload, Step, Head, OpenFile, EndTransfer,
               CancelTransfer, FailTransfer, PutEntry
  <2>2. CASE s = r
    <3>1. CASE Lookup(r, f)
      <4>1. /\ task[r][f] = "queued" /\ phase[r] \in InPool /\ f \in ManifestOf[r]
            /\ UNCHANGED <<phase, handle, unsampled, rows, tables>>
        BY <3>1 DEF Lookup, Runnable, InPool, SmallOf, LargeOf
      <4>2. ASSUME NEW t \in {"head", "failed"}, Step(r, f, t) PROVE Tasked(r)'
        BY <4>1, <4>2, TaskedStep
      <4>3. ASSUME r \notin Forced, NEW d \in Dbs, Consults(r, d), Step(r, f, AfterLookup(d, f))
            PROVE  Tasked(r)'
        <5>1. ASSUME HashOf[f] \in rows[d] PROVE Vouched(r, HashOf[f])
          <6>1. CASE d = InitDb
            <7>1. InitDb \in locals[r] \/ dbFile = InitDb
              BY <1>a, <4>3, <6>1, DialOnce DEF Consults
            <7> QED BY <1>a, <4>1, <4>3, <5>1, <6>1, <7>1 DEF Trusting, OwnRowsVouched, KeysOf
          <6>2. CASE d # InitDb
            BY <1>a, <5>1, <6>2 DEF DbInv, Vouched
          <6> QED BY <6>1, <6>2
        <5>2. CASE AfterLookup(d, f) = "done"
          <6>1. HashOf[f] \in rows[d]
            BY <5>2 DEF AfterLookup
          <6> QED BY <1>b, <4>1, <4>3, <5>1, <5>2, <6>1, TaskedStep
        <5>3. CASE AfterLookup(d, f) \in {"head", "failed"}
          BY <4>2, <4>3, <5>3
        <5> QED BY <5>2, <5>3 DEF AfterLookup
      <4> QED BY <3>1, <4>2, <4>3 DEF Lookup
    <3>2. CASE Head(r, f)
      <4>1. /\ task[r][f] = "head" /\ f \in ManifestOf[r]
            /\ UNCHANGED <<phase, handle, unsampled>>
        BY <3>2 DEF Head, At
      <4>2. CASE HeadSays(HashOf[f], "yes") /\ Step(r, f, "put")
        <5>1. Backed(HashOf[f])'
          BY <1>b, <4>1, <4>2 DEF HeadSays, Backed
        <5> QED BY <4>1, <4>2, <5>1, TaskedStep
      <4>3. CASE Step(r, f, "upload")
        BY <4>1, <4>3, TaskedStep
      <4>4. CASE Step(r, f, "failed")
        BY <4>1, <4>4, TaskedStep
      <4> QED BY <3>2, <4>2, <4>3, <4>4 DEF Head
    <3>3. CASE OpenFile(r, f)
      <4>1. /\ task[r][f] = "upload" /\ f \in ManifestOf[r]
            /\ UNCHANGED <<phase, handle, unsampled>>
            /\ Step(r, f, "transfer")
        BY <3>3 DEF OpenFile, At, AfterOpen, SeenInv
      <4> QED BY <4>1, TaskedStep
    <3>4. CASE EndTransfer(r, f)
      <4>1. /\ task[r][f] = "transfer" /\ f \in ManifestOf[r]
            /\ UNCHANGED <<phase, handle, unsampled>>
            /\ Step(r, f, "put")
        BY <3>4 DEF EndTransfer, At
      <4>2. Backed(HashOf[f])'
        BY <3>4 DEF EndTransfer, Backed, InStore
      <4> QED BY <4>1, <4>2, TaskedStep
    <3>5. CASE CancelTransfer(r, f)
      BY <3>5, TaskedStep DEF CancelTransfer, At
    <3>6. CASE FailTransfer(r, f)
      BY <3>6, TaskedStep DEF FailTransfer, At
    <3>7. CASE PutEntry(r, f)
      <4>1. /\ task[r][f] = "put" /\ f \in ManifestOf[r]
            /\ UNCHANGED <<phase, handle, unsampled>>
            /\ Step(r, f, "done") \/ Step(r, f, "failed")
        BY <3>7 DEF PutEntry, At
      <4>2. Vouched(r, HashOf[f])'
        BY <1>a, <1>b, <4>1 DEF Tasked, Vouched
      <4>3. CASE Step(r, f, "done")
        BY <4>1, <4>2, <4>3, TaskedStep
      <4>4. CASE Step(r, f, "failed")
        BY <4>1, <4>4, TaskedStep
      <4> QED BY <4>1, <4>3, <4>4
    <3> QED BY <1>2, <2>2, <3>1, <3>2, <3>3, <3>4, <3>5, <3>6, <3>7 DEF Upload
  <2> QED BY <2>1, <2>2
<1>3. ASSUME Environment PROVE Tasked(r)'
  <2>1. ASSUME NEW s \in Subs, Crash(s) PROVE Tasked(r)'
    <3>1. CASE s # r
      BY <2>1, <3>1, TaskedFrame DEF Crash
    <3>2. CASE s = r
      BY <2>1, <3>2 DEF Crash, Tasked, InPool, BeforePool
    <3> QED BY <3>1, <3>2
  <2> QED BY <1>3, <2>1, TaskedFrame DEF Environment, Vanish, Edit, LoseObject, ExpireEntry
<1>4. ASSUME UNCHANGED vars PROVE Tasked(r)'
  BY <1>4, TaskedFrame DEF vars
<1> QED BY <1>1, <1>2, <1>3, <1>4 DEF Next, Submission

(* The inductive invariant behind FinishedComplete holds in every state.   *)
THEOREM CompletenessInvariant ==
  ASSUME ~MayVanish
  PROVE  Spec => []CompletenessInv
<1>1. TypeOK /\ SeenInv /\ CompletenessInv /\ [Next]_vars => CompletenessInv'
  BY DbInvNext, TrustNext, TaskedNext DEF CompletenessInv
<1>2. TypeOK /\ SeenInv /\ [Next]_vars => SeenInv'
  BY SeenInvNext
<1> QED BY CompletenessInit, SeenInvInit, TypeCorrect, <1>1, <1>2, PTL DEF Spec

(* While files stay where they were hashed, a submission that returns      *)
(* normally has every object of its manifest in the bucket, up to          *)
(* deletions made since the start and stale entries beyond the sample.     *)
THEOREM UploadComplete ==
  ASSUME ~MayVanish
  PROVE  Spec => []FinishedComplete
<1>1. CompletenessInv => FinishedComplete
  <2> SUFFICES ASSUME CompletenessInv, NEW s \in Subs, phase[s] = "ok", NEW k \in KeysOf(s)
               PROVE  Vouched(s, k)
    BY DEF FinishedComplete, Vouched, Backed
  <2>1. Tasked(s)
    BY DEF CompletenessInv
  <2>2. PICK f \in ManifestOf[s] : k = HashOf[f]
    BY DEF KeysOf
  <2>3. task[s][f] = "done"
    BY <2>1, <2>2 DEF Tasked, SmallOf, LargeOf
  <2> QED BY <2>1, <2>2, <2>3 DEF Tasked
<1> QED BY CompletenessInvariant, <1>1, PTL

-----------------------------------------------------------------------------
(* Cancellations and the end of a call, with vanishing files and failures. *)

(* A thread of the pool works only while its submission is running.        *)
LEMMA UploadRuns ==
  ASSUME TypeOK, NEW s \in Subs, NEW f \in Files, Upload(s, f)
  PROVE  /\ phase[s] \in InPool \cup {"sample", "verify", "reset", "remove", "open"}
         /\ phase' = phase
         /\ f \in ManifestOf[s]
         /\ \/ Runnable(s, f)
            \/ task[s][f] \in Active
         /\ \E t \in {"done"} \cup Active \cup Raised : Step(s, f, t)
         /\ continue' = continue \/ \E c \in BOOLEAN : continue' = [continue EXCEPT ![s] = c]
<1> USE ConstantsAssumption DEF ConstantsAssumption, TypeOK, InPool, Running, Active, Raised, LookupVars,
        SmallOf, LargeOf, At
<1>1. CASE Lookup(s, f)
  <2>1. \E t \in {"done"} \cup Active \cup Raised : Step(s, f, t)
    BY <1>1 DEF Lookup, AfterLookup
  <2> QED BY <1>1, <2>1 DEF Lookup, Runnable
<1>2. CASE Head(s, f)           BY <1>2 DEF Head
<1>3. CASE OpenFile(s, f)       BY <1>3 DEF OpenFile, AfterOpen
<1>4. CASE EndTransfer(s, f)    BY <1>4 DEF EndTransfer
<1>5. CASE CancelTransfer(s, f) BY <1>5 DEF CancelTransfer
<1>6. CASE FailTransfer(s, f)   BY <1>6 DEF FailTransfer
<1>7. CASE PutEntry(s, f)       BY <1>7 DEF PutEntry
<1> QED BY <1>1, <1>2, <1>3, <1>4, <1>5, <1>6, <1>7 DEF Upload

(* Every step keeps that a cancelled submission does not return normally.  *)
LEMMA CancelledStep == TypeOK /\ CancelledNeverOk /\ [Next]_vars => CancelledNeverOk'
<1> SUFFICES ASSUME TypeOK, CancelledNeverOk, [Next]_vars PROVE CancelledNeverOk'
  OBVIOUS
<1> USE DEF CancelledNeverOk
<1>1. ASSUME NEW s \in Subs, Main(s) PROVE CancelledNeverOk'
  <2>1. CASE Finish(s)
    <3>1. PICK c \in {continue[s], FALSE} :
            continue' = [continue EXCEPT ![s] = c] /\ Goto(s, Outcome(c))
      BY <2>1 DEF Finish
    <3>2. ASSUME NEW r \in Subs, phase'[r] = "ok" PROVE continue'[r]
      <4>1. CASE r = s
        <5>1. c = TRUE \/ c = FALSE
          BY <3>1 DEF TypeOK
        <5>2. phase'[r] = Outcome(c)
          BY <3>1, <4>1 DEF Goto, TypeOK
        <5>3. c = TRUE
          BY <3>2, <5>1, <5>2 DEF Outcome
        <5> QED BY <3>1, <4>1, <5>3 DEF TypeOK
      <4>2. CASE r # s
        <5>1. phase'[r] = phase[r] /\ continue'[r] = continue[r]
          BY <3>1, <4>2 DEF Goto, TypeOK
        <5> QED BY <3>2, <5>1
      <4> QED BY <4>1, <4>2
    <3> QED BY <3>2
  <2>2. CASE ~Finish(s)
    <3>1. continue' = continue /\ (phase' = phase \/ \E p : p # "ok" /\ Goto(s, p))
      BY <1>1, <2>2 DEF Main, MainVars, UploadManifest, SampleCache, CheckSample, SampleVerified,
         ResetOpen, RemoveCache, OpenCache, CacheFails, RaiseSmall, Drained, SmallDone,
         RaiseLarge, Raised
    <3> QED BY <3>1 DEF Goto, TypeOK
  <2> QED BY <2>1, <2>2
<1>2. ASSUME NEW s \in Subs, NEW f \in Files, Upload(s, f) PROVE CancelledNeverOk'
  <2>1. phase[s] # "ok" /\ phase' = phase /\ \A r \in Subs \ {s} : continue'[r] = continue[r]
    BY <1>2, UploadRuns DEF InPool, TypeOK
  <2> QED BY <2>1
<1>3. ASSUME Environment PROVE CancelledNeverOk'
  <2>1. ASSUME NEW s \in Subs, Crash(s) PROVE CancelledNeverOk'
    BY <2>1 DEF Crash, Goto, TypeOK
  <2>2. CASE UNCHANGED <<phase, continue>>
    BY <2>2
  <2> QED BY <1>3, <2>1, <2>2 DEF Environment, Vanish, Edit, LoseObject, ExpireEntry
<1>4. ASSUME UNCHANGED vars PROVE CancelledNeverOk'
  BY <1>4 DEF vars
<1> QED BY <1>1, <1>2, <1>3, <1>4 DEF Next, Submission

(* A cancellation is never lost, whatever fails beside it.                 *)
THEOREM CancellationsCount == Spec => []CancelledNeverOk
<1>1. Init => CancelledNeverOk
  BY DEF Init, CancelledNeverOk
<1> QED BY <1>1, CancelledStep, TypeCorrect, PTL DEF Spec

(* Where the tasks can be: none has begun before the pool is filled, no    *)
(* large one before the small ones are done, one large one at a time; and  *)
(* none is at work when the call has ended.                                *)
QuietInv(s) ==
  /\ phase[s] \in BeforePool => \A f \in ManifestOf[s] : task[s][f] = "queued"
  /\ phase[s] \in InPool \ {"large"} => \A f \in LargeOf(s) : task[s][f] = "queued"
  /\ phase[s] = "large" =>
       /\ \A f \in SmallOf(s) : task[s][f] = "done"
       /\ \A f, g \in LargeOf(s) :
            f = g \/ task[s][f] \in {"queued", "done"} \/ task[s][g] \in {"queued", "done"}
  /\ phase[s] \in Ended \ {"crashed"} => \A f \in ManifestOf[s] : task[s][f] \notin Active

(* The main thread fills the pool before any task runs, and passes the     *)
(* small and the large files only when none of them is running.            *)
LEMMA QuietMain ==
  ASSUME TypeOK, NEW s \in Subs, QuietInv(s), Main(s)
  PROVE  QuietInv(s)'
<1> USE DEF QuietInv, MainVars, SmallOf, LargeOf, BeforePool, InPool, Ended, Active, Raised
<1>1. task' = task
  BY DEF Main, UploadManifest, SampleCache, CheckSample, SampleVerified, ResetOpen, RemoveCache,
     OpenCache, CacheFails, RaiseSmall, Drained, SmallDone, RaiseLarge, Finish
<1>2. CASE phase[s] \in BeforePool /\ phase'[s] \in BeforePool \cup {"small", "failed"}
  BY <1>1, <1>2
<1>3. CASE RaiseSmall(s)
  BY <1>1, <1>3 DEF RaiseSmall, Goto, TypeOK
<1>4. CASE Drained(s)
  <2>1. phase'[s] \in {"failed", "cancelled"}
    BY <1>4 DEF Drained, Goto, TypeOK
  <2>2. \A f \in ManifestOf[s] : task[s][f] \notin Active
    BY <1>4 DEF Drained, AllSmallOver
  <2> QED BY <1>1, <2>1, <2>2
<1>5. CASE SmallDone(s)
  <2>1. phase'[s] = "large"
    BY <1>5 DEF SmallDone, Goto, TypeOK
  <2> QED BY <1>1, <1>5, <2>1 DEF SmallDone
<1>6. CASE RaiseLarge(s)
  <2>1. PICK f \in LargeOf(s) : task[s][f] \in Raised /\ Goto(s, task[s][f])
    BY <1>6 DEF RaiseLarge
  <2>2. phase'[s] \in Raised
    BY <2>1 DEF Goto, TypeOK
  <2>3. \A g \in ManifestOf[s] : task[s][g] \notin Active
    BY <1>6, <2>1 DEF RaiseLarge
  <2> QED BY <1>1, <2>2, <2>3
<1>7. CASE Finish(s)
  <2>1. phase'[s] \in {"ok", "cancelled"}
    BY <1>7 DEF Finish, Outcome, Goto, TypeOK
  <2>2. \A g \in ManifestOf[s] : task[s][g] = "done"
    BY <1>7 DEF Finish
  <2> QED BY <1>1, <2>1, <2>2
<1> QED
  BY <1>2, <1>3, <1>4, <1>5, <1>6, <1>7 DEF Main, UploadManifest, SampleCache, CheckSample,
     SampleVerified, ResetOpen, RemoveCache, OpenCache, CacheFails, Goto, TypeOK

(* A task moves on only in the pool, and as a large file only alone.       *)
LEMMA QuietUpload ==
  ASSUME TypeOK, NEW s \in Subs, QuietInv(s), NEW f \in Files, Upload(s, f)
  PROVE  QuietInv(s)'
<1> USE DEF QuietInv, SmallOf, LargeOf, BeforePool, InPool, Ended, Active, Raised
<1>1. phase' = phase /\ f \in ManifestOf[s] /\ (Runnable(s, f) \/ task[s][f] \in Active)
  BY UploadRuns
<1>2. phase[s] \in InPool
  BY <1>1, UploadRuns DEF Runnable
<1>3. \A g \in Files \ {f} : task'[s][g] = task[s][g]
  <2>1. PICK t \in {"done"} \cup Active \cup Raised : Step(s, f, t)
    BY UploadRuns
  <2> QED BY <2>1 DEF Step, TypeOK
<1>4. f \in LargeOf(s) =>
        phase[s] = "large" /\ \A g \in LargeOf(s) \ {f} : task[s][g] \in {"queued", "done"}
  BY <1>1, <1>2 DEF Runnable
<1>5. f \in SmallOf(s) => phase[s] # "large"
  BY <1>1, <1>2 DEF Runnable
<1>6. ManifestOf[s] \subseteq Files
  BY ConstantsAssumption DEF ConstantsAssumption
<1> QED BY <1>1, <1>2, <1>3, <1>4, <1>5, <1>6

(* Every step, of this submission or another, keeps that no thread is left *)
(* behind.                                                                 *)
LEMMA QuietStep ==
  ASSUME TypeOK, [Next]_vars, NEW r \in Subs, QuietInv(r)
  PROVE  QuietInv(r)'
<1>1. CASE phase'[r] = phase[r] /\ task'[r] = task[r]
  BY <1>1 DEF QuietInv, SmallOf, LargeOf
<1>2. ASSUME NEW s \in Subs, Main(s), s # r PROVE phase'[r] = phase[r] /\ task'[r] = task[r]
  BY <1>2 DEF Main, MainVars, UploadManifest, SampleCache, CheckSample, SampleVerified, ResetOpen,
     RemoveCache, OpenCache, CacheFails, RaiseSmall, Drained, SmallDone, RaiseLarge, Finish,
     Goto, TypeOK
<1>3. ASSUME NEW s \in Subs, NEW f \in Files, Upload(s, f), s # r
      PROVE  phase'[r] = phase[r] /\ task'[r] = task[r]
  BY <1>3, UploadRuns DEF Step, TypeOK
<1>4. ASSUME Environment PROVE QuietInv(r)'
  <2>1. ASSUME Crash(r) PROVE QuietInv(r)'
    <3>1. phase'[r] = "crashed"
      BY <2>1 DEF Crash, Goto, TypeOK
    <3> QED BY <3>1 DEF QuietInv, BeforePool, InPool, Ended
  <2>2. ASSUME NEW s \in Subs, Crash(s), s # r PROVE phase'[r] = phase[r] /\ task'[r] = task[r]
    BY <2>2 DEF Crash, Goto, TypeOK
  <2> QED BY <1>1, <1>4, <2>1, <2>2 DEF Environment, Vanish, Edit, LoseObject, ExpireEntry
<1>5. ASSUME UNCHANGED vars PROVE phase'[r] = phase[r] /\ task'[r] = task[r]
  BY <1>5 DEF vars
<1> QED
  BY <1>1, <1>2, <1>3, <1>4, <1>5, QuietMain, QuietUpload DEF Next, Submission

(* No worker is at work for a submission that has returned or raised.      *)
THEOREM QuietWhenOver == Spec => []QuietAfterEnd
<1> DEFINE Quiet == \A s \in Subs : QuietInv(s)
<1>1. Init => Quiet
  BY ConstantsAssumption DEF Init, QuietInv, BeforePool, InPool, Ended, ConstantsAssumption
<1>2. TypeOK /\ Quiet /\ [Next]_vars => Quiet'
  BY QuietStep
<1>3. Quiet => QuietAfterEnd
  BY DEF QuietInv, QuietAfterEnd, ActiveFiles
<1> HIDE DEF Quiet
<1> QED BY <1>1, <1>2, <1>3, TypeCorrect, PTL DEF Spec
=============================================================================
