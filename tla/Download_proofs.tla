--------------------------- MODULE Download_proofs ---------------------------
(***************************************************************************)
(* Theorems about Download, for every set of entries and paths, every      *)
(* numbering of copies and any number of workers and calls: the types,     *)
(* what happens to the files of the user, and that no two downloads of a   *)
(* call take the same name for a copy.                                     *)
(***************************************************************************)
EXTENDS Download, FiniteSetTheorems, TLAPS

(* The path _get_new_copy_file_path returns is a path of the directory. *)
LEMMA NameType ==
  ASSUME NEW p \in Originals, NEW n \in 0..MaxCopies PROVE NameOf(p, n) \in Paths
<1>1. CASE n = 0
  BY <1>1, DownloadAssumption DEF NameOf, Originals
<1>2. CASE n # 0
  <2>1. n \in 1..MaxCopies
    BY <1>2, DownloadAssumption
  <2> QED
    BY <1>2, <2>1, DownloadAssumption DEF NameOf
<1> QED
  BY <1>1, <1>2

(* The path of an entry is one of the paths that numbers are kept for. *)
LEMMA OriginalType == \A e \in Entries : PathOf[e] \in Originals /\ PathOf[e] \in Paths
  BY DownloadAssumption DEF Originals

(* What a worker puts at a path is something a path may hold. *)
LEMMA PutType ==
  ASSUME TypeOK, NEW p, NEW x \in {Absent, User, Empty, Part} \cup Entries, Put(p, x)
  PROVE  disk' \in [Paths -> {Absent, User, Empty, Part} \cup Entries]
  BY DEF TypeOK, Put

(* Each step of a worker keeps the types. *)
LEMMA ClaimTypeOK == ASSUME TypeOK, NEW e \in Entries, Claim(e) PROVE TypeOK'
<1>1. PICK n \in 0..MaxCopies :
        /\ target' = [target EXCEPT ![e] = NameOf(PathOf[e], n)]
        /\ Put(NameOf(PathOf[e], n), Empty)
        /\ collisions' = [collisions EXCEPT ![PathOf[e]] = CountOf(PathOf[e], n)]
  BY DEF Claim
<1>2. target' \in [Entries -> Paths]
  BY <1>1, NameType, OriginalType DEF TypeOK
<1>3. disk' \in [Paths -> {Absent, User, Empty, Part} \cup Entries]
  BY <1>1, PutType
<1>4. CountOf(PathOf[e], n) \in 0..MaxCopies
  BY OriginalType DEF TypeOK, CountOf
<1>5. collisions' \in [Originals -> 0..MaxCopies]
  BY <1>1, <1>4 DEF TypeOK
<1>6. task' \in [Entries -> {"queued"} \cup Active \cup Raised \cup Over]
  BY DEF TypeOK, Claim, Step, Transfer, Active
<1> QED
  BY <1>2, <1>3, <1>5, <1>6 DEF TypeOK, Claim, callVars

(* The steps of a worker keep the types.                                   *)
LEMMA WorkTypeOK == ASSUME TypeOK, NEW e \in Entries, Work(e) PROVE TypeOK'
<1>1. target[e] \in Paths
  BY DEF TypeOK
<1>2. CASE Examine(e)
  BY <1>2 DEF TypeOK, Examine, Step, Transfer, Active, Over, callVars
<1>3. CASE Claim(e)
  BY <1>3, ClaimTypeOK
<1>4. CASE EndTransfer(e)
  BY <1>4, PutType DEF TypeOK, EndTransfer, Step, Active, Elsewhere, callVars
<1>5. CASE NotFound(e)
  BY <1>5 DEF TypeOK, NotFound, Step, Active, Raised, Elsewhere, callVars
<1>6. CASE CancelTransfer(e)
  BY <1>6 DEF TypeOK, CancelTransfer, Step, Raised, Elsewhere, callVars
<1>7. CASE Fail(e)
  BY <1>7 DEF TypeOK, Fail, Step, Raised, Elsewhere, callVars
<1>8. CASE GetObject(e)
  BY <1>1, <1>8, PutType DEF TypeOK, GetObject, Step, Active, Elsewhere, callVars
<1>9. CASE EndStream(e)
  BY <1>9, PutType DEF TypeOK, EndStream, Step, Active, Elsewhere, callVars
<1>10. CASE CancelStream(e)
  BY <1>10, PutType DEF TypeOK, CancelStream, Step, Raised, Elsewhere, callVars
<1>11. CASE FailStream(e)
  BY <1>11 DEF TypeOK, FailStream, Step, Raised, Elsewhere, callVars
<1>12. CASE Stamp(e)
  BY <1>12 DEF TypeOK, Stamp, Step, Raised, Over, Elsewhere, callVars
<1> QED
  BY <1>2, <1>3, <1>4, <1>5, <1>6, <1>7, <1>8, <1>9, <1>10, <1>11, <1>12 DEF Work

(* Each step of the calling thread and of the user keeps the types. *)
LEMMA NextTypeOK == TypeOK /\ [Next]_vars => TypeOK'
<1> SUFFICES ASSUME TypeOK, [Next]_vars PROVE TypeOK'
  OBVIOUS
<1>1. ASSUME NEW p \in UserPaths, UserSaves(p) PROVE TypeOK'
  BY <1>1 DEF TypeOK, UserSaves
<1>2. ASSUME NEW m \in Modes, NEW i \in BOOLEAN, Begin(m, i) PROVE TypeOK'
  BY <1>2, DownloadAssumption DEF TypeOK, Begin, Running, Over
<1>3. CASE Surface
  BY <1>3 DEF TypeOK, Surface, Moves, Running
<1>4. CASE Drained
  BY <1>4 DEF TypeOK, Drained, Moves, Ended
<1>5. CASE Finish
  BY <1>5 DEF TypeOK, Finish, Moves, Ended
<1>6. ASSUME NEW e \in Entries, Work(e) PROVE TypeOK'
  BY <1>6, WorkTypeOK
<1>7. CASE Kill
  BY <1>7 DEF TypeOK, Kill, Moves, Ended
<1>8. CASE UNCHANGED vars
  BY <1>8 DEF TypeOK, vars, callVars
<1> QED
  BY <1>1, <1>2, <1>3, <1>4, <1>5, <1>6, <1>7, <1>8 DEF Next, Call

(* Every variable of the download model keeps its type: numbers of copies  *)
(* stay in their bound and every file goes to a path of the directory.     *)
THEOREM TypeCorrect == Spec => []TypeOK
<1>1. Init => TypeOK
  <2> SUFFICES ASSUME Init PROVE TypeOK
    OBVIOUS
  <2>1. target \in [Entries -> Paths]
    BY DownloadAssumption DEF Init
  <2>2. collisions \in [Originals -> 0..MaxCopies]
    BY DownloadAssumption DEF Init
  <2>3. disk \in [Paths -> {Absent, User, Empty, Part} \cup Entries]
    BY DEF Init
  <2>4. task \in [Entries -> {"queued"} \cup Active \cup Raised \cup Over]
    BY DEF Init, Over
  <2> QED
    BY <2>1, <2>2, <2>3, <2>4 DEF Init, TypeOK
<1> QED
  BY <1>1, NextTypeOK, PTL DEF Spec
-----------------------------------------------------------------------------
(* UserFilesKept is about one step.  What it rests on: a worker that has   *)
(* not asked for a name goes where its file belongs, and a worker of a     *)
(* call that may not overwrite, once it has settled where its file goes,   *)
(* goes to a path that holds no file of the user.                          *)
Settled == Active \ {"claim"}
Unplaced == \A e \in Entries : task[e] \in {"queued", "claim"} => target[e] = PathOf[e]
SettledInv ==
  phase \in Running /\ mode # "OVERWRITE" =>
    \A e \in Entries : task[e] \in Settled => disk[target[e]] # User
UserInv == Unplaced /\ SettledInv

Kept == \A p \in Paths : disk[p] = User /\ disk'[p] # User => mode = "OVERWRITE"

(* A worker that puts a file that is not the user's where it has settled   *)
(* to put it, or nothing at all, leaves the others settled.                *)
LEMMA SettledPut ==
  ASSUME TypeOK, UserInv, NEW e \in Entries, At(e, task[e]), task[e] \in Settled,
         NEW t \in {"stream", "stamp", "failed"}, Step(e, t), Elsewhere,
         NEW x \in {Absent, Empty, Part} \cup Entries, Put(target[e], x)
  PROVE  UserInv' /\ Kept
<1>1. x # User
  BY DownloadAssumption
<1>2. Kept
  BY DEF Kept, UserInv, SettledInv, At, TypeOK, Put
<1>3. \A p \in Paths : disk'[p] = User => disk[p] = User
  BY <1>1 DEF TypeOK, Put
<1>4. Unplaced'
  BY DEF UserInv, Unplaced, Step, Elsewhere, TypeOK
<1>5. SettledInv'
  BY <1>3 DEF UserInv, SettledInv, Step, Elsewhere, TypeOK, callVars
<1> QED
  BY <1>2, <1>4, <1>5 DEF UserInv

(* A task that is settled changes its state, not the disk.                 *)
LEMMA SettledStay ==
  ASSUME TypeOK, UserInv, NEW e \in Entries, At(e, task[e]), task[e] \in Settled,
         NEW t \in {"retry", "done", "failed", "cancelled"}, Step(e, t), Elsewhere,
         disk' = disk
  PROVE  UserInv' /\ Kept
<1>1. Unplaced'
  BY DEF UserInv, Unplaced, Step, Elsewhere, TypeOK
<1>2. SettledInv'
  BY DEF UserInv, SettledInv, Step, Elsewhere, TypeOK, callVars
<1> QED
  BY <1>1, <1>2 DEF UserInv, Kept

(* is_file() finds nothing, or the worker asks for a name, or the call may *)
(* overwrite.                                                              *)
LEMMA SettledExamine ==
  ASSUME TypeOK, UserInv, NEW e \in Entries, Examine(e) PROVE UserInv' /\ Kept
<1>1. task[e] = "queued" /\ \A x \in Entries \ {e} : task'[x] = task[x]
  BY DEF Examine, Step, At, TypeOK
<1>2. target[e] = PathOf[e] /\ disk' = disk /\ target' = target /\ phase' = phase /\ mode' = mode
  BY <1>1 DEF Examine, UserInv, Unplaced, callVars
<1>3. mode = "OVERWRITE" \/ disk[target[e]] = Absent \/ task'[e] \in {"skipped", "claim"}
  <2>1. CASE mode = "OVERWRITE" \/ disk[PathOf[e]] = Absent
    BY <1>2, <2>1
  <2>2. CASE mode # "OVERWRITE" /\ disk[PathOf[e]] # Absent
    <3>1. Step(e, "skipped") \/ Step(e, "claim")
      BY <2>2 DEF Examine, Present
    <3> QED
      BY <3>1 DEF Step, TypeOK
  <2> QED
    BY <2>1, <2>2
<1>4. Unplaced'
  <2> SUFFICES ASSUME NEW x \in Entries, task'[x] \in {"queued", "claim"}
               PROVE  target'[x] = PathOf[x]
    BY DEF Unplaced
  <2> QED
    BY <1>1, <1>2 DEF UserInv, Unplaced
<1>5. Absent # User
  BY DownloadAssumption
<1>6. SettledInv'
  BY <1>1, <1>2, <1>3, <1>5 DEF UserInv, SettledInv, Settled, Active
<1> QED
  BY <1>2, <1>4, <1>6 DEF UserInv, Kept

(* A name that is claimed was free, and the empty file that holds it is    *)
(* not the user's.                                                         *)
LEMMA SettledClaim ==
  ASSUME TypeOK, UserInv, NEW e \in Entries, Claim(e) PROVE UserInv' /\ Kept
<1>1. PICK n \in 0..MaxCopies :
        /\ Free(PathOf[e], n)
        /\ target' = [target EXCEPT ![e] = NameOf(PathOf[e], n)]
        /\ Put(NameOf(PathOf[e], n), Empty)
  BY DEF Claim
<1> DEFINE q == NameOf(PathOf[e], n)
<1>2. q \in Paths /\ disk[q] = Absent
  BY <1>1, NameType, OriginalType DEF Free, Present
<1>3. disk' = [disk EXCEPT ![q] = Empty] /\ disk'[q] = Empty
  BY <1>1, <1>2 DEF Put, TypeOK
<1>4. Empty # User /\ Absent # User
  BY DownloadAssumption
<1> HIDE DEF q
<1>5. \A p \in Paths : disk[p] = User <=> disk'[p] = User
  BY <1>2, <1>3, <1>4 DEF TypeOK
<1>6. phase' = phase /\ mode' = mode
  BY DEF Claim, callVars
<1>7. task'[e] \in {"get", "fetch"} /\ target'[e] = q
  BY <1>1 DEF Claim, Step, Transfer, TypeOK, q
<1>8. \A x \in Entries \ {e} :
        target'[x] = target[x] /\ task'[x] = task[x] /\ target[x] \in Paths
  BY <1>1 DEF TypeOK, Claim, Step
<1>9. Unplaced'
  BY <1>7, <1>8 DEF UserInv, Unplaced
<1>10. SettledInv'
  BY <1>3, <1>4, <1>5, <1>6, <1>7, <1>8 DEF UserInv, SettledInv
<1> QED
  BY <1>5, <1>9, <1>10 DEF UserInv, Kept

(* The steps of a worker leave the user's files alone.                     *)
LEMMA UserWork ==
  ASSUME TypeOK, UserInv, NEW e \in Entries, Work(e) PROVE UserInv' /\ Kept
<1> USE DEF Settled, Active
<1>1. CASE Examine(e)
  BY <1>1, SettledExamine
<1>2. CASE Claim(e)
  BY <1>2, SettledClaim
<1>3. CASE EndTransfer(e)
  BY <1>3, SettledPut DEF EndTransfer, At
<1>4. CASE NotFound(e)
  <2>1. At(e, task[e]) /\ task[e] \in Settled /\ Elsewhere /\ disk' = disk
    BY <1>4 DEF NotFound, At
  <2>2. Step(e, "retry") \/ Step(e, "failed")
    BY <1>4 DEF NotFound
  <2> QED
    BY <2>1, <2>2, SettledStay
<1>5. CASE CancelTransfer(e)
  <2>1. At(e, task[e]) /\ task[e] \in Settled /\ Elsewhere /\ disk' = disk
    BY <1>5 DEF CancelTransfer, At
  <2>2. Step(e, "cancelled") \/ Step(e, "failed")
    BY <1>5 DEF CancelTransfer
  <2> QED
    BY <2>1, <2>2, SettledStay
<1>6. CASE Fail(e)
  <2>1. At(e, task[e]) /\ task[e] \in Settled /\ Elsewhere /\ disk' = disk
    BY <1>6 DEF Fail, At
  <2>2. Step(e, "failed")
    BY <1>6 DEF Fail
  <2> QED
    BY <2>1, <2>2, SettledStay
<1>7. CASE GetObject(e)
  BY <1>7, SettledPut DEF GetObject, At
<1>8. CASE EndStream(e)
  BY <1>8, SettledPut DEF EndStream, At
<1>9. CASE CancelStream(e)
  BY <1>9, SettledPut DEF CancelStream, At
<1>10. CASE FailStream(e)
  BY <1>10, SettledStay DEF FailStream, At
<1>11. CASE Stamp(e)
  <2>1. At(e, task[e]) /\ task[e] \in Settled /\ Elsewhere /\ disk' = disk
    BY <1>11 DEF Stamp, At
  <2>2. Step(e, "done") \/ Step(e, "failed")
    BY <1>11 DEF Stamp
  <2> QED
    BY <2>1, <2>2, SettledStay
<1> QED
  BY <1>1, <1>2, <1>3, <1>4, <1>5, <1>6, <1>7, <1>8, <1>9, <1>10, <1>11 DEF Work

(* So do all steps.                                                        *)
LEMMA UserNext == TypeOK /\ UserInv /\ [Next]_vars => UserInv' /\ (Kept \/ UNCHANGED vars)
<1> SUFFICES ASSUME TypeOK, UserInv, [Next]_vars PROVE UserInv' /\ Kept
  OBVIOUS
<1> USE DEF UserInv, Unplaced, SettledInv, Kept
<1>1. ASSUME NEW p \in UserPaths, UserSaves(p) PROVE UserInv' /\ Kept
  <2>1. phase' \notin Running
    BY <1>1 DEF UserSaves, Running
  <2>2. Kept
    BY <1>1 DEF UserSaves, TypeOK
  <2> QED
    BY <1>1, <2>1, <2>2 DEF UserSaves
<1>2. ASSUME NEW m \in Modes, NEW i \in BOOLEAN, Begin(m, i) PROVE UserInv' /\ Kept
  BY <1>2 DEF Begin, Settled, Active
<1>3. ASSUME NEW t, Moves(t), phase \in Running \/ t \notin Running PROVE UserInv' /\ Kept
  BY <1>3 DEF Moves
<1>4. CASE Surface
  BY <1>3, <1>4 DEF Surface, Running
<1>5. CASE Drained
  BY <1>3, <1>5 DEF Drained, Running
<1>6. CASE Finish
  BY <1>3, <1>6 DEF Finish, Running
<1>7. CASE Kill
  BY <1>3, <1>7 DEF Kill
<1>8. ASSUME NEW e \in Entries, Work(e) PROVE UserInv' /\ Kept
  BY <1>8, UserWork
<1>9. CASE UNCHANGED vars
  BY <1>9 DEF vars, callVars
<1> QED
  BY <1>1, <1>2, <1>4, <1>5, <1>6, <1>7, <1>8, <1>9 DEF Next, Call

(* A call that was not asked to overwrite leaves every file alone that the *)
(* user had when it began: SKIP and CREATE_COPY never lose a user's file,  *)
(* whichever way the calls before them ended.                              *)
THEOREM UserFilesSafe == Spec => UserFilesKept
<1>1. Init => UserInv
  BY DEF Init, UserInv, Unplaced, SettledInv, Running
<1>2. TypeOK /\ UserInv /\ [Next]_vars => UserInv'
  BY UserNext
<1>3. TypeOK /\ UserInv /\ [Next]_vars =>
        [\A p \in Paths : disk[p] = User /\ disk'[p] # User => mode = "OVERWRITE"]_vars
  BY UserNext DEF Kept
<1> QED
  BY <1>1, <1>2, <1>3, TypeCorrect, PTL DEF Spec, UserFilesKept

-----------------------------------------------------------------------------
(* The copies of one path are numbered, no number is given twice, and      *)
(* collision_file_dict holds the last one given.                           *)
NumberedInv ==
  \A e \in Entries :
    Copied(e) => \E n \in 1..collisions[PathOf[e]] : target[e] = CopyPath[PathOf[e]][n]

(* A name that is claimed for a copy has a number nobody else has.         *)
LEMMA NumberedClaim ==
  ASSUME TypeOK, NumberedInv, CopiesApart, NEW e \in Entries, Claim(e)
  PROVE  NumberedInv' /\ CopiesApart'
<1>1. PICK n \in 0..MaxCopies :
        /\ Free(PathOf[e], n)
        /\ target' = [target EXCEPT ![e] = NameOf(PathOf[e], n)]
        /\ collisions' = [collisions EXCEPT ![PathOf[e]] = CountOf(PathOf[e], n)]
  BY DEF Claim
<1> DEFINE p == PathOf[e]
<1>2. p \in Originals /\ collisions[p] \in 0..MaxCopies /\ MaxCopies \in Nat
  BY OriginalType, DownloadAssumption DEF TypeOK
<1>3. n # 0 => n \in 1..MaxCopies /\ n > collisions[p] /\ target'[e] = CopyPath[p][n]
  BY <1>1, <1>2 DEF Free, Tried, NameOf, TypeOK
<1>4. n = 0 => target'[e] = p /\ collisions' = collisions
  BY <1>1, <1>2 DEF NameOf, CountOf, TypeOK
<1>5. \A x \in Entries \ {e} : target'[x] = target[x]
  BY <1>1 DEF TypeOK
<1>6. \A q \in Originals : collisions'[q] >= collisions[q]
  BY <1>1, <1>2, <1>3 DEF CountOf, TypeOK
<1>7. NumberedInv'
  <2> SUFFICES ASSUME NEW x \in Entries, target'[x] # PathOf[x]
               PROVE  \E k \in 1..collisions'[PathOf[x]] : target'[x] = CopyPath[PathOf[x]][k]
    BY DEF NumberedInv, Copied
  <2>1. CASE x = e
    <3>1. n # 0
      BY <1>4, <2>1
    <3>2. collisions'[p] = n
      BY <1>1, <1>2, <3>1 DEF CountOf, TypeOK
    <3> QED
      BY <1>3, <2>1, <3>1, <3>2
  <2>2. CASE x # e
    <3>1. PICK k \in 1..collisions[PathOf[x]] : target[x] = CopyPath[PathOf[x]][k]
      BY <1>5, <2>2 DEF NumberedInv, Copied
    <3>2. k \in 1..collisions'[PathOf[x]]
      <4>1. PathOf[x] \in Originals
        BY OriginalType
      <4>2. collisions[PathOf[x]] \in Nat /\ collisions'[PathOf[x]] \in Nat
        BY <1>1, <1>2, <4>1 DEF TypeOK, CountOf
      <4> QED
        BY <1>6, <4>1, <4>2
    <3> QED
      BY <1>5, <2>2, <3>1, <3>2
  <2> QED
    BY <2>1, <2>2
<1>8. ASSUME NEW x \in Entries \ {e}, target'[x] # PathOf[x], target'[e] # p
      PROVE  target'[x] # target'[e]
  <2>1. n \in 1..MaxCopies /\ n > collisions[p] /\ target'[e] = CopyPath[p][n]
    BY <1>3, <1>4, <1>8
  <2>2. PICK k \in 1..collisions[PathOf[x]] : target[x] = CopyPath[PathOf[x]][k]
    BY <1>5, <1>8 DEF NumberedInv, Copied
  <2>3. PathOf[x] \in Originals /\ collisions[PathOf[x]] \in 0..MaxCopies
    BY OriginalType DEF TypeOK
  <2>4. k \in 1..MaxCopies
    BY <1>2, <2>2, <2>3
  <2>5. SUFFICES ASSUME CopyPath[PathOf[x]][k] = CopyPath[p][n] PROVE FALSE
    BY <1>5, <2>1, <2>2
  <2>6. PathOf[x] = p /\ k = n
    BY <1>2, <2>1, <2>3, <2>4, <2>5, DownloadAssumption
  <2> QED
    BY <2>1, <2>2, <2>3, <2>6
<1>9. CopiesApart'
  BY <1>5, <1>8 DEF CopiesApart, Copied
<1> QED
  BY <1>7, <1>9

(* Every step keeps the numbers and the copies apart.                      *)
LEMMA NumberedNext ==
  TypeOK /\ NumberedInv /\ CopiesApart /\ [Next]_vars => NumberedInv' /\ CopiesApart'
<1> SUFFICES ASSUME TypeOK, NumberedInv, CopiesApart, [Next]_vars
             PROVE  NumberedInv' /\ CopiesApart'
  OBVIOUS
<1>1. CASE target' = target /\ collisions' = collisions
  BY <1>1 DEF NumberedInv, CopiesApart, Copied
<1>2. ASSUME NEW m \in Modes, NEW i \in BOOLEAN, Begin(m, i) PROVE NumberedInv' /\ CopiesApart'
  BY <1>2 DEF Begin, NumberedInv, CopiesApart, Copied
<1>3. ASSUME NEW e \in Entries, Claim(e) PROVE NumberedInv' /\ CopiesApart'
  BY <1>3, NumberedClaim
<1>4. ASSUME NEW e \in Entries, Work(e), ~Claim(e) PROVE target' = target /\ collisions' = collisions
  BY <1>4 DEF Work, Examine, EndTransfer, NotFound, CancelTransfer, Fail, GetObject, EndStream,
              CancelStream, FailStream, Stamp, Elsewhere
<1>5. ASSUME Surface \/ Drained \/ Finish \/ Kill PROVE target' = target /\ collisions' = collisions
  BY <1>5 DEF Surface, Drained, Finish, Kill, Moves
<1>6. ASSUME NEW p \in UserPaths, UserSaves(p) PROVE target' = target /\ collisions' = collisions
  BY <1>6 DEF UserSaves
<1>7. CASE UNCHANGED vars
  BY <1>1, <1>7 DEF vars
<1> QED
  BY <1>1, <1>2, <1>3, <1>4, <1>5, <1>6, <1>7 DEF Next, Call

(* Two files of one call never go to the same copy, for any number of      *)
(* workers: the lock, the numbers it guards and the empty files that hold  *)
(* the names keep them apart, also where manifests list a path twice.      *)
THEOREM CopiesNeverMeet == Spec => []CopiesApart
<1>1. Init => NumberedInv /\ CopiesApart
  BY DEF Init, NumberedInv, CopiesApart, Copied
<1> QED
  BY <1>1, NumberedNext, TypeCorrect, PTL DEF Spec

-----------------------------------------------------------------------------
(* A file that has come is where it went, until another worker of the call *)
(* that goes there has written too.  A call that returns has no worker     *)
(* that failed, so the other one is done as well.                          *)
Wrote == {"stream", "stamp", "done"} \cup Raised
DeliveredInv ==
  phase \in Running \cup {"ok"} =>
    \A e \in Entries :
      task[e] \in {"stamp", "done"} =>
        \/ disk[target[e]] = e
        \/ \E x \in Entries \ {e} : target[x] = target[e] /\ task[x] \in Wrote
OkInv == phase = "ok" => AllDone

(* A worker that goes on where it went, and is one of those that wrote     *)
(* when it writes, keeps what is said of the others.                       *)
LEMMA DeliveredStep ==
  ASSUME TypeOK, DeliveredInv, phase \in Running, NEW e \in Entries,
         NEW t \in {"retry", "stream", "stamp", "done", "failed", "cancelled"},
         Step(e, t), Elsewhere,
         task[e] \in Wrote => t \in Wrote,
         disk' = disk \/ (t \in Wrote /\ \E x : Put(target[e], x)),
         t \in {"stamp", "done"} => disk'[target[e]] = e \/ (disk' = disk /\ task[e] = "stamp")
  PROVE  DeliveredInv'
<1>1. task'[e] = t /\ (\A x \in Entries \ {e} : task'[x] = task[x]) /\ target' = target
  BY DEF Step, TypeOK, Elsewhere
<1>2. SUFFICES ASSUME NEW y \in Entries, task'[y] \in {"stamp", "done"}, disk'[target[y]] # y
               PROVE  \E x \in Entries \ {y} : target[x] = target[y] /\ task'[x] \in Wrote
  BY <1>1 DEF DeliveredInv
<1>3. ASSUME disk[target[y]] # y, task[y] \in {"stamp", "done"}
      PROVE  \E x \in Entries \ {y} : target[x] = target[y] /\ task'[x] \in Wrote
  <2>1. PICK x \in Entries \ {y} : target[x] = target[y] /\ task[x] \in Wrote
    BY <1>3 DEF DeliveredInv
  <2> QED
    BY <1>1, <2>1
<1>4. CASE y = e
  BY <1>1, <1>2, <1>3, <1>4
<1>5. CASE y # e
  <2>1. task[y] \in {"stamp", "done"}
    BY <1>1, <1>2, <1>5
  <2>2. CASE disk' = disk
    BY <1>2, <1>3, <2>1, <2>2
  <2>3. CASE t \in Wrote /\ \E x : Put(target[e], x)
    <3>1. target[y] # target[e] => disk'[target[y]] = disk[target[y]]
      BY <2>3 DEF Put, TypeOK
    <3>2. CASE target[y] = target[e]
      BY <1>1, <1>5, <2>3, <3>2
    <3> QED
      BY <1>2, <1>3, <2>1, <3>1, <3>2
  <2> QED
    BY <2>2, <2>3
<1> QED
  BY <1>4, <1>5

(* A name is claimed where there is nothing: a file that had come there    *)
(* has been replaced already.                                              *)
LEMMA DeliveredClaim ==
  ASSUME TypeOK, DeliveredInv, NEW e \in Entries, Claim(e) PROVE DeliveredInv'
<1>1. PICK n \in 0..MaxCopies :
        /\ Free(PathOf[e], n)
        /\ target' = [target EXCEPT ![e] = NameOf(PathOf[e], n)]
        /\ Put(NameOf(PathOf[e], n), Empty)
  BY DEF Claim
<1>2. disk[NameOf(PathOf[e], n)] = Absent
  BY <1>1 DEF Free, Present
<1>3. phase \in Running /\ task[e] = "claim" /\ task'[e] \in {"get", "fetch"}
  BY DEF Claim, At, Step, Transfer, TypeOK
<1>4. \A x \in Entries \ {e} : task'[x] = task[x] /\ target'[x] = target[x]
  BY <1>1 DEF Claim, Step, TypeOK
<1>5. \A p \in Paths : disk[p] # Absent => disk'[p] = disk[p]
  BY <1>1, <1>2 DEF Put, TypeOK
<1>6. Absent \notin Entries
  BY DownloadAssumption
<1>7. SUFFICES ASSUME NEW y \in Entries, task'[y] \in {"stamp", "done"}, disk'[target'[y]] # y
               PROVE  \E x \in Entries \ {y} : target'[x] = target'[y] /\ task'[x] \in Wrote
  BY DEF DeliveredInv
<1>8. y # e /\ task[y] \in {"stamp", "done"} /\ disk[target[y]] # y
  BY <1>3, <1>4, <1>5, <1>6, <1>7 DEF TypeOK
<1>9. PICK x \in Entries \ {y} : target[x] = target[y] /\ task[x] \in Wrote
  BY <1>3, <1>8 DEF DeliveredInv
<1>10. x # e
  BY <1>3, <1>9 DEF Wrote, Raised
<1> QED
  BY <1>4, <1>8, <1>9, <1>10

(* The steps of a worker keep what has been delivered.                     *)
LEMMA DeliveredWork ==
  ASSUME TypeOK, DeliveredInv, NEW e \in Entries, Work(e) PROVE DeliveredInv'
<1> USE DEF Wrote, Raised
<1>0. phase \in Running /\ target[e] \in Paths
  BY DEF Work, Examine, Claim, EndTransfer, NotFound, CancelTransfer, Fail, GetObject, EndStream,
         CancelStream, FailStream, Stamp, At, TypeOK
<1>1. CASE Examine(e)
  <2>1. task[e] = "queued" /\ task'[e] \in {"fetch", "get", "skipped", "claim"}
    BY <1>1 DEF Examine, At, Step, Transfer, TypeOK
  <2>2. \A x \in Entries \ {e} : task'[x] = task[x]
    BY <1>1 DEF Examine, Step, TypeOK
  <2> QED
    BY <1>0, <1>1, <2>1, <2>2 DEF Examine, DeliveredInv
<1>2. CASE Claim(e)
  BY <1>2, DeliveredClaim
<1>3. CASE EndTransfer(e)
  <2>1. disk'[target[e]] = e
    BY <1>0, <1>3 DEF EndTransfer, Put, TypeOK
  <2> QED
    BY <1>0, <1>3, <2>1, DeliveredStep DEF EndTransfer
<1>4. CASE NotFound(e)
  BY <1>0, <1>4, DeliveredStep DEF NotFound, At
<1>5. CASE CancelTransfer(e)
  BY <1>0, <1>5, DeliveredStep DEF CancelTransfer, At
<1>6. CASE Fail(e)
  BY <1>0, <1>6, DeliveredStep DEF Fail
<1>7. CASE GetObject(e)
  BY <1>0, <1>7, DeliveredStep DEF GetObject
<1>8. CASE EndStream(e)
  <2>1. disk'[target[e]] = e
    BY <1>0, <1>8 DEF EndStream, Put, TypeOK
  <2> QED
    BY <1>0, <1>8, <2>1, DeliveredStep DEF EndStream
<1>9. CASE CancelStream(e)
  BY <1>0, <1>9, DeliveredStep DEF CancelStream
<1>10. CASE FailStream(e)
  BY <1>0, <1>10, DeliveredStep DEF FailStream
<1>11. CASE Stamp(e)
  <2>1. Step(e, "done") \/ Step(e, "failed")
    BY <1>11 DEF Stamp
  <2> QED
    BY <1>0, <1>11, <2>1, DeliveredStep DEF Stamp, At
<1> QED
  BY <1>1, <1>2, <1>3, <1>4, <1>5, <1>6, <1>7, <1>8, <1>9, <1>10, <1>11 DEF Work

(* So do all steps; a call returns normally only when every task is done.  *)
LEMMA DeliveredNext ==
  TypeOK /\ DeliveredInv /\ OkInv /\ [Next]_vars => DeliveredInv' /\ OkInv'
<1> SUFFICES ASSUME TypeOK, DeliveredInv, OkInv, [Next]_vars PROVE DeliveredInv' /\ OkInv'
  OBVIOUS
<1>1. ASSUME NEW p \in UserPaths, UserSaves(p) PROVE DeliveredInv' /\ OkInv'
  BY <1>1 DEF UserSaves, DeliveredInv, OkInv, Running
<1>2. ASSUME NEW m \in Modes, NEW i \in BOOLEAN, Begin(m, i) PROVE DeliveredInv' /\ OkInv'
  BY <1>2 DEF Begin, DeliveredInv, OkInv
<1>3. ASSUME NEW t, Moves(t), phase \in Running, t = "ok" => AllDone PROVE DeliveredInv' /\ OkInv'
  BY <1>3 DEF Moves, DeliveredInv, OkInv, AllDone
<1>4. CASE Surface
  BY <1>3, <1>4 DEF Surface, Running
<1>5. CASE Drained
  BY <1>3, <1>5 DEF Drained, Running
<1>6. CASE Finish
  BY <1>3, <1>6 DEF Finish, Running, AllDone
<1>7. CASE Kill
  BY <1>3, <1>7 DEF Kill
<1>8. ASSUME NEW e \in Entries, Work(e) PROVE DeliveredInv' /\ OkInv'
  <2>1. phase \in Running /\ phase' = phase
    BY <1>8 DEF Work, Examine, Claim, EndTransfer, NotFound, CancelTransfer, Fail, GetObject,
                EndStream, CancelStream, FailStream, Stamp, At, Elsewhere, callVars
  <2> QED
    BY <1>8, <2>1, DeliveredWork DEF OkInv, Running
<1>9. CASE UNCHANGED vars
  BY <1>9 DEF vars, callVars, DeliveredInv, OkInv, AllDone
<1> QED
  BY <1>1, <1>2, <1>4, <1>5, <1>6, <1>7, <1>8, <1>9 DEF Next, Call

(* A call that returns normally has every file it says it has downloaded   *)
(* in its place, unless another file of the call went there too, whatever  *)
(* the workers did in whatever order.                                      *)
THEOREM FilesDelivered == Spec => []Delivered
<1>1. Init => DeliveredInv /\ OkInv
  BY DEF Init, DeliveredInv, OkInv, Running
<1>2. DeliveredInv /\ OkInv => Delivered
  <2> SUFFICES ASSUME DeliveredInv, OkInv, phase = "ok", NEW e \in Entries, task[e] = "done",
                      \A x \in Entries \ {e} : task[x] = "done" => target[x] # target[e]
               PROVE  disk[target[e]] = e
    BY DEF Delivered
  <2>1. \A x \in Entries : task[x] \in Wrote => task[x] = "done"
    BY DEF OkInv, AllDone, Over, Wrote, Raised
  <2> QED
    BY <2>1 DEF DeliveredInv
<1> QED
  BY <1>1, <1>2, DeliveredNext, TypeCorrect, PTL DEF Spec

-----------------------------------------------------------------------------
(* What a path of the manifests that no copy is named after holds: nothing *)
(* the code left half done, except where streaming was cut short.  The one *)
(* way to take away a file of another entry is a stream that is cancelled; *)
(* only incremental downloads stream, and they list no path twice, so a    *)
(* worker that saw a file where its own belongs will not find it gone and  *)
(* leave an empty file there.                                              *)
Whole(p) ==
  \/ disk[p] \in {Absent, User}
  \/ \E x \in Entries : PathOf[x] = p /\ disk[p] = x
WholeInv == \A p \in Originals \ CopyNames : p \in torn \/ Whole(p)
SeenInv ==
  \A e \in Entries :
    task[e] \in {"claim", "skipped"} => disk[PathOf[e]] # Absent \/ PathOf[e] \in CopyNames
StreamInv ==
  \A e \in Entries : phase \in Running /\ task[e] \in {"get", "stream"} => incremental
OnceInv ==
  incremental =>
    \A x, y \in Entries :
      PathOf[x] = PathOf[y] /\ task[x] # "unlisted" /\ task[y] # "unlisted" => x = y
SkipInv == WholeInv /\ SeenInv /\ StreamInv /\ OnceInv

(* A merge has every path once.                                            *)
LEMMA MergedOnce ==
  ASSUME NEW S \in SUBSET Entries, Merged(S), NEW x \in S, NEW y \in S, PathOf[x] = PathOf[y]
  PROVE  x = y
<1> DEFINE T == {e \in S : PathOf[e] = PathOf[x]}
<1>1. Cardinality(T) = 1
  BY OriginalType DEF Merged
<1>2. IsFiniteSet(T)
  BY EntriesAssumption, FS_Subset
<1> HIDE DEF T
<1>3. PICK z : T = {z}
  BY <1>1, <1>2, FS_Singleton
<1> QED
  BY <1>3 DEF T

(* A worker writes where its file belongs, or under the name of a copy.    *)
LEMMA TargetOf ==
  ASSUME TypeOK, NumberedInv, NEW e \in Entries, target[e] \notin CopyNames
  PROVE  target[e] = PathOf[e]
<1> SUFFICES ASSUME Copied(e) PROVE FALSE
  BY DEF Copied
<1>1. PICK n \in 1..collisions[PathOf[e]] : target[e] = CopyPath[PathOf[e]][n]
  BY DEF NumberedInv
<1>2. n \in 1..MaxCopies /\ PathOf[e] \in Originals
  BY OriginalType, DownloadAssumption DEF TypeOK
<1> QED
  BY <1>1, <1>2 DEF CopyNames

(* A worker that goes on where it went and puts its own file there, or     *)
(* part of it.                                                             *)
LEMMA SkipStep ==
  ASSUME TypeOK, NumberedInv, SkipInv, phase \in Running, NEW e \in Entries,
         task[e] \in Settled, Elsewhere,
         NEW t \in {"retry", "stream", "stamp", "done", "failed", "cancelled"}, Step(e, t),
         t = "stream" => task[e] = "get",
         \/ disk' = disk /\ torn' = torn
         \/ Put(target[e], e) /\ torn' = torn \ {target[e]}
         \/ Put(target[e], Part) /\ torn' = torn \cup {target[e]}
         \/ Put(target[e], Absent) /\ torn' = torn \ {target[e]} /\ task[e] = "stream"
  PROVE  SkipInv'
<1>1. task'[e] = t /\ (\A x \in Entries \ {e} : task'[x] = task[x])
  BY DEF Step, TypeOK
<1>2. target' = target /\ phase' = phase /\ incremental' = incremental /\ target[e] \in Paths
  BY DEF Elsewhere, callVars, TypeOK
<1>3. \A p \in Paths \ {target[e]} : disk'[p] = disk[p] /\ (p \in torn' <=> p \in torn)
  BY DEF Put, TypeOK
<1>4. target[e] \notin CopyNames => target[e] = PathOf[e]
  BY TargetOf
<1>5. \/ disk' = disk /\ torn' = torn
      \/ disk'[target[e]] = e
      \/ disk'[target[e]] = Part /\ target[e] \in torn'
      \/ disk'[target[e]] = Absent /\ task[e] = "stream"
  BY <1>2 DEF Put, TypeOK
<1>6. \A p \in Originals : p \in Paths
  BY OriginalType DEF Originals
<1>7. WholeInv'
  <2> SUFFICES ASSUME NEW p \in Originals \ CopyNames PROVE p \in torn' \/ Whole(p)'
    BY DEF WholeInv
  <2>1. CASE p # target[e]
    BY <1>3, <1>6, <2>1 DEF SkipInv, WholeInv, Whole
  <2>2. CASE p = target[e]
    BY <1>4, <1>5, <2>2 DEF SkipInv, WholeInv, Whole
  <2> QED
    BY <2>1, <2>2
<1>8. SeenInv'
  <2> SUFFICES ASSUME NEW x \in Entries, task'[x] \in {"claim", "skipped"},
                      PathOf[x] \notin CopyNames
               PROVE  disk'[PathOf[x]] # Absent
    BY DEF SeenInv
  <2>1. x # e /\ task[x] = task'[x] /\ PathOf[x] \in Paths
    BY <1>1, OriginalType
  <2>2. disk[PathOf[x]] # Absent
    BY <2>1 DEF SkipInv, SeenInv
  <2>3. CASE PathOf[x] # target[e]
    BY <1>3, <2>1, <2>2, <2>3
  <2>4. CASE PathOf[x] = target[e]
    <3>1. PathOf[x] = PathOf[e]
      BY <1>4, <2>4
    <3>2. task[e] # "stream"
      <4> SUFFICES ASSUME task[e] = "stream" PROVE FALSE
        OBVIOUS
      <4>1. incremental
        BY DEF SkipInv, StreamInv
      <4> QED
        BY <2>1, <3>1, <4>1 DEF SkipInv, OnceInv
    <3>3. Absent # Part /\ Absent \notin Entries
      BY DownloadAssumption
    <3> QED
      BY <1>5, <2>2, <2>4, <3>2, <3>3
  <2> QED
    BY <2>3, <2>4
<1>9. StreamInv'
  BY <1>1, <1>2 DEF SkipInv, StreamInv
<1>10. OnceInv'
  BY <1>1, <1>2 DEF SkipInv, OnceInv, Settled, Active
<1> QED
  BY <1>7, <1>8, <1>9, <1>10 DEF SkipInv

(* A worker skips a file, or asks for a copy's name, only where it has     *)
(* seen a file; so looking keeps the invariant.                            *)
LEMMA SkipExamine ==
  ASSUME TypeOK, SkipInv, NEW e \in Entries, Examine(e) PROVE SkipInv'
<1>1. task[e] = "queued" /\ (\A x \in Entries \ {e} : task'[x] = task[x])
  BY DEF Examine, At, Step, TypeOK
<1>2. UNCHANGED <<callVars, target, collisions, disk, torn>>
  BY DEF Examine
<1>3. task'[e] \in {"skipped", "claim", "fetch"} \/ (task'[e] = "get" /\ incremental)
  BY DEF Examine, Step, Transfer, TypeOK
<1>4. task'[e] \in {"skipped", "claim"} => disk[PathOf[e]] # Absent
  <2>1. CASE Present(PathOf[e])
    BY <2>1 DEF Present
  <2>2. CASE ~Present(PathOf[e])
    <3>1. task'[e] = Transfer(e)
      BY <2>2 DEF Examine, Step, TypeOK
    <3> QED
      BY <3>1 DEF Transfer
  <2> QED
    BY <2>1, <2>2
<1>5. WholeInv'
  BY <1>2 DEF SkipInv, WholeInv, Whole
<1>6. SeenInv'
  BY <1>1, <1>2, <1>4 DEF SkipInv, SeenInv
<1>7. StreamInv'
  BY <1>1, <1>2, <1>3 DEF SkipInv, StreamInv, callVars
<1>8. OnceInv'
  BY <1>1, <1>2 DEF SkipInv, OnceInv, callVars
<1> QED
  BY <1>5, <1>6, <1>7, <1>8 DEF SkipInv

(* Claiming a name for a copy takes nothing from what may be skipped.      *)
LEMMA SkipClaim ==
  ASSUME TypeOK, SkipInv, NEW e \in Entries, Claim(e) PROVE SkipInv'
<1>1. PICK n \in 0..MaxCopies :
        Free(PathOf[e], n) /\ Put(NameOf(PathOf[e], n), Empty)
  BY DEF Claim
<1> DEFINE q == NameOf(PathOf[e], n)
<1>2. q \in Paths /\ disk[q] = Absent
  BY <1>1, NameType, OriginalType DEF Free, Present
<1>3. task[e] = "claim" /\ (\A x \in Entries \ {e} : task'[x] = task[x])
  BY DEF Claim, At, Step, TypeOK
<1>4. task'[e] = "fetch" \/ (task'[e] = "get" /\ incremental)
  BY DEF Claim, Step, Transfer, TypeOK
<1>5. phase' = phase /\ incremental' = incremental /\ torn' = torn
  BY DEF Claim, callVars
<1>6. q \in CopyNames
  <2>1. CASE n = 0
    BY <1>2, <1>3, <2>1 DEF SkipInv, SeenInv, NameOf
  <2>2. CASE n # 0
    <3>1. n \in 1..MaxCopies
      BY <2>2, DownloadAssumption
    <3> QED
      BY <2>2, <3>1, OriginalType DEF NameOf, CopyNames
  <2> QED
    BY <2>1, <2>2
<1> HIDE DEF q
<1>7. \A p \in Paths : p # q => disk'[p] = disk[p]
  BY <1>1 DEF Put, TypeOK, q
<1>8. \A p \in Originals : p \in Paths
  BY OriginalType DEF Originals
<1>9. WholeInv'
  BY <1>5, <1>6, <1>7, <1>8 DEF SkipInv, WholeInv, Whole
<1>10. SeenInv'
  BY <1>3, <1>4, <1>6, <1>7, OriginalType DEF SkipInv, SeenInv
<1>11. StreamInv'
  BY <1>3, <1>4, <1>5 DEF SkipInv, StreamInv
<1>12. OnceInv'
  BY <1>3, <1>5 DEF SkipInv, OnceInv
<1> QED
  BY <1>9, <1>10, <1>11, <1>12 DEF SkipInv

(* The steps of a worker keep the skipped files usable.                    *)
LEMMA SkipWork ==
  ASSUME TypeOK, NumberedInv, SkipInv, NEW e \in Entries, Work(e) PROVE SkipInv'
<1> USE SkipStep DEF Settled, Active, At
<1>1. CASE Examine(e)
  BY <1>1, SkipExamine
<1>2. CASE Claim(e)
  BY <1>2, SkipClaim
<1>3. CASE EndTransfer(e)
  BY <1>3 DEF EndTransfer
<1>4. CASE NotFound(e)
  BY <1>4 DEF NotFound
<1>5. CASE CancelTransfer(e)
  BY <1>5 DEF CancelTransfer
<1>6. CASE Fail(e)
  BY <1>6 DEF Fail
<1>7. CASE GetObject(e)
  BY <1>7 DEF GetObject
<1>8. CASE EndStream(e)
  BY <1>8 DEF EndStream
<1>9. CASE CancelStream(e)
  BY <1>9 DEF CancelStream
<1>10. CASE FailStream(e)
  BY <1>10 DEF FailStream
<1>11. CASE Stamp(e)
  <2>1. Step(e, "done") \/ Step(e, "failed")
    BY <1>11 DEF Stamp
  <2> QED
    BY <1>11, <2>1 DEF Stamp
<1> QED
  BY <1>1, <1>2, <1>3, <1>4, <1>5, <1>6, <1>7, <1>8, <1>9, <1>10, <1>11 DEF Work

(* So do all steps.                                                        *)
LEMMA SkipNext == TypeOK /\ NumberedInv /\ SkipInv /\ [Next]_vars => SkipInv'
<1> SUFFICES ASSUME TypeOK, NumberedInv, SkipInv, [Next]_vars PROVE SkipInv'
  OBVIOUS
<1> USE DEF SkipInv
<1>1. ASSUME NEW p \in UserPaths, UserSaves(p) PROVE SkipInv'
  <2>1. disk' = [disk EXCEPT ![p] = User] /\ torn' = torn \ {p} /\ phase' = "idle"
        /\ UNCHANGED <<task, incremental>>
    BY <1>1 DEF UserSaves
  <2>2. \A q \in Paths : disk'[q] = IF q = p THEN User ELSE disk[q]
    BY <2>1 DEF TypeOK
  <2>3. Absent # User
    BY DownloadAssumption
  <2>4. \A q \in Originals : q \in Paths
    BY OriginalType DEF Originals
  <2>5. WholeInv'
    BY <2>1, <2>2, <2>4 DEF WholeInv, Whole
  <2>6. SeenInv'
    BY <2>1, <2>2, <2>3, OriginalType DEF SeenInv
  <2> QED
    BY <2>1, <2>5, <2>6 DEF StreamInv, OnceInv, Running
<1>2. ASSUME NEW m \in Modes, NEW i \in BOOLEAN, Begin(m, i) PROVE SkipInv'
  <2>1. PICK S \in Listed(m, i) :
          task' = [e \in Entries |-> IF e \in S THEN "queued" ELSE "unlisted"]
    BY <1>2 DEF Begin
  <2>2. incremental' = i /\ disk' = disk /\ torn' = torn
    BY <1>2 DEF Begin
  <2>3. OnceInv'
    <3> SUFFICES ASSUME i, NEW x \in Entries, NEW y \in Entries, PathOf[x] = PathOf[y],
                        task'[x] # "unlisted", task'[y] # "unlisted"
                 PROVE  x = y
      BY <2>2 DEF OnceInv
    <3>1. S \in SUBSET Entries /\ Merged(S) /\ x \in S /\ y \in S
      BY <2>1 DEF Listed
    <3> QED
      BY <3>1, MergedOnce
  <2> QED
    BY <2>1, <2>2, <2>3 DEF WholeInv, Whole, SeenInv, StreamInv
<1>3. ASSUME NEW t, Moves(t), phase \in Running PROVE SkipInv'
  BY <1>3 DEF Moves, WholeInv, Whole, SeenInv, StreamInv, OnceInv
<1>4. CASE Surface
  BY <1>3, <1>4 DEF Surface, Running
<1>5. CASE Drained
  BY <1>3, <1>5 DEF Drained, Running
<1>6. CASE Finish
  BY <1>3, <1>6 DEF Finish, Running
<1>7. CASE Kill
  BY <1>3, <1>7 DEF Kill
<1>8. ASSUME NEW e \in Entries, Work(e) PROVE SkipInv'
  BY <1>8, SkipWork
<1>9. CASE UNCHANGED vars
  BY <1>9 DEF vars, callVars, WholeInv, Whole, SeenInv, StreamInv, OnceInv
<1> QED
  BY <1>1, <1>2, <1>4, <1>5, <1>6, <1>7, <1>8, <1>9 DEF Next, Call

(* A file that a call skips is the user's or a whole file that belongs     *)
(* there, however the calls before were cut short, unless it was streaming *)
(* when they were or the path is also named for a copy.                    *)
THEOREM SkippedWhole == Spec => []SkippedUsable
<1>1. Init => NumberedInv /\ CopiesApart /\ SkipInv
  <2> SUFFICES ASSUME Init PROVE NumberedInv /\ CopiesApart /\ SkipInv
    OBVIOUS
  <2>1. NumberedInv /\ CopiesApart
    BY DEF Init, NumberedInv, CopiesApart, Copied
  <2>2. WholeInv
    BY OriginalType DEF Init, WholeInv, Whole, Originals
  <2> QED
    BY <2>1, <2>2 DEF Init, SkipInv, SeenInv, StreamInv, OnceInv
<1>2. SkipInv => SkippedUsable
  BY OriginalType DEF SkipInv, WholeInv, Whole, SeenInv, SkippedUsable
<1> QED
  BY <1>1, <1>2, NumberedNext, SkipNext, TypeCorrect, PTL DEF Spec
=============================================================================
