-------------------------- MODULE Workstation_proofs --------------------------
(***************************************************************************)
(* Theorems about the commands of a workstation whatever the files, paths, *)
(* rules and runs: the state file survives, the longest rule maps a path,  *)
(* and snapshots and their differences add up.  At the end they are put    *)
(* together: every run of Workstation is a run of each of its commands,    *)
(* so that what is proved of a command, here and in Submission_proofs,     *)
(* holds of the workstation.                                               *)
(***************************************************************************)
EXTENDS Workstation, Submission_proofs, Loops, SequenceTheorems, TLAPS

-----------------------------------------------------------------------------
(* DownloadState *)


(* What is written is the text of the state in memory, all of it once the  *)
(* dump has ended, and nobody but the run writes it.                       *)
SavingInv ==
  /\ step \in [Runs -> {"idle", "ready", "writing", "written", "failed"}]
  /\ memory \in [Runs -> States \cup {Absent}]
  /\ temp \in [Runs -> Texts \cup {Absent}]
  /\ statefile \in Texts \cup {Absent} /\ last \in States \cup {Absent}
  /\ \A w \in Runs :
       /\ step[w] \in {"ready", "writing", "written"} => memory[w] \in States
       /\ step[w] \in {"writing", "written"} =>
            temp[w] \in Texts /\ temp[w].dict = ToDict(memory[w])
       /\ step[w] = "written" => temp[w].whole
StateInv == SavingInv /\ StateSurvives

(* A job comes back from its dictionary as it was. *)
LEMMA JobRoundTrip ==
  ASSUME NEW j \in JobStates
  PROVE  JobOf(JobDict(j)) = j
<1> DEFINE e == "sessionEndedTimestamp"
           i == "sessionCompletedIndexes"
<1>1. DOMAIN JobDict(j) = JobKeys(j)
  BY DEF JobDict
<1>2. OrElse(JobDict(j), e, Absent) = j.ended
  <2>1. e \in JobKeys(j) <=> j.ended # Absent
    BY DEF JobKeys
  <2>2. e \in JobKeys(j) => JobDict(j)[e] = j.ended
    BY DEF JobDict
  <2> QED
    BY <1>1, <2>1, <2>2 DEF OrElse
<1>3. OrElse(JobDict(j), i, {}) = j.indexes
  <2>1. i \in JobKeys(j) <=> j.indexes # {}
    BY DEF JobKeys
  <2>2. i \in JobKeys(j) => JobDict(j)[i] = j.indexes
    BY DEF JobDict
  <2> QED
    BY <1>1, <2>1, <2>2 DEF OrElse
<1> QED
  BY <1>2, <1>3 DEF JobOf, JobStates

(* So does a state, whatever it knows of its jobs.                         *)
LEMMA RoundTrip ==
  ASSUME NEW s \in States
  PROVE  FromDict(ToDict(s)) = s
<1>1. PICK S \in SUBSET DJobs : s.jobs \in [S -> JobStates]
  BY DEF States
<1>2. s = [started |-> s.started, completed |-> s.completed, margin |-> s.margin, jobs |-> s.jobs]
  BY DEF States
<1>3. s.margin \in Nat /\ s.margin # 0
  BY StateAssumption DEF States
<1> DEFINE d == ToDict(s)
<1>4. /\ d.started = s.started /\ d.completed = s.completed /\ d.margin = s.margin
      /\ d.jobs = [j \in S |-> JobDict(s.jobs[j])]
  BY <1>1, <1>2 DEF ToDict
<1>5. MarginOf(d.margin) = s.margin
  BY <1>3, <1>4 DEF MarginOf
<1>6. [j \in DOMAIN d.jobs |-> JobOf(d.jobs[j])] = s.jobs
  <2>1. DOMAIN d.jobs = S
    BY <1>4
  <2>2. \A j \in S : JobOf(d.jobs[j]) = s.jobs[j]
    BY <1>1, <1>4, JobRoundTrip
  <2> QED
    BY <1>1, <2>1, <2>2
<1>7. FromDict(d) = [started |-> s.started, completed |-> s.completed, margin |-> s.margin, jobs |-> s.jobs]
  BY <1>4, <1>5, <1>6 DEF FromDict
<1> QED
  BY <1>2, <1>7

(* A run that starts afresh has a state. *)
LEMMA FreshIsState ==
  ASSUME NEW stamp \in Stamps, NEW m \in Margins
  PROVE  Fresh(stamp, m) \in States
<1>1. MarginOf(m) \in Margins \ {0}
  BY StateAssumption DEF MarginOf
<1>2. [j \in {} |-> Absent] \in [{} -> JobStates] /\ {} \in SUBSET DJobs
  OBVIOUS
<1> QED
  BY <1>1, <1>2 DEF Fresh, States

(* What a dump writes, in part or in full, is a text.                      *)
LEMMA TextOf ==
  ASSUME NEW s \in States, NEW b \in BOOLEAN
  PROVE  [dict |-> ToDict(s), whole |-> b] \in Texts
BY DEF Texts

(* Before the first run nothing was saved and nothing is being saved.      *)
LEMMA InitStateInv == StateInit => StateInv
BY DEF StateInit, StateInv, SavingInv, StateSurvives

(* A run writes the text of its state, a part of it or the whole.          *)
LEMMA Writing ==
  ASSUME SavingInv, NEW w \in Runs, memory[w] \in States, NEW b \in BOOLEAN,
         NEW where \in {"writing", "written"}, where = "written" => b,
         temp' = [temp EXCEPT ![w] = [dict |-> ToDict(memory[w]), whole |-> b]],
         step' = [step EXCEPT ![w] = where], UNCHANGED <<memory, statefile, last>>
  PROVE  SavingInv'
<1> DEFINE text == [dict |-> ToDict(memory[w]), whole |-> b]
<1>1. text \in Texts /\ text.dict = ToDict(memory[w]) /\ text.whole = b
  BY TextOf
<1> HIDE DEF text
<1>2. step' \in [Runs -> {"idle", "ready", "writing", "written", "failed"}]
  BY DEF SavingInv
<1>3. temp' = [temp EXCEPT ![w] = text] /\ temp' \in [Runs -> Texts \cup {Absent}]
  BY <1>1 DEF SavingInv, text
<1>4. ASSUME NEW v \in Runs
      PROVE  /\ step'[v] \in {"ready", "writing", "written"} => memory'[v] \in States
             /\ step'[v] \in {"writing", "written"} =>
                  temp'[v] \in Texts /\ temp'[v].dict = ToDict(memory'[v])
             /\ step'[v] = "written" => temp'[v].whole
  <2>1. CASE v = w
    <3>1. step'[v] = where /\ temp'[v] = text /\ memory'[v] = memory[w]
      BY <1>3, <2>1 DEF SavingInv
    <3> QED
      BY <1>1, <3>1
  <2>2. CASE v # w
    BY <1>3, <2>2 DEF SavingInv
  <2> QED
    BY <2>1, <2>2
<1> QED
  BY <1>2, <1>3, <1>4 DEF SavingInv

(* Every step of a run keeps the invariant.                                *)
LEMMA RunStateInv ==
  ASSUME StateInv, NEW w \in Runs,
         \/ Bootstrap(w) \/ FromFile(w) \/ Advance(w)
         \/ BeginSave(w) \/ EndDump(w) \/ Replace(w) \/ Kill(w)
  PROVE  StateInv'
<1> USE AbsentAssumption DEF StateInv
<1>1. CASE Bootstrap(w)
  <2>1. PICK s \in States : memory' = [memory EXCEPT ![w] = s]
    BY <1>1, FreshIsState DEF Bootstrap
  <2>2. SavingInv'
    BY <1>1, <2>1 DEF Bootstrap, Starts, SavingInv
  <2>3. StateSurvives'
    BY <1>1 DEF Bootstrap, SavingInv, StateSurvives
  <2> QED
    BY <2>2, <2>3
<1>2. CASE FromFile(w)
  <2>1. statefile \in Texts /\ statefile.whole /\ FromDict(statefile.dict) = last /\ last \in States
    BY <1>2 DEF FromFile, SavingInv, StateSurvives
  <2>2. memory' = [memory EXCEPT ![w] = last] /\ step' = [step EXCEPT ![w] = "ready"]
    BY <1>2, <2>1 DEF FromFile
  <2>3. SavingInv'
    BY <1>2, <2>1, <2>2 DEF FromFile, Starts, SavingInv
  <2>4. StateSurvives'
    BY <1>2, <2>2 DEF FromFile, SavingInv, StateSurvives
  <2> QED
    BY <2>3, <2>4
<1>3. CASE Advance(w)
  <2>1. PICK s \in States : memory' = [memory EXCEPT ![w] = s]
    BY <1>3 DEF Advance
  <2>2. SavingInv'
    BY <1>3, <2>1 DEF Advance, SavingInv
  <2>3. StateSurvives'
    BY <1>3 DEF Advance, StateSurvives
  <2> QED
    BY <2>2, <2>3
<1>4. CASE BeginSave(w)
  <2>1. memory[w] \in States
    BY <1>4 DEF BeginSave, SavingInv
  <2>2. temp' = [temp EXCEPT ![w] = [dict |-> ToDict(memory[w]), whole |-> FALSE]]
    BY <1>4 DEF BeginSave, TempOf
  <2>3. SavingInv'
    BY <1>4, <2>1, <2>2, Writing DEF BeginSave
  <2>4. StateSurvives'
    BY <1>4 DEF BeginSave, SavingInv, StateSurvives
  <2> QED
    BY <2>3, <2>4
<1>5. CASE EndDump(w)
  <2>1. temp[w] \in Texts /\ temp[w].dict = ToDict(memory[w]) /\ memory[w] \in States
    BY <1>5 DEF EndDump, SavingInv
  <2>2. temp' = [temp EXCEPT ![w] = [dict |-> ToDict(memory[w]), whole |-> TRUE]]
    BY <1>5, <2>1 DEF EndDump, TempOf
  <2>3. SavingInv'
    BY <1>5, <2>1, <2>2, Writing DEF EndDump
  <2>4. StateSurvives'
    BY <1>5 DEF EndDump, SavingInv, StateSurvives
  <2> QED
    BY <2>3, <2>4
<1>6. CASE Replace(w)
  <2>1. /\ temp[w] \in Texts /\ temp[w].dict = ToDict(memory[w]) /\ temp[w].whole
        /\ memory[w] \in States
    BY <1>6 DEF Replace, SavingInv
  <2>2. statefile' = temp[w] /\ last' = memory[w] /\ temp' = [temp EXCEPT ![w] = Absent]
    BY <1>6 DEF Replace, TempOf
  <2>3. SavingInv'
    BY <1>6, <2>1, <2>2 DEF Replace, SavingInv
  <2>4. FromDict(statefile'.dict) = last'
    BY <2>1, <2>2, RoundTrip
  <2>5. StateSurvives'
    BY <1>6, <2>1, <2>2, <2>4 DEF Replace, SavingInv, StateSurvives
  <2> QED
    BY <2>3, <2>5
<1>7. CASE Kill(w)
  <2>1. SavingInv'
    BY <1>7 DEF Kill, SavingInv
  <2>2. StateSurvives'
    BY <1>7 DEF Kill, SavingInv, StateSurvives
  <2> QED
    BY <2>1, <2>2
<1> QED
  BY <1>1, <1>2, <1>3, <1>4, <1>5, <1>6, <1>7

(* So does every step of the incremental downloads.                        *)
LEMMA NextStateInv == StateInv /\ [StateNext]_stateVars => StateInv'
<1>1. StateInv /\ StateNext => StateInv'
  BY RunStateInv DEF StateNext
<1>2. StateInv /\ UNCHANGED stateVars => StateInv'
  BY DEF StateInv, SavingInv, StateSurvives, stateVars
<1> QED
  BY <1>1, <1>2

(* The runs, what they write and what they have in memory are well formed. *)
THEOREM StateTyped == StateSpec => []StateTypeOK
<1>1. StateInv => StateTypeOK
  BY DEF StateInv, SavingInv, StateTypeOK
<1> QED
  BY <1>1, InitStateInv, NextStateInv, PTL DEF StateSpec

(* However runs overlap and wherever they are killed, the state file is    *)
(* what the last complete save had in memory, and no run fails to read it. *)
THEOREM StateFileSurvives == StateSpec => []StateSurvives
<1>1. StateInv => StateSurvives
  BY DEF StateInv
<1> QED
  BY <1>1, InitStateInv, NextStateInv, PTL DEF StateSpec

-----------------------------------------------------------------------------
(* PathMapping *)

(* The rules of two profiles: one for every name that both have.           *)
RuleOf(p, name) == [from |-> LastOf(p.source, name), to |-> LastOf(p.target, name)]
MapRule == [from : Seq(Parts), to : Destinations]
InBoth(p, i) == i \in DOMAIN p.source /\ Has(p.target, p.source[i].name)

(* The location that counts for a name is one of the locations of the      *)
(* profile.                                                                *)
LEMMA LastOfSome ==
  ASSUME NEW locations, Len(locations) \in Nat, DOMAIN locations = 1..Len(locations),
         NEW name, Has(locations, name)
  PROVE  \E i \in DOMAIN locations : LastOf(locations, name) = locations[i].path
<1> DEFINE named == {i \in DOMAIN locations : locations[i].name = name}
<1>1. named \in SUBSET (0..Len(locations)) /\ named # {}
  BY DEF Has
<1>2. \E i \in named : \A j \in named : j <= i
  <2> HIDE DEF named
  <2> QED
    BY <1>1, Greatest
<1>3. (CHOOSE i \in named : \A j \in named : j <= i) \in named
  <2> HIDE DEF named
  <2> QED
    BY <1>2
<1> QED
  BY <1>3 DEF LastOf

(* The rule for a name that both profiles have has a path and a            *)
(* destination.                                                            *)
LEMMA RuleOfType ==
  ASSUME NEW p \in Inputs, NEW i, InBoth(p, i)
  PROVE  RuleOf(p, p.source[i].name) \in MapRule
<1> DEFINE name == p.source[i].name
<1>1. p.source \in Sources /\ p.target \in Targets
  BY DEF Inputs
<1>2. /\ Len(p.source) \in Nat /\ DOMAIN p.source = 1..Len(p.source)
      /\ Len(p.target) \in Nat /\ DOMAIN p.target = 1..Len(p.target)
  BY <1>1, MappingAssumption
<1>3. Has(p.source, name) /\ Has(p.target, name)
  BY DEF InBoth, Has
<1>4. PICK k \in DOMAIN p.source : LastOf(p.source, name) = p.source[k].path
  BY <1>2, <1>3, LastOfSome
<1>5. PICK k2 \in DOMAIN p.target : LastOf(p.target, name) = p.target[k2].path
  BY <1>2, <1>3, LastOfSome
<1>6. LastOf(p.source, name) \in Seq(Parts) /\ LastOf(p.target, name) \in Destinations
  BY <1>1, <1>4, <1>5, MappingAssumption
<1> QED
  BY <1>6 DEF RuleOf, MapRule

(* The loop over the locations gives nothing but rules for names that both *)
(* profiles have, and one for every such name.                             *)
LEMMA RulesLoop ==
  ASSUME NEW p \in Inputs
  PROVE  /\ RulesFor(p) \in Seq(MapRule)
         /\ \A k \in 1..Len(RulesFor(p)) :
              \E i \in DOMAIN p.source : InBoth(p, i) /\ RulesFor(p)[k] = RuleOf(p, p.source[i].name)
         /\ \A i \in DOMAIN p.source :
              InBoth(p, i) =>
                \E k \in 1..Len(RulesFor(p)) : RulesFor(p)[k] = RuleOf(p, p.source[i].name)
<1> DEFINE N == Len(p.source)
           X == Seq(MapRule)
           c == << >>
           First(i) == \A j \in 1..(i - 1) : p.source[j].name # p.source[i].name
           Gives(i) == First(i) /\ Has(p.target, p.source[i].name)
           rule(i) == [from |-> LastOf(p.source, p.source[i].name),
                       to |-> LastOf(p.target, p.source[i].name)]
           Turn(i, x) == IF Gives(i) THEN Append(x, rule(i)) ELSE x
           G == [i \in 1..N |-> [x \in X |-> Turn(i, x)]]
           D(f) == [n \in 0..N |-> IF n = 0 THEN c ELSE Turn(n, f[n - 1])]
           d == CHOOSE f : f = D(f)
<1>1. N \in Nat /\ c \in X /\ DOMAIN p.source = 1..N /\ Len(c) = 0
  <2>1. p.source \in Sources
    BY DEF Inputs
  <2> QED
    BY <2>1, MappingAssumption
<1>2. \A i \in 1..N : Gives(i) => InBoth(p, i) /\ rule(i) = RuleOf(p, p.source[i].name) /\ rule(i) \in MapRule
  <2>1. \A i \in 1..N : Gives(i) => InBoth(p, i)
    BY <1>1 DEF InBoth
  <2>2. \A i : rule(i) = RuleOf(p, p.source[i].name)
    BY DEF RuleOf
  <2> QED
    BY <2>1, <2>2, RuleOfType
<1>3. \A i \in 1..N, x \in X : Turn(i, x) \in X
  <2> HIDE DEF Gives, rule
  <2> QED
    BY <1>2
<1>4. RulesFor(p) = d[N]
  BY DEF RulesFor
<1> HIDE DEF N, X, c, Turn
<1>5. PICK f \in [0..N -> X] : f[0] = c /\ \A i \in 1..N : f[i] = G[i][f[i - 1]]
  <2>1. G \in [1..N -> [X -> X]]
    BY <1>3
  <2>2. N \in Nat /\ c \in X
    BY <1>1
  <2> HIDE DEF G
  <2> QED
    BY <2>1, <2>2, LoopExists
<1>6. \A i \in 1..N : f[i] = Turn(i, f[i - 1])
  <2> SUFFICES ASSUME NEW i \in 1..N PROVE f[i] = Turn(i, f[i - 1])
    OBVIOUS
  <2>1. f[i - 1] \in X
    BY <1>1
  <2> QED
    BY <1>5, <2>1
<1>7. f = D(f)
  BY <1>1, <1>5, <1>6
<1>8. d = D(d)
  <2> HIDE DEF D
  <2> QED
    BY <1>7
<1> HIDE DEF d
<1>9. d[0] = c /\ \A i \in 1..N : d[i] = Turn(i, d[i - 1])
  BY <1>1, <1>8
<1> DEFINE Made(n) == /\ d[n] \in X
                      /\ \A k \in 1..Len(d[n]) : \E i \in 1..n : InBoth(p, i) /\ d[n][k] = RuleOf(p, p.source[i].name)
                      /\ \A i \in 1..n : Gives(i) => \E k \in 1..Len(d[n]) : d[n][k] = RuleOf(p, p.source[i].name)
           T == {n \in 0..N : Made(n)}
<1>10. 0 \in T
  BY <1>1, <1>9
<1>11. ASSUME NEW n \in 0..(N - 1), n \in T PROVE n + 1 \in T
  <2>1. n + 1 \in 1..N /\ n + 1 - 1 = n /\ n \in Nat /\ n + 1 \in 0..N
    BY <1>1
  <2>2. d[n + 1] = Turn(n + 1, d[n])
    BY <1>9, <2>1
  <2>3. Made(n)
    BY <1>11
  <2> HIDE DEF Gives, rule
  <2>4. CASE Gives(n + 1)
    <3> DEFINE r == rule(n + 1)
    <3>1. d[n + 1] = Append(d[n], r) /\ r \in MapRule /\ r = RuleOf(p, p.source[n + 1].name) /\ InBoth(p, n + 1)
      BY <1>2, <2>1, <2>2, <2>4 DEF Turn
    <3> HIDE DEF r
    <3>2. /\ d[n + 1] \in X /\ Len(d[n + 1]) = Len(d[n]) + 1 /\ Len(d[n]) \in Nat
          /\ \A k \in 1..Len(d[n]) : d[n + 1][k] = d[n][k]
          /\ d[n + 1][Len(d[n]) + 1] = r
      BY <2>3, <3>1 DEF X
    <3>3. ASSUME NEW k \in 1..Len(d[n + 1])
          PROVE  \E i \in 1..(n + 1) : InBoth(p, i) /\ d[n + 1][k] = RuleOf(p, p.source[i].name)
      <4>1. CASE k = Len(d[n]) + 1
        BY <2>1, <3>1, <3>2, <4>1
      <4>2. CASE k # Len(d[n]) + 1
        <5>1. k \in 1..Len(d[n])
          BY <3>2, <4>2
        <5>2. PICK i \in 1..n : InBoth(p, i) /\ d[n][k] = RuleOf(p, p.source[i].name)
          BY <2>3, <5>1
        <5> QED
          BY <2>1, <3>2, <5>1, <5>2
      <4> QED
        BY <4>1, <4>2
    <3>4. ASSUME NEW i \in 1..(n + 1), Gives(i)
          PROVE  \E k \in 1..Len(d[n + 1]) : d[n + 1][k] = RuleOf(p, p.source[i].name)
      <4>1. CASE i = n + 1
        <5>1. Len(d[n]) + 1 \in 1..Len(d[n + 1])
          BY <3>2
        <5> QED
          BY <3>1, <3>2, <4>1, <5>1
      <4>2. CASE i # n + 1
        <5>1. i \in 1..n
          BY <2>1, <4>2
        <5>2. PICK k \in 1..Len(d[n]) : d[n][k] = RuleOf(p, p.source[i].name)
          BY <2>3, <3>4, <5>1
        <5> QED
          BY <3>2, <5>2
      <4> QED
        BY <4>1, <4>2
    <3> QED
      BY <2>1, <3>2, <3>3, <3>4
  <2>5. CASE ~Gives(n + 1)
    <3>1. d[n + 1] = d[n]
      BY <2>2, <2>5 DEF Turn
    <3>2. \A i \in 1..(n + 1) : Gives(i) => i \in 1..n
      BY <2>1, <2>5
    <3>3. \A i \in 1..n : i \in 1..(n + 1)
      BY <2>1
    <3> QED
      BY <2>1, <2>3, <3>1, <3>2, <3>3
  <2> QED
    BY <2>4, <2>5
<1>12. \A n \in 0..N : n \in T
  <2> HIDE DEF T
  <2> QED
    BY <1>1, <1>10, <1>11, Induct
<1>13. Made(N)
  BY <1>1, <1>12
<1>14. ASSUME NEW i \in DOMAIN p.source, InBoth(p, i)
       PROVE  \E k \in 1..Len(d[N]) : d[N][k] = RuleOf(p, p.source[i].name)
  <2> DEFINE S == {j \in 1..N : p.source[j].name = p.source[i].name}
  <2>1. S \in SUBSET Nat /\ S # {}
    BY <1>1
  <2>2. PICK j \in S : \A k \in S : j <= k
    <3> HIDE DEF S
    <3> QED
      BY <2>1, Least
  <2>3. j \in 1..N /\ p.source[j].name = p.source[i].name
    BY <2>2
  <2>4. First(j)
    <3> SUFFICES ASSUME NEW k \in 1..(j - 1), p.source[k].name = p.source[j].name PROVE FALSE
      OBVIOUS
    <3>1. k \in 1..N /\ k < j
      BY <1>1, <2>3
    <3>2. k \in S
      BY <2>3, <3>1
    <3> QED
      BY <2>2, <2>3, <3>1, <3>2
  <2>5. Gives(j)
    BY <1>14, <2>3, <2>4 DEF InBoth
  <2> HIDE DEF Gives
  <2> QED
    BY <1>13, <2>3, <2>5
<1>15. d[N] \in Seq(MapRule)
  BY <1>13 DEF X
<1>16. \A k \in 1..Len(d[N]) :
         \E i \in DOMAIN p.source : InBoth(p, i) /\ d[N][k] = RuleOf(p, p.source[i].name)
  <2> SUFFICES ASSUME NEW k \in 1..Len(d[N])
               PROVE  \E i \in DOMAIN p.source : InBoth(p, i) /\ d[N][k] = RuleOf(p, p.source[i].name)
    OBVIOUS
  <2>1. PICK i \in 1..N : InBoth(p, i) /\ d[N][k] = RuleOf(p, p.source[i].name)
    BY <1>13
  <2>2. i \in DOMAIN p.source
    BY <2>1 DEF InBoth
  <2> QED
    BY <2>1, <2>2
<1> QED
  BY <1>4, <1>14, <1>15, <1>16

(* A path, or a part of it, in the case of the trie.                       *)
Lowered(w, q) == IF w THEN [i \in DOMAIN q |-> Lower[q[i]]] ELSE q

(* The first parts of a path.                                              *)
LEMMA PrefixType ==
  ASSUME NEW q \in Seq(Parts), NEW l \in 0..Len(q)
  PROVE  Prefix(q, l) \in Seq(Parts) /\ Len(Prefix(q, l)) = l /\ \A i \in 1..l : Prefix(q, l)[i] = q[i]
  BY DEF Prefix

(* All the parts of a path are the path.                                   *)
LEMMA PrefixAll ==
  ASSUME NEW q \in Seq(Parts) PROVE Prefix(q, Len(q)) = q
  BY SubSeqFull DEF Prefix

(* Paths with the same parts are the same.                                 *)
LEMMA SameParts ==
  ASSUME NEW q \in Seq(Parts), NEW r \in Seq(Parts), Len(q) = Len(r), \A i \in 1..Len(q) : q[i] = r[i]
  PROVE  q = r
  OBVIOUS

(* The beginning of the beginning of a path is its beginning.              *)
LEMMA PrefixPrefix ==
  ASSUME NEW q \in Seq(Parts), NEW l \in 0..Len(q), NEW j \in 0..l
  PROVE  Prefix(Prefix(q, l), j) = Prefix(q, j)
<1>1. Prefix(q, l) \in Seq(Parts) /\ Len(Prefix(q, l)) = l /\ \A i \in 1..l : Prefix(q, l)[i] = q[i]
  BY PrefixType
<1>2. j \in 0..Len(q) /\ j \in 0..Len(Prefix(q, l))
  BY <1>1
<1>3. /\ Prefix(q, j) \in Seq(Parts) /\ Len(Prefix(q, j)) = j
      /\ \A i \in 1..j : Prefix(q, j)[i] = q[i]
  BY <1>2, PrefixType
<1>4. /\ Prefix(Prefix(q, l), j) \in Seq(Parts) /\ Len(Prefix(Prefix(q, l), j)) = j
      /\ \A i \in 1..j : Prefix(Prefix(q, l), j)[i] = Prefix(q, l)[i]
  BY <1>1, <1>2, PrefixType
<1>5. \A i \in 1..j : i \in 1..l
  OBVIOUS
<1> QED
  BY <1>1, <1>3, <1>4, <1>5, SameParts

(* Lower case changes parts, not how many there are.                       *)
LEMMA LoweredType ==
  ASSUME NEW q \in Seq(Parts), NEW w
  PROVE  /\ Lowered(w, q) \in Seq(Parts) /\ Len(Lowered(w, q)) = Len(q)
         /\ \A i \in 1..Len(q) : Lowered(w, q)[i] = IF w THEN Lower[q[i]] ELSE q[i]
<1>1. CASE w
  <2>1. Lowered(w, q) = [i \in 1..Len(q) |-> Lower[q[i]]]
    BY <1>1 DEF Lowered
  <2>2. \A i \in 1..Len(q) : Lower[q[i]] \in Parts
    BY MappingAssumption
  <2> DEFINE low == [i \in 1..Len(q) |-> Lower[q[i]]]
  <2>3. low \in Seq(Parts) /\ Len(low) = Len(q) /\ \A i \in 1..Len(q) : low[i] = Lower[q[i]]
    BY <2>2
  <2> HIDE DEF low
  <2>4. Lowered(w, q) = low
    BY <2>1 DEF low
  <2> QED
    BY <1>1, <2>3, <2>4
<1>2. CASE ~w
  BY <1>2 DEF Lowered
<1> QED
  BY <1>1, <1>2

(* The beginning of a path in lower case is its beginning, in lower case.  *)
LEMMA LoweredPrefix ==
  ASSUME NEW q \in Seq(Parts), NEW w, NEW l \in 0..Len(q)
  PROVE  Lowered(w, Prefix(q, l)) = Prefix(Lowered(w, q), l)
<1>1. Prefix(q, l) \in Seq(Parts) /\ Len(Prefix(q, l)) = l /\ \A i \in 1..l : Prefix(q, l)[i] = q[i]
  BY PrefixType
<1>2. /\ Lowered(w, Prefix(q, l)) \in Seq(Parts) /\ Len(Lowered(w, Prefix(q, l))) = l
      /\ \A i \in 1..l : Lowered(w, Prefix(q, l))[i] = IF w THEN Lower[Prefix(q, l)[i]] ELSE Prefix(q, l)[i]
  BY <1>1, LoweredType
<1>3. /\ Lowered(w, q) \in Seq(Parts) /\ Len(Lowered(w, q)) = Len(q)
      /\ \A i \in 1..Len(q) : Lowered(w, q)[i] = IF w THEN Lower[q[i]] ELSE q[i]
  BY LoweredType
<1>4. /\ Prefix(Lowered(w, q), l) \in Seq(Parts) /\ Len(Prefix(Lowered(w, q), l)) = l
      /\ \A i \in 1..l : Prefix(Lowered(w, q), l)[i] = Lowered(w, q)[i]
  BY <1>3, PrefixType
<1>5. \A i \in 1..l : i \in 1..Len(q)
  OBVIOUS
<1> QED
  BY <1>1, <1>2, <1>3, <1>4, <1>5, SameParts

(* The trie of the first n rules: the nodes on the way to a rule's node    *)
(* are there, and the destinations are those of the rules.                 *)
TrieOf(tr, rs, n, w) ==
  /\ \A node \in DOMAIN tr : node \in Seq(Parts) /\ tr[node] \in Destinations \cup {Unmapped}
  /\ \A k \in 1..n : \A l \in 0..Len(rs[k].from) : Prefix(Lowered(w, rs[k].from), l) \in DOMAIN tr
  /\ \A k \in 1..n : tr[Lowered(w, rs[k].from)] # Unmapped
  /\ \A node \in DOMAIN tr :
       tr[node] # Unmapped => \E k \in 1..n : Lowered(w, rs[k].from) = node /\ tr[node] = rs[k].to

(* Rule k is of a location that q is under.                                *)
Under(rs, w, q, k) ==
  /\ Len(rs[k].from) \in 1..Len(q)
  /\ Lowered(w, rs[k].from) = Lowered(w, Prefix(q, Len(rs[k].from)))

(* m is the match of the longest of these rules that have at most d parts. *)
FromRule(m, rs, q, k) == m = [to |-> rs[k].to, rest |-> SubSeq(q, Len(rs[k].from) + 1, Len(q))]
NoneUnder(rs, w, q, d) == \A k \in 1..Len(rs) : Under(rs, w, q, k) => Len(rs[k].from) > d
LongestUnder(rs, w, q, d, k) ==
  /\ Under(rs, w, q, k) /\ Len(rs[k].from) <= d
  /\ \A j \in 1..Len(rs) :
       Under(rs, w, q, j) /\ Len(rs[j].from) <= d => Len(rs[j].from) <= Len(rs[k].from)
Best(m, rs, w, q, d) ==
  /\ m = Unmapped => NoneUnder(rs, w, q, d)
  /\ m # Unmapped => \E k \in 1..Len(rs) : FromRule(m, rs, q, k) /\ LongestUnder(rs, w, q, d, k)

(* What the rules are made of.                                             *)
LEMMA RuleFields ==
  ASSUME NEW rs \in Seq(MapRule), NEW k \in 1..Len(rs)
  PROVE  rs[k].from \in Seq(Parts) /\ rs[k].to \in Destinations /\ Len(rs[k].from) \in Nat
<1>1. rs[k] \in MapRule
  OBVIOUS
<1> QED
  BY <1>1 DEF MapRule

(* The node that a path reaches after d parts is a rule's if the path is   *)
(* under the location of the rule, which has d parts.                      *)
LEMMA NodeOf ==
  ASSUME NEW rs \in Seq(MapRule), NEW w, NEW q \in Seq(Parts), NEW k \in 1..Len(rs),
         NEW d \in 1..Len(q)
  PROVE  /\ Lowered(w, rs[k].from) = Prefix(Lowered(w, q), d)
              <=> Under(rs, w, q, k) /\ Len(rs[k].from) = d
         /\ Under(rs, w, q, k) /\ d <= Len(rs[k].from) =>
              Prefix(Lowered(w, rs[k].from), d) = Prefix(Lowered(w, q), d)
<1> DEFINE f == rs[k].from
<1>1. f \in Seq(Parts) /\ Len(f) \in Nat
  BY RuleFields
<1>2. /\ Lowered(w, f) \in Seq(Parts) /\ Len(Lowered(w, f)) = Len(f)
      /\ Lowered(w, q) \in Seq(Parts) /\ Len(Lowered(w, q)) = Len(q)
  BY <1>1, LoweredType
<1>3. /\ Len(Prefix(Lowered(w, q), d)) = d
      /\ Lowered(w, Prefix(q, d)) = Prefix(Lowered(w, q), d)
  <2>1. d \in 0..Len(q) /\ d \in 0..Len(Lowered(w, q))
    BY <1>2
  <2>2. Len(Prefix(Lowered(w, q), d)) = d
    BY <1>2, <2>1, PrefixType
  <2>3. Lowered(w, Prefix(q, d)) = Prefix(Lowered(w, q), d)
    BY <2>1, LoweredPrefix
  <2> QED
    BY <2>2, <2>3
<1>4. ASSUME Under(rs, w, q, k), d <= Len(f) PROVE Prefix(Lowered(w, f), d) = Prefix(Lowered(w, q), d)
  <2>1. Len(f) \in 0..Len(q) /\ Lowered(w, f) = Lowered(w, Prefix(q, Len(f)))
    BY <1>4 DEF Under
  <2>2. Lowered(w, f) = Prefix(Lowered(w, q), Len(f))
    BY <2>1, LoweredPrefix
  <2>3. d \in 0..Len(f) /\ Len(f) \in 0..Len(Lowered(w, q))
    BY <1>1, <1>2, <1>4, <2>1
  <2> QED
    BY <1>2, <2>2, <2>3, PrefixPrefix
<1>5. ASSUME Lowered(w, f) = Prefix(Lowered(w, q), d) PROVE Under(rs, w, q, k) /\ Len(f) = d
  <2>1. Len(f) = d
    BY <1>2, <1>3, <1>5
  <2> QED
    BY <1>3, <1>5, <2>1 DEF Under
<1>6. ASSUME Under(rs, w, q, k), Len(f) = d PROVE Lowered(w, f) = Prefix(Lowered(w, q), d)
  BY <1>3, <1>6 DEF Under
<1> QED
  BY <1>4, <1>5, <1>6

(* A step down the trie keeps the match the best one: a node with a        *)
(* destination is a longer rule than all before, and one without is none.  *)
LEMMA WalkOn ==
  ASSUME NEW rs \in Seq(MapRule), NEW w, NEW q \in Seq(Parts), NEW d \in Nat, d < Len(q),
         NEW tr, TrieOf(tr, rs, Len(rs), w), Prefix(Lowered(w, q), d + 1) \in DOMAIN tr,
         NEW m, Best(m, rs, w, q, d), NEW to, to = tr[Prefix(Lowered(w, q), d + 1)]
  PROVE  Best(IF to = Unmapped THEN m ELSE [to |-> to, rest |-> SubSeq(q, d + 2, Len(q))],
              rs, w, q, d + 1)
<1> DEFINE node == Prefix(Lowered(w, q), d + 1)
<1>1. d + 1 \in 1..Len(q)
  OBVIOUS
<1>2. \A k \in 1..Len(rs) : /\ Lowered(w, rs[k].from) = node <=> Under(rs, w, q, k) /\ Len(rs[k].from) = d + 1
                            /\ Len(rs[k].from) \in Nat
  BY <1>1, NodeOf, RuleFields
<1> HIDE DEF node
<1>3. CASE to = Unmapped
  <2>1. \A k \in 1..Len(rs) : Lowered(w, rs[k].from) # node
    BY <1>3 DEF TrieOf, node
  <2>2. \A k \in 1..Len(rs) : Under(rs, w, q, k) => Len(rs[k].from) # d + 1 /\ Len(rs[k].from) \in Nat
    BY <1>2, <2>1
  <2>3. NoneUnder(rs, w, q, d) => NoneUnder(rs, w, q, d + 1)
    BY <2>2 DEF NoneUnder
  <2>4. \A k \in 1..Len(rs) : LongestUnder(rs, w, q, d, k) => LongestUnder(rs, w, q, d + 1, k)
    BY <2>2 DEF LongestUnder
  <2>5. Best(m, rs, w, q, d + 1)
    BY <2>3, <2>4 DEF Best
  <2> QED
    BY <1>3, <2>5
<1>4. CASE to # Unmapped
  <2>1. PICK k \in 1..Len(rs) : Lowered(w, rs[k].from) = node /\ to = rs[k].to
    BY <1>4 DEF TrieOf, node
  <2>2. Under(rs, w, q, k) /\ Len(rs[k].from) = d + 1
    BY <1>2, <2>1
  <2> DEFINE n == [to |-> to, rest |-> SubSeq(q, d + 2, Len(q))]
  <2>3. n # Unmapped
    <3>1. SubSeq(q, d + 2, Len(q)) \in Seq(Parts) /\ to \in Destinations
      BY <2>1, RuleFields
    <3>2. n \in [to : Destinations, rest : Seq(Parts)]
      BY <3>1
    <3> HIDE DEF n
    <3> QED
      BY <3>2, MappingAssumption
  <2>4. FromRule(n, rs, q, k)
    BY <2>1, <2>2 DEF FromRule
  <2> HIDE DEF n
  <2>5. LongestUnder(rs, w, q, d + 1, k)
    BY <2>2 DEF LongestUnder
  <2>6. Best(n, rs, w, q, d + 1)
    BY <2>3, <2>4, <2>5 DEF Best
  <2> QED
    BY <1>4, <2>6 DEF n
<1> QED
  BY <1>3, <1>4

(* When the walk ends, no rule for the path is longer than the parts       *)
(* walked: the nodes of its own way would still be there.                  *)
LEMMA WalkOver ==
  ASSUME NEW rs \in Seq(MapRule), NEW w, NEW q \in Seq(Parts), NEW d \in 0..Len(q),
         NEW tr, TrieOf(tr, rs, Len(rs), w),
         ~(d < Len(q) /\ Prefix(Lowered(w, q), d + 1) \in DOMAIN tr),
         NEW m, Best(m, rs, w, q, d)
  PROVE  Best(m, rs, w, q, Len(q))
<1>1. ASSUME NEW k \in 1..Len(rs), Under(rs, w, q, k) PROVE Len(rs[k].from) <= d
  <2> SUFFICES ASSUME Len(rs[k].from) > d PROVE FALSE
    BY RuleFields
  <2>1. Len(rs[k].from) \in 1..Len(q) /\ Len(rs[k].from) \in Nat
    BY <1>1 DEF Under
  <2>2. d + 1 \in 1..Len(q) /\ d + 1 \in 0..Len(rs[k].from) /\ d + 1 <= Len(rs[k].from) /\ d < Len(q)
    BY <2>1
  <2>3. Prefix(Lowered(w, rs[k].from), d + 1) = Prefix(Lowered(w, q), d + 1)
    BY <1>1, <2>2, NodeOf
  <2>4. Prefix(Lowered(w, rs[k].from), d + 1) \in DOMAIN tr
    BY <2>2 DEF TrieOf
  <2> QED
    BY <2>2, <2>3, <2>4
<1>2. \A k \in 1..Len(rs) : Len(rs[k].from) \in Nat
  BY RuleFields
<1>3. NoneUnder(rs, w, q, d) => NoneUnder(rs, w, q, Len(q))
  BY <1>1, <1>2 DEF NoneUnder
<1>4. \A k \in 1..Len(rs) : LongestUnder(rs, w, q, d, k) => LongestUnder(rs, w, q, Len(q), k)
  BY <1>1, <1>2 DEF LongestUnder
<1> QED
  BY <1>3, <1>4 DEF Best

(* The parts of the inductive invariant: the rules are those of the        *)
(* profiles; the trie is that of the rules inserted; the match is that of  *)
(* the longest rule for the parts walked, and for the path at the end.     *)
ProfilesInv ==
  /\ profiles \in Inputs \cup {NoProfiles}
  /\ rules \in Seq(MapRule) /\ inserted \in 0..Len(rules)
  /\ mphase = "idle" => Len(rules) = 0
  /\ mphase # "idle" =>
       profiles \in Inputs /\ rules = IF profiles.same THEN << >> ELSE RulesFor(profiles)
  /\ mphase \notin {"idle", "insert"} => inserted = Len(rules)
CallInv ==
  /\ path \in MPaths \cup {<< >>} /\ path \in Seq(Parts) /\ depth \in 0..Len(path)
  /\ IsMatch(match) /\ strict \in BOOLEAN /\ mcalls \in 0..MCalls
WalkInv ==
  /\ mphase = "walk" => Best(match, rules, profiles.windows, path, depth)
  /\ mphase \in {"mapped", "raised"} =>
       /\ Best(match, rules, profiles.windows, path, Len(path))
       /\ mphase = "raised" <=> strict /\ match = Unmapped
PathInv ==
  /\ mphase \in {"idle", "insert", "ready", "walk", "mapped", "raised"}
  /\ ProfilesInv /\ TrieOf(trie, rules, inserted, profiles.windows) /\ CallInv /\ WalkInv

(* Normal depends on the target profile alone.                             *)
LEMMA NormalIs == \A q : Normal(q) = Lowered(profiles.windows, q)
  BY DEF Normal, Lowered

(* The empty sequence is one of any set.                                   *)
LEMMA NoRules ==
  ASSUME NEW S PROVE << >> \in Seq(S) /\ Len(<< >>) = 0
  OBVIOUS

(* At first there are no rules, and the trie has its root alone.           *)
LEMMA InitPathInv == MappingInit => PathInv
<1> SUFFICES ASSUME MappingInit PROVE PathInv
  OBVIOUS
<1>1. /\ mphase = "idle" /\ profiles = NoProfiles /\ inserted = 0
      /\ trie = [n \in {<< >>} |-> Unmapped]
      /\ depth = 0 /\ match = Unmapped /\ strict = FALSE /\ mcalls = 0
  BY DEF MappingInit
<1>2. rules \in Seq(MapRule) /\ Len(rules) = 0
  BY NoRules DEF MappingInit
<1>3. path = << >> /\ path \in Seq(Parts) /\ Len(path) = 0
  BY NoRules DEF MappingInit
<1>4. CallInv
  <2>1. path \in MPaths \cup {<< >>}
    BY <1>3
  <2>2. depth \in 0..Len(path) /\ mcalls \in 0..MCalls /\ strict \in BOOLEAN
    <3>1. MCalls \in Nat
      BY MappingAssumption
    <3>2. depth = 0 /\ Len(path) = 0
      BY <1>1, <1>3
    <3>3. depth \in 0..Len(path)
      BY <3>2
    <3>4. mcalls = 0 /\ strict = FALSE
      BY <1>1
    <3>5. mcalls \in 0..MCalls
      BY <3>1, <3>4
    <3> QED
      BY <3>3, <3>4, <3>5
  <2>3. IsMatch(match)
    BY <1>1 DEF IsMatch
  <2> QED
    BY <1>3, <2>1, <2>2, <2>3 DEF CallInv
<1>5. TrieOf(trie, rules, inserted, profiles.windows)
  <2>1. DOMAIN trie = {path} /\ trie[path] = Unmapped
    BY <1>1, <1>3
  <2>2. 1..inserted = {}
    BY <1>1
  <2> QED
    BY <1>3, <2>1, <2>2 DEF TrieOf
<1> QED
  BY <1>1, <1>2, <1>4, <1>5 DEF PathInv, ProfilesInv, WalkInv

(* The rules are generated before any is inserted.                         *)
LEMMA GeneratePathInv == ASSUME PathInv, GenerateRules PROVE PathInv'
<1>1. /\ mphase = "idle" /\ profiles' \in Inputs /\ mphase' = "insert"
      /\ rules' = IF profiles'.same THEN << >> ELSE RulesFor(profiles')
      /\ UNCHANGED <<inserted, trie, path, depth, match, strict, mcalls>>
  BY DEF GenerateRules, mapWork
<1>2. inserted = 0
  BY <1>1 DEF PathInv, ProfilesInv
<1>3. rules' \in Seq(MapRule)
  <2>1. CASE profiles'.same
    BY <1>1, <2>1, NoRules
  <2>2. CASE ~profiles'.same
    BY <1>1, <2>2, RulesLoop
  <2> QED
    BY <2>1, <2>2
<1>4. ProfilesInv'
  BY <1>1, <1>2, <1>3 DEF ProfilesInv
<1>5. TrieOf(trie, rules', 0, profiles'.windows)
  BY <1>2 DEF PathInv, TrieOf
<1> QED
  BY <1>1, <1>2, <1>4, <1>5 DEF PathInv, CallInv, WalkInv, IsMatch

(* A rule inserted adds its way to the trie and its destination to the     *)
(* last node; the ways and destinations of the others remain, unless it    *)
(* has the same node.                                                      *)
LEMMA InsertPathInv == ASSUME PathInv, InsertRule PROVE PathInv'
<1> DEFINE w == profiles.windows
           n == inserted + 1
           f == rules[n].from
           node == Lowered(w, f)
           way == {Prefix(node, l) : l \in 0..Len(node)}
           tr == [q \in DOMAIN trie \cup way |->
                    IF q = node THEN rules[n].to ELSE IF q \in DOMAIN trie THEN trie[q] ELSE Unmapped]
<1>1. /\ mphase = "insert" /\ inserted < Len(rules) /\ inserted' = n
      /\ UNCHANGED <<mphase, profiles, rules, path, depth, match, strict, mcalls>>
  BY DEF InsertRule, mapWork
<1>2. trie' = tr
  BY NormalIs DEF InsertRule
<1>3. /\ rules \in Seq(MapRule) /\ inserted \in Nat /\ n \in 1..Len(rules)
      /\ TrieOf(trie, rules, inserted, w)
  BY <1>1 DEF PathInv, ProfilesInv
<1>4. f \in Seq(Parts) /\ rules[n].to \in Destinations /\ node \in Seq(Parts) /\ Len(node) = Len(f)
  BY <1>3, RuleFields, LoweredType
<1>5. way \subseteq Seq(Parts)
  BY <1>4, PrefixType
<1>6. node \in way
  <2>1. Len(node) \in 0..Len(node)
    BY <1>4
  <2> QED
    BY <1>4, <2>1, PrefixAll
<1>7. rules[n].to # Unmapped
  BY <1>4, MappingAssumption
<1>8. /\ DOMAIN tr = DOMAIN trie \cup way /\ tr[node] = rules[n].to
      /\ \A q \in DOMAIN tr : q # node => tr[q] = IF q \in DOMAIN trie THEN trie[q] ELSE Unmapped
  BY <1>6
<1>9. \A l \in 0..Len(f) : Prefix(node, l) \in way
  BY <1>4
<1>10. n \in Nat /\ \A k \in 1..n : k = n \/ k \in 1..inserted
  BY <1>3
<1> HIDE DEF tr, way
<1>11. \A q \in DOMAIN tr : q \in Seq(Parts) /\ tr[q] \in Destinations \cup {Unmapped}
  BY <1>3, <1>4, <1>5, <1>8 DEF TrieOf
<1>12. ASSUME NEW k \in 1..n, NEW l \in 0..Len(rules[k].from)
       PROVE  Prefix(Lowered(w, rules[k].from), l) \in DOMAIN tr
  <2>1. CASE k = n
    BY <1>8, <1>9, <2>1
  <2>2. CASE k \in 1..inserted
    BY <1>3, <1>8, <2>2 DEF TrieOf
  <2> QED
    BY <1>10, <2>1, <2>2
<1>13. ASSUME NEW k \in 1..n PROVE tr[Lowered(w, rules[k].from)] # Unmapped
  <2>1. CASE Lowered(w, rules[k].from) = node
    BY <1>7, <1>8, <2>1
  <2>2. CASE Lowered(w, rules[k].from) # node
    <3>1. k \in 1..inserted /\ k \in 1..Len(rules)
      BY <1>3, <1>10, <2>2
    <3> DEFINE other == Lowered(w, rules[k].from)
    <3>2. other \in DOMAIN trie
      <4>0. rules[k].from \in Seq(Parts)
        BY <1>3, <3>1, RuleFields
      <4>1. /\ rules[k].from \in Seq(Parts) /\ other \in Seq(Parts)
            /\ Len(other) = Len(rules[k].from) /\ Len(other) \in 0..Len(rules[k].from)
        <5>1. other \in Seq(Parts) /\ Len(other) = Len(rules[k].from)
          BY <4>0, LoweredType
        <5> HIDE DEF other
        <5> QED
          BY <4>0, <5>1
      <4>2. Prefix(other, Len(other)) \in DOMAIN trie
        BY <1>3, <3>1, <4>1 DEF TrieOf
      <4> QED
        BY <4>1, <4>2, PrefixAll
    <3>3. trie[other] # Unmapped
      BY <1>3, <3>1 DEF TrieOf
    <3> QED
      BY <1>8, <2>2, <3>2, <3>3
  <2> QED
    BY <2>1, <2>2
<1>14. ASSUME NEW q \in DOMAIN tr, tr[q] # Unmapped
       PROVE  \E k \in 1..n : Lowered(w, rules[k].from) = q /\ tr[q] = rules[k].to
  <2>1. CASE q = node
    <3>1. n \in 1..n
      BY <1>3
    <3> QED
      BY <1>8, <2>1, <3>1
  <2>2. CASE q # node
    <3>1. q \in DOMAIN trie /\ tr[q] = trie[q] /\ trie[q] # Unmapped
      BY <1>8, <1>14, <2>2
    <3>2. PICK k \in 1..inserted : Lowered(w, rules[k].from) = q /\ trie[q] = rules[k].to
      BY <1>3, <3>1 DEF TrieOf
    <3>3. k \in 1..n
      BY <1>3
    <3> QED
      BY <3>1, <3>2, <3>3
  <2> QED
    BY <2>1, <2>2
<1>15. TrieOf(tr, rules, n, w)
  <2> HIDE DEF w, n
  <2> QED
    BY <1>11, <1>12, <1>13, <1>14 DEF TrieOf
<1>16. TrieOf(trie', rules', inserted', profiles'.windows)
  BY <1>1, <1>2, <1>15
<1>17. ProfilesInv'
  BY <1>1, <1>3 DEF PathInv, ProfilesInv
<1> QED
  BY <1>1, <1>16, <1>17 DEF PathInv, CallInv, WalkInv, IsMatch

(* Every step of the mapping keeps the invariant.                          *)
LEMMA NextPathInv == PathInv /\ [MappingNext]_mappingVars => PathInv'
<1> SUFFICES ASSUME PathInv, [MappingNext]_mappingVars PROVE PathInv'
  OBVIOUS
<1> DEFINE w == profiles.windows
<1>1. CASE GenerateRules
  BY <1>1, GeneratePathInv
<1>2. CASE InsertRule
  BY <1>2, InsertPathInv
<1>3. CASE InsertDone
  BY <1>3 DEF InsertDone, mapWork, PathInv, ProfilesInv, CallInv, WalkInv, IsMatch
<1>4. CASE TransformPath
  <2>1. /\ mphase \in {"ready", "mapped", "raised"} /\ mcalls < MCalls
        /\ path' \in MPaths /\ strict' \in BOOLEAN
        /\ depth' = 0 /\ match' = Unmapped /\ mcalls' = mcalls + 1
        /\ UNCHANGED <<profiles, rules, inserted, trie>>
    BY <1>4 DEF TransformPath
  <2>2. path' \in Seq(Parts) /\ Len(path') \in Nat
    BY <2>1, MappingAssumption
  <2>3. CallInv'
    BY <2>1, <2>2, MappingAssumption DEF PathInv, CallInv, IsMatch
  <2>4. \/ mphase' = "walk"
        \/ rules = << >> /\ mphase' = IF strict' THEN "raised" ELSE "mapped"
    BY <1>4 DEF TransformPath
  <2>5. \A k \in 1..Len(rules) : Len(rules[k].from) \in Nat
    BY RuleFields DEF PathInv, ProfilesInv
  <2>6. Best(Unmapped, rules, w, path', 0)
    <3>1. NoneUnder(rules, w, path', 0)
      BY <2>5 DEF NoneUnder, Under
    <3> QED
      BY <3>1 DEF Best
  <2>7. rules = << >> => Best(Unmapped, rules, w, path', Len(path'))
    <3> SUFFICES ASSUME rules = << >> PROVE Best(Unmapped, rules, w, path', Len(path'))
      OBVIOUS
    <3>1. Len(rules) = 0
      BY NoRules
    <3>2. NoneUnder(rules, w, path', Len(path'))
      BY <3>1 DEF NoneUnder
    <3> QED
      BY <3>2 DEF Best
  <2>8. WalkInv'
    BY <2>1, <2>4, <2>6, <2>7 DEF WalkInv
  <2>9. ProfilesInv' /\ mphase' \in {"idle", "insert", "ready", "walk", "mapped", "raised"}
    BY <2>1, <2>4 DEF PathInv, ProfilesInv
  <2> QED
    BY <2>1, <2>3, <2>8, <2>9 DEF PathInv
<1>5. CASE WalkPart
  <2>1. /\ mphase = "walk" /\ depth < Len(path) /\ NextNode \in DOMAIN trie /\ depth' = depth + 1
        /\ match' = IF trie[NextNode] = Unmapped THEN match
                    ELSE [to |-> trie[NextNode], rest |-> SubSeq(path, depth + 2, Len(path))]
        /\ UNCHANGED <<mphase, profiles, rules, inserted, trie, path, strict, mcalls>>
    BY <1>5 DEF WalkPart, OnTheWay, Match
  <2>2. NextNode = Prefix(Lowered(w, path), depth + 1)
    BY NormalIs DEF NextNode
  <2>3. /\ rules \in Seq(MapRule) /\ path \in Seq(Parts) /\ depth \in Nat /\ inserted = Len(rules)
        /\ TrieOf(trie, rules, Len(rules), w) /\ Best(match, rules, w, path, depth)
    BY <2>1 DEF PathInv, ProfilesInv, CallInv, WalkInv
  <2>4. Best(match', rules, w, path, depth + 1)
    BY <2>1, <2>2, <2>3, WalkOn
  <2>5. IsMatch(match')
    <3>1. trie[NextNode] \in Destinations \cup {Unmapped}
      BY <2>1, <2>3 DEF TrieOf
    <3>2. SubSeq(path, depth + 2, Len(path)) \in Seq(Parts)
      BY <2>3
    <3> QED
      BY <2>1, <3>1, <3>2 DEF IsMatch, PathInv, CallInv
  <2>6. CallInv'
    BY <2>1, <2>3, <2>5 DEF PathInv, CallInv
  <2>7. WalkInv'
    BY <2>1, <2>4 DEF WalkInv
  <2>8. ProfilesInv'
    BY <2>1 DEF PathInv, ProfilesInv
  <2> QED
    BY <2>1, <2>6, <2>7, <2>8 DEF PathInv
<1>6. CASE WalkDone
  <2>1. /\ mphase = "walk" /\ ~(depth < Len(path) /\ NextNode \in DOMAIN trie)
        /\ mphase' = IF strict /\ match = Unmapped THEN "raised" ELSE "mapped"
        /\ UNCHANGED <<profiles, rules, inserted, trie, path, depth, match, strict, mcalls>>
    BY <1>6 DEF WalkDone, OnTheWay, mapWork
  <2>2. NextNode = Prefix(Lowered(w, path), depth + 1)
    BY NormalIs DEF NextNode
  <2>3. /\ rules \in Seq(MapRule) /\ path \in Seq(Parts) /\ depth \in 0..Len(path)
        /\ inserted = Len(rules)
        /\ TrieOf(trie, rules, Len(rules), w) /\ Best(match, rules, w, path, depth)
    BY <2>1 DEF PathInv, ProfilesInv, CallInv, WalkInv
  <2>4. Best(match, rules, w, path, Len(path))
    BY <2>1, <2>2, <2>3, WalkOver
  <2>5. WalkInv'
    BY <2>1, <2>4 DEF WalkInv
  <2>6. ProfilesInv' /\ CallInv'
    BY <2>1 DEF PathInv, ProfilesInv, CallInv
  <2> QED
    BY <2>1, <2>5, <2>6 DEF PathInv
<1>7. CASE UNCHANGED mappingVars
  BY <1>7 DEF mappingVars, mapWork, PathInv, ProfilesInv, CallInv, WalkInv, IsMatch
<1> QED
  BY <1>1, <1>2, <1>3, <1>4, <1>5, <1>6, <1>7 DEF MappingNext

(* The trie is that of the rules inserted and a match the longest rule so  *)
(* far, whatever the profiles and paths.                                   *)
LEMMA PathInvariance == MappingSpec => []PathInv
BY InitPathInv, NextPathInv, PTL DEF MappingSpec

(* The rules, the trie and the match are always of their types.            *)
THEOREM MappingTyped == MappingSpec => []MappingTypeOK
<1>1. ASSUME PathInv PROVE MappingTypeOK
  <2>1. \A i \in DOMAIN rules : rules[i].from \in Seq(Parts) /\ rules[i].to \in Destinations
    <3>1. rules \in Seq(MapRule) /\ DOMAIN rules = 1..Len(rules)
      BY <1>1 DEF PathInv, ProfilesInv
    <3> QED
      BY <3>1, RuleFields
  <2>2. \A n \in DOMAIN trie : n \in Seq(Parts) /\ trie[n] \in Destinations \cup {Unmapped}
    BY <1>1 DEF PathInv, TrieOf
  <2> QED
    BY <1>1, <2>1, <2>2 DEF MappingTypeOK, PathInv, ProfilesInv, CallInv
<1> QED
  BY PathInvariance, <1>1, PTL

(* A path goes where the longest location it is under belongs, whatever    *)
(* the profiles, in whichever order the rules were inserted and however    *)
(* many paths were mapped before.                                          *)
THEOREM LongestWins == MappingSpec => []LongestRuleWins
<1>1. ASSUME PathInv PROVE LongestRuleWins
  <2> SUFFICES ASSUME mphase \in {"mapped", "raised"}
               PROVE  IF profiles.same \/ LongestLocations = {}
                      THEN match = Unmapped /\ (mphase = "raised" <=> strict)
                      ELSE /\ mphase = "mapped"
                           /\ \E name \in LongestLocations :
                                match = [to |-> LastOf(profiles.target, name),
                                         rest |-> SubSeq(path, Len(LastOf(profiles.source, name)) + 1, Len(path))]
    BY DEF LongestRuleWins
  <2> DEFINE w == profiles.windows
             From(name) == LastOf(profiles.source, name)
  <2>1. /\ Best(match, rules, w, path, Len(path)) /\ (mphase = "raised" <=> strict /\ match = Unmapped)
        /\ profiles \in Inputs /\ rules = (IF profiles.same THEN << >> ELSE RulesFor(profiles))
        /\ rules \in Seq(MapRule)
    BY <1>1 DEF PathInv, WalkInv, ProfilesInv
  <2>2. CASE profiles.same
    <3>1. Len(rules) = 0
      BY <2>1, <2>2, NoRules
    <3>2. match = Unmapped
      BY <2>1, <3>1 DEF Best
    <3> QED
      BY <2>1, <2>2, <3>2
  <2>3. CASE ~profiles.same
    <3>1. rules = RulesFor(profiles)
      BY <2>1, <2>3
    <3>2. ASSUME NEW name, NEW k \in 1..Len(rules), rules[k] = RuleOf(profiles, name), Has(profiles.target, name)
          PROVE  /\ UnderLocation(name) <=> Under(rules, w, path, k)
                 /\ From(name) = rules[k].from /\ LastOf(profiles.target, name) = rules[k].to
      <4>1. From(name) = rules[k].from /\ LastOf(profiles.target, name) = rules[k].to
        BY <3>2 DEF RuleOf
      <4> QED
        BY <3>2, <4>1, NormalIs DEF UnderLocation, Under
    <3>3. ASSUME NEW name \in Names, UnderLocation(name)
          PROVE  \E k \in 1..Len(rules) : rules[k] = RuleOf(profiles, name) /\ Has(profiles.target, name)
      <4>1. PICK i \in DOMAIN profiles.source : name = profiles.source[i].name
        BY DEF Names
      <4>2. Has(profiles.target, name)
        BY <3>3 DEF UnderLocation
      <4>3. InBoth(profiles, i)
        BY <4>1, <4>2 DEF InBoth
      <4> QED
        BY <2>1, <3>1, <4>1, <4>2, <4>3, RulesLoop
    <3>4. CASE match = Unmapped
      <4>1. NoneUnder(rules, w, path, Len(path))
        BY <2>1, <3>4 DEF Best
      <4>2. ASSUME NEW name \in Names, UnderLocation(name) PROVE FALSE
        <5>1. PICK k \in 1..Len(rules) : rules[k] = RuleOf(profiles, name) /\ Has(profiles.target, name)
          BY <3>3, <4>2
        <5>2. Under(rules, w, path, k)
          BY <3>2, <4>2, <5>1
        <5> QED
          BY <4>1, <5>2 DEF NoneUnder, Under
      <4>3. LongestLocations = {}
        BY <4>2 DEF LongestLocations
      <4> QED
        BY <2>1, <3>4, <4>3
    <3>5. CASE match # Unmapped
      <4>1. PICK k \in 1..Len(rules) : FromRule(match, rules, path, k) /\ LongestUnder(rules, w, path, Len(path), k)
        BY <2>1, <3>5 DEF Best
      <4>2. PICK i \in DOMAIN profiles.source :
              InBoth(profiles, i) /\ rules[k] = RuleOf(profiles, profiles.source[i].name)
        BY <2>1, <3>1, RulesLoop
      <4> DEFINE name == profiles.source[i].name
      <4>3. name \in Names /\ Has(profiles.target, name)
        BY <4>2 DEF Names, InBoth
      <4>4. /\ UnderLocation(name) /\ From(name) = rules[k].from
            /\ LastOf(profiles.target, name) = rules[k].to
        BY <3>2, <4>1, <4>2, <4>3 DEF LongestUnder
      <4>5. ASSUME NEW other \in Names, UnderLocation(other) PROVE Len(From(other)) <= Len(From(name))
        <5>1. PICK j \in 1..Len(rules) : rules[j] = RuleOf(profiles, other) /\ Has(profiles.target, other)
          BY <3>3, <4>5
        <5>2. Under(rules, w, path, j) /\ From(other) = rules[j].from
          BY <3>2, <4>5, <5>1
        <5>3. Len(rules[j].from) <= Len(path)
          BY <5>2 DEF Under
        <5> QED
          BY <4>1, <4>4, <5>2, <5>3 DEF LongestUnder
      <4>6. name \in LongestLocations
        BY <4>3, <4>4, <4>5 DEF LongestLocations
      <4>7. match = [to |-> LastOf(profiles.target, name),
                     rest |-> SubSeq(path, Len(From(name)) + 1, Len(path))]
        BY <4>1, <4>4 DEF FromRule
      <4> QED
        BY <2>1, <2>3, <3>5, <4>6, <4>7
    <3> QED
      BY <3>4, <3>5
  <2> QED
    BY <2>2, <2>3
<1> QED
  BY PathInvariance, <1>1, PTL

-----------------------------------------------------------------------------
(* ManifestSnapshots *)

(* A row or an entry pairs the hash h of a file f with the time m.  Of f   *)
(* there is a version of that time, whose content is that of the hash, or  *)
(* which was replaced between the stat and the read: it is not the present *)
(* one, and will be present again only as a restored one.                  *)
Now(f, v, d) == f \in DOMAIN d /\ d[f] = v
Twins(f, vs, rs) == f \in rs \/ \E v, w \in vs[f] : v # w /\ v.mtime = w.mtime
HashesOne(f, h, vs) == \E v \in vs[f] : v.content = h
TimedBy(f, h, m, v, d) == v.mtime = m /\ (v.content = h \/ ~Now(f, v, d))
RowOK(f, r, d, vs, rs) ==
  /\ HashesOne(f, r.hash, vs)
  /\ Twins(f, vs, rs) \/ \E v \in vs[f] : TimedBy(f, r.hash, r.mtime, v, d)
PairOK(f, e, d, vs, rs) ==
  /\ HashesOne(f, e.hash, vs)
  /\ Twins(f, vs, rs) \/ \E v \in vs[f] : TimedBy(f, e.hash, e.mtime, v, d) /\ Size[v.content] = e.size
PairsOK(m, d, vs, rs) == \A f \in DOMAIN m : PairOK(f, m[f], d, vs, rs)

Busy == sphase \in {"list", "compare", "prepare", "hash", "write"}
Holds(f, d, h) == (f \in DOMAIN d => d[f].content \in h[f]) /\ (f \notin DOMAIN d => Gone \in h[f])

SnapTypesInv ==
  /\ SnapshotsTypeOK /\ call.pattern \subseteq SFiles /\ call.force \in BOOLEAN
  /\ call.base # 0 => call.base \in DOMAIN saved
  /\ call.op = "diff" => call.base # 0
HistoryInv ==
  /\ \A f \in Existing : dir[f] \in versions[f]
  /\ Busy => \A f \in SFiles : Holds(f, dir, held)
PairsInv ==
  /\ \A f \in DOMAIN row : RowOK(f, row[f], dir, versions, restored)
  /\ \A n \in DOMAIN saved : PairsOK(saved[n], dir, versions, restored)
  /\ PairsOK(reference, dir, versions, restored) /\ PairsOK(entries, dir, versions, restored)

(* The file that was statted had, during the call, the version seen; what  *)
(* the cache has for its time is the hash of that version.                 *)
StattedAs(f, v) ==
  /\ v.mtime = statted.mtime /\ Size[v.content] = statted.size /\ v.content \in held[f]
  /\ Known(f) => row[f].hash = v.content
StatInv ==
  statted # Gone =>
    /\ sphase = "hash" /\ statted.file \in listed
    /\ \/ Twins(statted.file, versions, restored)
       \/ \E v \in versions[statted.file] : StattedAs(statted.file, v)

ReadNow(f, h) == h \in held[f] \/ Twins(f, versions, restored)
EntriesInv == sphase # "merged" => \A f \in DOMAIN entries : ReadNow(f, entries[f].hash)

ToCompare == IF call.base = 0 THEN Empty ELSE saved[call.base]
BaseInv ==
  /\ sphase \in {"compare", "prepare", "hash", "write"} => reference = ToCompare /\ result = NoResult
  /\ sphase = "done" => reference = ToCompare \/ (call.base # 0 /\ result.name = call.base)

(* What the manifest compared with says of f is so.                        *)
Right(f) == f \in DOMAIN reference /\ Current(f, reference[f])
WasThere(f) == \E c \in held[f] : c # Gone
ListInv ==
  /\ sphase = "list" => result = NoResult /\ again = FALSE /\ entries = Empty /\ changed = {}
  /\ sphase \in {"compare", "prepare", "hash"} =>
       /\ rest \subseteq listed
       /\ \A f \in listed : f \in call.pattern /\ WasThere(f)
       /\ \A f \in call.pattern \ listed : Gone \in held[f]

DifferedNow(f, v) == v.content \in held[f] /\ Differs(v, reference[f])
CompareInv ==
  sphase = "compare" =>
    /\ ~ByHash /\ ~Hashed /\ changed \subseteq listed
    /\ \A f \in listed : f \in rest \/ f \in changed \/ Right(f)
    /\ \A f \in changed \cap DOMAIN reference : \E v \in versions[f] : DifferedNow(f, v)

Covered(f) == f \in rest \/ (statted # Gone /\ statted.file = f) \/ f \in DOMAIN entries
HashInv ==
  sphase = "hash" =>
    /\ DOMAIN entries \subseteq listed
    /\ call.op = "diff" => ByHash /\ again = FALSE /\ \A f \in listed : Covered(f)
    /\ call.op = "snapshot" => \A f \in SFiles : Stayed(f) => Covered(f) \/ Right(f)
WriteInv ==
  /\ sphase = "prepare" =>
       call.op = "snapshot" /\ \A f \in SFiles : Stayed(f) => f \in rest \/ Right(f)
  /\ sphase = "write" =>
       call.op = "snapshot" /\ \A f \in SFiles : Stayed(f) => f \in DOMAIN entries \/ Right(f)

WasModified(f, v) ==
  /\ v.content \in held[f] \/ Alike(f)
  /\ IF call.force THEN v.content # reference[f].hash ELSE Differs(v, reference[f])
Tells(d) ==
  /\ \A f \in d.new : f \in SFiles /\ f \notin DOMAIN reference /\ WasThere(f)
  /\ \A f \in d.modified : f \in DOMAIN reference /\ \E v \in versions[f] : WasModified(f, v)
  /\ \A f \in d.deleted : f \in DOMAIN reference /\ (f \notin call.pattern \/ Gone \in held[f])
  /\ \A f \in call.pattern : f \in d.new \/ f \in d.modified \/ f \in d.deleted \/ Right(f)
                             \/ (f \notin DOMAIN reference /\ Gone \in held[f])
DoneInv ==
  /\ sphase = "done" /\ call.op = "diff" => Tells(result.diff)
  /\ sphase = "done" /\ call.op = "snapshot" =>
       /\ result.name = 0 => \A f \in SFiles : Stayed(f) => Right(f)
       /\ result.name # 0 =>
            /\ result.name \in DOMAIN saved /\ saved[result.name] = entries
            /\ \A f \in SFiles : Stayed(f) => f \in DOMAIN entries \/ Right(f)
  /\ sphase = "merged" =>
       call.base = result.name
       \/ \A f \in SFiles : Stayed(f) => f \in DOMAIN entries /\ Current(f, entries[f])

SnapInv ==
  /\ SnapTypesInv /\ HistoryInv /\ PairsInv /\ StatInv /\ EntriesInv
  /\ BaseInv /\ ListInv /\ CompareInv /\ HashInv /\ WriteInv /\ DoneInv

-----------------------------------------------------------------------------
(* Put changes one value of a function.                                    *)
LEMMA PutIs ==
  ASSUME NEW fn, NEW x, NEW v
  PROVE  /\ DOMAIN Put(fn, x, v) = DOMAIN fn \cup {x} /\ Put(fn, x, v)[x] = v
         /\ \A y \in DOMAIN fn : y # x => Put(fn, x, v)[y] = fn[y]
  BY DEF Put

(* The empty manifest has no files.                                        *)
LEMMA EmptyIs == DOMAIN Empty = {}
  BY DEF Empty

(* What time and the edits of files add: versions and contents held; what  *)
(* was a former version is present again only when it was restored.        *)
Aged(d, vs, rs, d2, vs2, rs2) ==
  /\ \A f \in SFiles : vs[f] \subseteq vs2[f]
  /\ rs \subseteq rs2
  /\ \A f \in SFiles : \A v \in vs[f] : Now(f, v, d2) => Now(f, v, d) \/ f \in rs2
AgedNow == Aged(dir, versions, restored, dir', versions', restored')
HeldLonger == \A f \in SFiles : held[f] \subseteq held'[f]

(* Versions that were alike remain so.                                     *)
LEMMA TwinsAge ==
  ASSUME NEW d, NEW vs, NEW rs, NEW d2, NEW vs2, NEW rs2, Aged(d, vs, rs, d2, vs2, rs2),
         NEW f \in SFiles, Twins(f, vs, rs)
  PROVE  Twins(f, vs2, rs2)
  BY DEF Aged, Twins

(* Rows and entries that were right about a version remain so.             *)
LEMMA PairsAge ==
  ASSUME NEW d, NEW vs, NEW rs, NEW d2, NEW vs2, NEW rs2, Aged(d, vs, rs, d2, vs2, rs2),
         NEW f \in SFiles
  PROVE  /\ \A r : RowOK(f, r, d, vs, rs) => RowOK(f, r, d2, vs2, rs2)
         /\ \A e : PairOK(f, e, d, vs, rs) => PairOK(f, e, d2, vs2, rs2)
<1>1. Twins(f, vs, rs) => Twins(f, vs2, rs2)
  BY TwinsAge
<1>2. vs[f] \subseteq vs2[f]
  BY DEF Aged
<1>3. \A h : HashesOne(f, h, vs) => HashesOne(f, h, vs2)
  BY <1>2 DEF HashesOne
<1>4. \A v \in vs[f] : \A h, m :
        TimedBy(f, h, m, v, d) => TimedBy(f, h, m, v, d2) \/ Twins(f, vs2, rs2)
  BY DEF TimedBy, Twins, Aged
<1>5. \A r : RowOK(f, r, d, vs, rs) => RowOK(f, r, d2, vs2, rs2)
  BY <1>1, <1>2, <1>3, <1>4 DEF RowOK
<1>6. \A e : PairOK(f, e, d, vs, rs) => PairOK(f, e, d2, vs2, rs2)
  BY <1>1, <1>2, <1>3, <1>4 DEF PairOK
<1> QED
  BY <1>5, <1>6

(* What holds of a file goes on to hold.                                   *)
LEMMA Persists ==
  ASSUME SnapTypesInv, AgedNow, HeldLonger, UNCHANGED <<call, reference>>
  PROVE  \A f \in SFiles :
           /\ Twins(f, versions, restored) => Twins(f, versions', restored')
           /\ \A h : ReadNow(f, h) => ReadNow(f, h)'
           /\ Alike(f) => Alike(f)'
           /\ Right(f) => Right(f)'
           /\ Stayed(f)' => Stayed(f)
           /\ WasThere(f) => WasThere(f)'
           /\ \A v : DifferedNow(f, v) => DifferedNow(f, v)'
           /\ \A v : WasModified(f, v) => WasModified(f, v)'
<1> SUFFICES ASSUME NEW f \in SFiles
             PROVE  /\ Twins(f, versions, restored) => Twins(f, versions', restored')
                    /\ \A h : ReadNow(f, h) => ReadNow(f, h)'
                    /\ Alike(f) => Alike(f)'
                    /\ Right(f) => Right(f)'
                    /\ Stayed(f)' => Stayed(f)
                    /\ WasThere(f) => WasThere(f)'
                    /\ \A v : DifferedNow(f, v) => DifferedNow(f, v)'
                    /\ \A v : WasModified(f, v) => WasModified(f, v)'
  OBVIOUS
<1>1. held[f] \subseteq held'[f] /\ versions[f] \subseteq versions'[f] /\ restored \subseteq restored'
  BY DEF HeldLonger, AgedNow, Aged
<1>2. Twins(f, versions, restored) => Twins(f, versions', restored')
  BY TwinsAge DEF AgedNow
<1>3. \A h : ReadNow(f, h) => ReadNow(f, h)'
  BY <1>1, <1>2 DEF ReadNow
<1>4. ByHash' <=> ByHash
  BY DEF ByHash, Hashed
<1>5. Alike(f) => Alike(f)'
  BY <1>1, <1>4 DEF Alike
<1>6. Right(f) => Right(f)'
  BY <1>1, <1>5 DEF Right, Current
<1>7. (Stayed(f)' => Stayed(f)) /\ (WasThere(f) => WasThere(f)')
  BY <1>1 DEF Stayed, WasThere
<1>8. \A v : DifferedNow(f, v) => DifferedNow(f, v)'
  BY <1>1 DEF DifferedNow, Differs
<1>9. \A v : WasModified(f, v) => WasModified(f, v)'
  BY <1>1, <1>5 DEF WasModified, Differs
<1> QED
  BY <1>2, <1>3, <1>5, <1>6, <1>7, <1>8, <1>9

(* Without edits nothing ages.                                             *)
LEMMA AgesNot ==
  ASSUME UNCHANGED snapEnv
  PROVE  AgedNow
  BY DEF snapEnv, AgedNow, Aged

(* Files are written and deleted, and the clock goes on.                   *)
LEMMA NotedMore ==
  ASSUME SnapTypesInv, NEW f \in SFiles, NEW c \in SContents \cup {Gone}
  PROVE  /\ Noted(f, c) \in [SFiles -> SUBSET (SContents \cup {Gone})]
         /\ \A g \in SFiles : held[g] \subseteq Noted(f, c)[g]
         /\ Busy => c \in Noted(f, c)[f]
<1>1. held \in [SFiles -> SUBSET (SContents \cup {Gone})]
  BY DEF SnapTypesInv, SnapshotsTypeOK
<1>2. CASE sphase \in {"idle", "done", "merged", "raised"}
  BY <1>1, <1>2 DEF Noted, Busy
<1>3. CASE sphase \notin {"idle", "done", "merged", "raised"}
  <2>1. Noted(f, c) = [held EXCEPT ![f] = @ \cup {c}]
    BY <1>3 DEF Noted
  <2> QED
    BY <1>1, <2>1
<1> QED
  BY <1>2, <1>3

(* A file that is written has a new version, or one restored.              *)
LEMMA WriteAges ==
  ASSUME SnapTypesInv, HistoryInv, NEW f \in SFiles, WriteFile(f)
  PROVE  SnapTypesInv' /\ HistoryInv' /\ AgedNow /\ HeldLonger /\ UNCHANGED <<row, saved, snapCall, snapWork>>
<1>1. PICK v \in Versions :
        /\ dir' = Put(dir, f, v) /\ versions' = [versions EXCEPT ![f] = @ \cup {v}]
        /\ restored' = IF v \in versions[f] THEN restored \cup {f} ELSE restored
        /\ held' = Noted(f, v.content)
  BY DEF WriteFile
<1>2. UNCHANGED <<row, second, saved, scalls, snapCall, snapWork>> /\ sedits' = sedits + 1 /\ sedits < SEdits
  BY DEF WriteFile
<1>3. /\ IsMap(dir, SFiles, Versions) /\ versions \in [SFiles -> SUBSET Versions]
      /\ restored \subseteq SFiles /\ sedits \in 0..SEdits
  BY DEF SnapTypesInv, SnapshotsTypeOK
<1>4. v.content \in SContents \cup {Gone} /\ v.content \in SContents
  BY DEF Versions
<1>5. /\ DOMAIN dir' = Existing \cup {f} /\ dir'[f] = v
      /\ \A g \in Existing : g # f => dir'[g] = dir[g]
  <2>1. /\ DOMAIN Put(dir, f, v) = DOMAIN dir \cup {f} /\ Put(dir, f, v)[f] = v
        /\ \A g \in DOMAIN dir : g # f => Put(dir, f, v)[g] = dir[g]
    BY DEF Put
  <2> QED
    BY <1>1, <2>1 DEF Existing
<1>6. /\ held' \in [SFiles -> SUBSET (SContents \cup {Gone})] /\ HeldLonger
      /\ Busy => v.content \in held'[f]
  BY <1>1, <1>4, NotedMore DEF HeldLonger
<1>7. /\ versions' \in [SFiles -> SUBSET Versions] /\ v \in versions'[f]
      /\ \A g \in SFiles : versions[g] \subseteq versions'[g]
      /\ \A g \in SFiles : g # f => versions'[g] = versions[g]
  BY <1>1, <1>3
<1>8. restored' \subseteq SFiles /\ restored \subseteq restored' /\ (v \in versions[f] => f \in restored')
  BY <1>1, <1>3
<1>9. SnapTypesInv'
  <2>1. IsMap(dir', SFiles, Versions)
    BY <1>3, <1>5 DEF IsMap, Existing
  <2>2. sedits' \in 0..SEdits
    BY <1>2, <1>3, SnapshotsAssumption
  <2> QED
    BY <1>2, <1>6, <1>7, <1>8, <2>1, <2>2 DEF SnapTypesInv, SnapshotsTypeOK, snapCall, snapWork
<1>10. HistoryInv'
  <2>1. \A g \in Existing' : dir'[g] \in versions'[g]
    <3> SUFFICES ASSUME NEW g \in DOMAIN dir' PROVE dir'[g] \in versions'[g]
      BY DEF Existing
    <3>1. CASE g = f
      BY <1>5, <1>7, <3>1
    <3>2. CASE g # f
      <4>1. g \in Existing /\ dir'[g] = dir[g] /\ g \in SFiles
        BY <1>3, <1>5, <3>2 DEF Existing, IsMap
      <4> QED
        BY <1>7, <4>1 DEF HistoryInv
    <3> QED
      BY <3>1, <3>2
  <2>2. ASSUME Busy', NEW g \in SFiles PROVE Holds(g, dir', held')
    <3>1. Busy
      BY <1>2, <2>2 DEF Busy, snapWork
    <3>2. Holds(g, dir, held)
      BY <3>1 DEF HistoryInv
    <3>3. CASE g = f
      BY <1>5, <1>6, <3>1, <3>3 DEF Holds
    <3>4. CASE g # f
      BY <1>5, <1>6, <3>2, <3>4 DEF Holds, HeldLonger, Existing
    <3> QED
      BY <3>3, <3>4
  <2> QED
    BY <2>1, <2>2 DEF HistoryInv
<1>11. ASSUME NEW g \in SFiles, NEW u \in versions[g], Now(g, u, dir') PROVE Now(g, u, dir) \/ g \in restored'
  BY <1>5, <1>8, <1>11 DEF Now, Existing
<1> QED
  BY <1>2, <1>6, <1>7, <1>8, <1>9, <1>10, <1>11 DEF AgedNow, Aged

(* A file that is deleted has no present version.                          *)
LEMMA DeleteAges ==
  ASSUME SnapTypesInv, HistoryInv, NEW f \in SFiles, DeleteFile(f)
  PROVE  SnapTypesInv' /\ HistoryInv' /\ AgedNow /\ HeldLonger /\ UNCHANGED <<row, saved, snapCall, snapWork>>
<1>1. /\ f \in Existing /\ dir' = [g \in Existing \ {f} |-> dir[g]] /\ held' = Noted(f, Gone)
      /\ UNCHANGED <<versions, restored, row, second, saved, scalls, snapCall, snapWork>>
      /\ sedits' = sedits + 1 /\ sedits < SEdits
  BY DEF DeleteFile
<1>2. IsMap(dir, SFiles, Versions) /\ sedits \in 0..SEdits
  BY DEF SnapTypesInv, SnapshotsTypeOK
<1>3. DOMAIN dir' = Existing \ {f} /\ \A g \in DOMAIN dir' : dir'[g] = dir[g]
  BY <1>1
<1>4. /\ held' \in [SFiles -> SUBSET (SContents \cup {Gone})] /\ HeldLonger
      /\ Busy => Gone \in held'[f]
  BY <1>1, NotedMore DEF HeldLonger
<1>5. SnapTypesInv'
  <2>1. IsMap(dir', SFiles, Versions)
    BY <1>2, <1>3 DEF IsMap, Existing
  <2>2. sedits' \in 0..SEdits
    BY <1>1, <1>2, SnapshotsAssumption
  <2> QED
    BY <1>1, <1>4, <2>1, <2>2 DEF SnapTypesInv, SnapshotsTypeOK, snapCall, snapWork
<1>6. HistoryInv'
  <2>1. \A g \in Existing' : dir'[g] \in versions'[g]
    BY <1>1, <1>3 DEF HistoryInv, Existing
  <2>2. ASSUME Busy', NEW g \in SFiles PROVE Holds(g, dir', held')
    <3>1. Busy
      BY <1>1, <2>2 DEF Busy, snapWork
    <3>2. Holds(g, dir, held)
      BY <3>1 DEF HistoryInv
    <3>3. CASE g = f
      BY <1>3, <1>4, <3>1, <3>3 DEF Holds
    <3>4. CASE g # f
      BY <1>3, <1>4, <3>2, <3>4 DEF Holds, HeldLonger, Existing
    <3> QED
      BY <3>3, <3>4
  <2> QED
    BY <2>1, <2>2 DEF HistoryInv
<1>7. AgedNow
  BY <1>1, <1>3 DEF AgedNow, Aged, Now, Existing
<1> QED
  BY <1>1, <1>4, <1>5, <1>6, <1>7

(* Whatever goes on beside a call, or if nothing does: what the call has   *)
(* found out stays true.                                                   *)
LEMMA AgingSnapInv ==
  ASSUME SnapInv, SnapTypesInv', HistoryInv', AgedNow, HeldLonger, UNCHANGED <<row, saved, snapCall, snapWork>>
  PROVE  SnapInv'
<1>1. /\ UNCHANGED <<row, saved, call, listed, reference>>
      /\ UNCHANGED <<sphase, changed, rest, statted, entries, again, result>>
  BY DEF snapCall, snapWork
<1>2. /\ listed \subseteq SFiles /\ DOMAIN row \subseteq SFiles /\ DOMAIN reference \subseteq SFiles
      /\ DOMAIN entries \subseteq SFiles /\ \A n \in DOMAIN saved : DOMAIN saved[n] \subseteq SFiles
      /\ changed \subseteq SFiles /\ call.pattern \subseteq SFiles
  BY DEF SnapInv, SnapTypesInv, SnapshotsTypeOK, IsMap, IsManifest
<1>3. \A f \in SFiles :
           /\ Twins(f, versions, restored) => Twins(f, versions', restored')
           /\ \A h : ReadNow(f, h) => ReadNow(f, h)'
           /\ Alike(f) => Alike(f)'
           /\ Right(f) => Right(f)'
           /\ Stayed(f)' => Stayed(f)
           /\ WasThere(f) => WasThere(f)'
           /\ \A v : DifferedNow(f, v) => DifferedNow(f, v)'
           /\ \A v : WasModified(f, v) => WasModified(f, v)'
  BY <1>1, Persists DEF SnapInv
<1>4. \A f \in SFiles : held[f] \subseteq held'[f] /\ versions[f] \subseteq versions'[f]
  BY DEF HeldLonger, AgedNow, Aged
<1>5. PairsInv'
  <2>1. \A f \in SFiles :
          /\ \A r : RowOK(f, r, dir, versions, restored) => RowOK(f, r, dir', versions', restored')
          /\ \A e : PairOK(f, e, dir, versions, restored) => PairOK(f, e, dir', versions', restored')
    BY PairsAge DEF AgedNow
  <2>2. \A f \in DOMAIN row : RowOK(f, row[f], dir', versions', restored')
    BY <1>2, <2>1 DEF SnapInv, PairsInv
  <2>3. /\ \A n \in DOMAIN saved : PairsOK(saved[n], dir', versions', restored')
        /\ PairsOK(reference, dir', versions', restored') /\ PairsOK(entries, dir', versions', restored')
    BY <1>2, <2>1 DEF SnapInv, PairsInv, PairsOK
  <2> QED
    BY <1>1, <2>2, <2>3 DEF PairsInv
<1>6. StatInv'
  <2> SUFFICES ASSUME statted # Gone
               PROVE  /\ sphase = "hash" /\ statted.file \in listed
                      /\ \/ Twins(statted.file, versions', restored')
                         \/ \E v \in versions'[statted.file] : StattedAs(statted.file, v)'
    BY <1>1 DEF StatInv
  <2>1. /\ sphase = "hash" /\ statted.file \in listed /\ statted.file \in SFiles
        /\ \/ Twins(statted.file, versions, restored)
           \/ \E v \in versions[statted.file] : StattedAs(statted.file, v)
    BY <1>2 DEF SnapInv, StatInv
  <2>2. \A v : StattedAs(statted.file, v) => StattedAs(statted.file, v)'
    BY <1>1, <1>4, <2>1 DEF StattedAs, Known
  <2> QED
    BY <1>3, <1>4, <2>1, <2>2
<1>7. EntriesInv' /\ BaseInv' /\ ListInv'
  <2>1. EntriesInv'
    BY <1>1, <1>2, <1>3 DEF SnapInv, EntriesInv
  <2>2. BaseInv'
    BY <1>1 DEF SnapInv, BaseInv, ToCompare
  <2>3. ListInv'
    BY <1>1, <1>2, <1>3, <1>4 DEF SnapInv, ListInv
  <2> QED
    BY <2>1, <2>2, <2>3
<1>8. CompareInv'
  BY <1>1, <1>2, <1>3, <1>4 DEF SnapInv, CompareInv, ByHash, Hashed
<1>9. HashInv' /\ WriteInv'
  <2>1. \A f : Covered(f)' <=> Covered(f)
    BY <1>1 DEF Covered
  <2>2. ByHash' <=> ByHash
    BY <1>1 DEF ByHash, Hashed
  <2>3. HashInv'
    BY <1>1, <1>3, <2>1, <2>2 DEF SnapInv, HashInv
  <2>4. WriteInv'
    BY <1>1, <1>3 DEF SnapInv, WriteInv
  <2> QED
    BY <2>3, <2>4
<1>10. DoneInv'
  <2>1. ASSUME sphase = "done", call.op = "diff" PROVE Tells(result.diff)'
    <3>1. Tells(result.diff)
      BY <2>1 DEF SnapInv, DoneInv
    <3> QED
      BY <1>1, <1>2, <1>3, <1>4, <3>1 DEF Tells
  <2>2. ASSUME sphase = "done", call.op = "snapshot"
        PROVE  /\ result.name = 0 => \A f \in SFiles : Stayed(f)' => Right(f)'
               /\ result.name # 0 =>
                    /\ result.name \in DOMAIN saved /\ saved[result.name] = entries
                    /\ \A f \in SFiles : Stayed(f)' => f \in DOMAIN entries \/ Right(f)'
    BY <1>3, <2>2 DEF SnapInv, DoneInv
  <2>3. ASSUME sphase = "merged", call.base # result.name
        PROVE  \A f \in SFiles : Stayed(f)' => f \in DOMAIN entries /\ Current(f, entries[f])'
    <3> SUFFICES ASSUME NEW f \in SFiles, Stayed(f)' PROVE f \in DOMAIN entries /\ Current(f, entries[f])'
      OBVIOUS
    <3>1. f \in DOMAIN entries /\ Current(f, entries[f])
      BY <1>3, <2>3 DEF SnapInv, DoneInv
    <3> QED
      BY <1>1, <1>3, <1>4, <3>1 DEF Current
  <2> QED
    BY <1>1, <2>1, <2>2, <2>3 DEF DoneInv
<1> QED
  BY <1>5, <1>6, <1>7, <1>8, <1>9, <1>10 DEF SnapInv

(* At first the rows of the hash cache are right and there is no manifest. *)
LEMMA InitSnapInv == SnapshotsInit => SnapInv
<1> SUFFICES ASSUME SnapshotsInit PROVE SnapInv
  OBVIOUS
<1>1. PICK S \in SUBSET Existing : row = [f \in S |-> [hash |-> dir[f].content, mtime |-> dir[f].mtime]]
  BY DEF SnapshotsInit
<1>2. /\ dir \in SDisks /\ versions = [f \in SFiles |-> IF f \in Existing THEN {dir[f]} ELSE {}]
      /\ restored = {} /\ held = ContentsNow /\ second = 1 /\ saved = Empty
      /\ sphase = "idle" /\ call = NoCall /\ listed = {} /\ reference = Empty
      /\ changed = {} /\ rest = {} /\ statted = Gone /\ entries = Empty /\ again = FALSE
      /\ result = NoResult /\ sedits = 0 /\ scalls = 0
  BY DEF SnapshotsInit
<1>3. IsMap(dir, SFiles, Versions)
  BY <1>2, SnapshotsAssumption DEF IsMap, Versions
<1>4. /\ DOMAIN row = S /\ S \subseteq Existing /\ Existing \subseteq SFiles
      /\ \A f \in S : row[f].hash = dir[f].content /\ row[f].mtime = dir[f].mtime
      /\ \A f \in S : dir[f].content \in SContents /\ dir[f].mtime \in STimes
  BY <1>1, <1>3 DEF IsMap, Versions, Existing
<1>5. held \in [SFiles -> SUBSET (SContents \cup {Gone})]
  <2>1. \A f \in SFiles : IF f \in Existing THEN {dir[f].content} \in SUBSET (SContents \cup {Gone})
                          ELSE {Gone} \in SUBSET (SContents \cup {Gone})
    BY <1>3 DEF IsMap, Versions, Existing
  <2> QED
    BY <1>2, <2>1 DEF ContentsNow
<1>6. versions \in [SFiles -> SUBSET Versions] /\ \A f \in Existing : dir[f] \in versions[f]
  BY <1>2, <1>3 DEF IsMap, Existing
<1>7. SnapshotsTypeOK
  <2>1. IsMap(row, SFiles, [hash : SContents, mtime : STimes])
    BY <1>1, <1>4 DEF IsMap
  <2>2. IsManifest(reference) /\ IsManifest(entries) /\ DOMAIN saved = {}
    BY <1>2, EmptyIs DEF IsManifest, IsMap
  <2>3. second \in 1..SSeconds /\ sedits \in 0..SEdits /\ scalls \in 0..SCalls
    BY <1>2, SnapshotsAssumption
  <2>4. /\ call.op \in {"snapshot", "diff"} /\ call.base \in 0..SSeconds
        /\ result.name \in 0..SSeconds
    BY <1>2, SnapshotsAssumption DEF NoCall, NoResult
  <2> QED
    BY <1>2, <1>3, <1>5, <1>6, <2>1, <2>2, <2>3, <2>4 DEF SnapshotsTypeOK
<1>8. SnapTypesInv
  BY <1>2, <1>7 DEF SnapTypesInv, NoCall
<1>9. PairsInv
  <2>1. DOMAIN saved = {} /\ DOMAIN reference = {} /\ DOMAIN entries = {}
    BY <1>2, EmptyIs
  <2>2. ASSUME NEW f \in DOMAIN row PROVE RowOK(f, row[f], dir, versions, restored)
    <3>1. dir[f] \in versions[f]
      BY <1>4, <1>6, <2>2
    <3>2. row[f].hash = dir[f].content /\ row[f].mtime = dir[f].mtime
      BY <1>4, <2>2
    <3> QED
      BY <3>1, <3>2 DEF RowOK, HashesOne, TimedBy
  <2> QED
    BY <2>1, <2>2 DEF PairsInv, PairsOK
<1>10. HistoryInv /\ StatInv /\ EntriesInv /\ BaseInv /\ ListInv /\ CompareInv /\ HashInv /\ WriteInv /\ DoneInv
  BY <1>2, <1>6, EmptyIs
     DEF HistoryInv, Busy, StatInv, EntriesInv, BaseInv, ListInv, CompareInv, HashInv, WriteInv, DoneInv
<1> QED
  BY <1>8, <1>9, <1>10 DEF SnapInv

(* A call begins with what the directory holds.                            *)
LEMMA CallSnapInv == ASSUME SnapInv, CallApi PROVE SnapInv'
<1>1. /\ sphase \in {"idle", "done", "merged", "raised"} /\ scalls < SCalls /\ call' \in Calls
      /\ sphase' = "list" /\ held' = ContentsNow /\ scalls' = scalls + 1
      /\ changed' = {} /\ rest' = {} /\ entries' = Empty /\ again' = FALSE /\ result' = NoResult
      /\ UNCHANGED <<dir, versions, restored, sedits, row, second, saved, listed, reference, statted>>
  BY DEF CallApi, snapEnv
<1>2. /\ SnapshotsTypeOK /\ IsMap(dir, SFiles, Versions)
  BY DEF SnapInv, SnapTypesInv, SnapshotsTypeOK
<1>3. statted = Gone
  BY <1>1 DEF SnapInv, StatInv
<1>4. held' \in [SFiles -> SUBSET (SContents \cup {Gone})]
  <2>1. \A f \in SFiles : IF f \in Existing THEN {dir[f].content} \in SUBSET (SContents \cup {Gone})
                          ELSE {Gone} \in SUBSET (SContents \cup {Gone})
    BY <1>2 DEF IsMap, Versions, Existing
  <2> QED
    BY <1>1, <2>1 DEF ContentsNow
<1>5. \A f \in SFiles : Holds(f, dir, held')
  BY <1>1 DEF ContentsNow, Holds, Existing
<1>6. /\ call'.op \in {"snapshot", "diff"} /\ call'.base \in {0} \cup DOMAIN saved
      /\ call'.force \in BOOLEAN /\ call'.pattern \in Patterns /\ call'.pattern \subseteq SFiles
      /\ call'.op = "diff" => call'.base \in DOMAIN saved
  BY <1>1, SnapshotsAssumption DEF Calls
<1>7. DOMAIN saved \subseteq 1..SSeconds /\ SSeconds \in Nat /\ scalls' \in 0..SCalls
  BY <1>1, <1>2, SnapshotsAssumption DEF SnapshotsTypeOK
<1>8. call'.base \in 0..SSeconds /\ result'.name \in 0..SSeconds /\ (call'.op = "diff" => call'.base # 0)
  BY <1>1, <1>6, <1>7 DEF NoResult
<1>9. IsManifest(entries')
  BY <1>1, EmptyIs DEF IsManifest, IsMap
<1>10. SnapTypesInv'
  BY <1>1, <1>2, <1>3, <1>4, <1>6, <1>7, <1>8, <1>9 DEF SnapTypesInv, SnapshotsTypeOK
<1>11. HistoryInv'
  BY <1>1, <1>5 DEF SnapInv, HistoryInv, Existing
<1>12. PairsInv'
  BY <1>1, EmptyIs DEF SnapInv, PairsInv, PairsOK
<1>13. StatInv' /\ EntriesInv' /\ BaseInv' /\ ListInv' /\ CompareInv' /\ HashInv' /\ WriteInv' /\ DoneInv'
  BY <1>1, <1>3, EmptyIs
     DEF StatInv, EntriesInv, BaseInv, ListInv, CompareInv, HashInv, WriteInv, DoneInv
<1> QED
  BY <1>10, <1>11, <1>12, <1>13 DEF SnapInv

(* The steps of a call change neither the directory nor what it held.      *)
Stepping == UNCHANGED <<dir, versions, restored, sedits, held, second, scalls, call>>

(* The steps of a call do not touch the directory.                         *)
LEMMA SteppingHistory ==
  ASSUME SnapInv, Stepping, Busy
  PROVE  HistoryInv'
  BY DEF SnapInv, HistoryInv, Stepping, Existing

(* So what holds of its files goes on to hold.                             *)
LEMMA SteppingSame ==
  ASSUME Stepping, UNCHANGED reference
  PROVE  /\ \A f : Alike(f)' <=> Alike(f)
         /\ \A f : Right(f)' <=> Right(f)
         /\ \A f : Stayed(f)' <=> Stayed(f)
         /\ \A f : WasThere(f)' <=> WasThere(f)
         /\ \A f, v : DifferedNow(f, v)' <=> DifferedNow(f, v)
         /\ ByHash' <=> ByHash
         /\ Hashed' <=> Hashed
  BY DEF Stepping, Alike, Right, Current, Stayed, WasThere, DifferedNow, Differs, ByHash, Hashed

(* A file is listed if it was there when the directory was globbed, and a  *)
(* pattern's file that is not listed was not there then.                   *)
LEMMA ListSnapInv == ASSUME SnapInv, ListFiles PROVE SnapInv'
<1>1. /\ sphase = "list" /\ listed' = Existing \cap call.pattern /\ rest' = listed'
      /\ reference' = ToCompare
      /\ UNCHANGED <<dir, versions, restored, sedits, held, row, second, saved, call, scalls,
                     changed, statted, entries, again, result>>
  BY DEF ListFiles, snapEnv, ToCompare
<1>2. sphase' = CASE Hashed \/ (ByHash /\ call.op = "snapshot") -> "prepare"
                 [] ByHash /\ call.op = "diff" -> "hash"
                 [] OTHER -> "compare"
  BY DEF ListFiles
<1>3. /\ SnapshotsTypeOK /\ call.pattern \subseteq SFiles /\ call.op \in {"snapshot", "diff"}
      /\ (call.base # 0 => call.base \in DOMAIN saved) /\ (call.op = "diff" => call.base # 0)
  BY DEF SnapInv, SnapTypesInv, SnapshotsTypeOK
<1>4. /\ sphase' \in {"prepare", "hash", "compare"}
      /\ sphase' = "prepare" => call.op = "snapshot"
      /\ sphase' = "hash" => ByHash /\ call.op = "diff"
      /\ sphase' = "compare" => ~ByHash /\ ~Hashed
  BY <1>2, <1>3 DEF Hashed, ByHash
<1>5. statted = Gone /\ again = FALSE /\ entries = Empty /\ changed = {} /\ result = NoResult
  BY <1>1 DEF SnapInv, StatInv, ListInv
<1>6. \A f \in SFiles : Holds(f, dir, held)
  BY <1>1 DEF SnapInv, HistoryInv, Busy
<1>7. IsManifest(reference') /\ PairsOK(reference', dir, versions, restored)
  <2>1. CASE call.base = 0
    BY <1>1, <2>1, EmptyIs DEF ToCompare, IsManifest, IsMap, PairsOK
  <2>2. CASE call.base # 0
    BY <1>1, <1>3, <2>2 DEF ToCompare, SnapshotsTypeOK, SnapInv, PairsInv
  <2> QED
    BY <2>1, <2>2
<1>8. listed' \subseteq SFiles
  BY <1>1, <1>3
<1>9. SnapTypesInv'
  BY <1>1, <1>3, <1>4, <1>5, <1>7, <1>8 DEF SnapInv, SnapTypesInv, SnapshotsTypeOK
<1>10. HistoryInv'
  BY <1>1, SteppingHistory DEF Stepping, Busy
<1>11. PairsInv'
  BY <1>1, <1>7 DEF SnapInv, PairsInv
<1>12. StatInv' /\ EntriesInv' /\ BaseInv'
  BY <1>1, <1>4, <1>5, EmptyIs DEF StatInv, EntriesInv, BaseInv, ToCompare
<1>13. \A f \in listed' : f \in call.pattern /\ WasThere(f)
  <2> SUFFICES ASSUME NEW f \in listed' PROVE WasThere(f)
    BY <1>1
  <2>1. f \in DOMAIN dir /\ dir[f].content \in held[f] /\ dir[f] \in Versions
    BY <1>1, <1>3, <1>6 DEF Holds, Existing, SnapshotsTypeOK, IsMap
  <2>2. dir[f].content # Gone
    BY <2>1, SnapshotsAssumption DEF Versions
  <2> QED
    BY <2>1, <2>2 DEF WasThere
<1>14. \A f \in call.pattern \ listed' : Gone \in held[f]
  BY <1>1, <1>3, <1>6 DEF Holds, Existing
<1>15. ListInv'
  BY <1>1, <1>4, <1>13, <1>14 DEF ListInv, WasThere
<1>16. CompareInv'
  BY <1>1, <1>4, <1>5 DEF CompareInv, ByHash, Hashed
<1>17. HashInv'
  BY <1>1, <1>4, <1>5, EmptyIs DEF HashInv, Covered, ByHash, Hashed
<1>18. WriteInv'
  <2>1. \A f \in SFiles : Stayed(f)' => f \in rest'
    BY <1>1, <1>14 DEF Stayed
  <2> QED
    BY <1>1, <1>4, <2>1 DEF WriteInv
<1>19. DoneInv'
  BY <1>4 DEF DoneInv
<1> QED
  BY <1>9, <1>10, <1>11, <1>12, <1>15, <1>16, <1>17, <1>18, <1>19 DEF SnapInv

(* Versions of one time are alike for every comparison; a hash that was    *)
(* read in the call, or came from the cache, is a current one but for      *)
(* those.                                                                  *)
LEMMA TwinsAlike ==
  ASSUME NEW f
  PROVE  /\ Twins(f, versions, restored) => Alike(f)
         /\ \A e : ReadNow(f, e.hash) => Current(f, e)
<1>1. Twins(f, versions, restored) => Alike(f)
  BY DEF Twins, Alike
<1> QED
  BY <1>1 DEF ReadNow, Current

(* Every file in the comparison either differs, and once did, or is as the *)
(* manifest says: so the report tells, and a snapshot has to do no more    *)
(* than what differs.                                                      *)
LEMMA ComparedSnapInv ==
  ASSUME SnapInv, Stepping, UNCHANGED <<row, saved, listed, reference, changed, statted, entries>>,
         sphase \in {"compare", "hash"}, statted = Gone, again' \in BOOLEAN,
         NEW files, NEW differing, files \subseteq listed, differing \subseteq files,
         Compared(files, differing),
         call.op = "diff" => \A f \in call.pattern : f \in files \/ Gone \in held[f],
         call.op = "snapshot" => \A f \in SFiles : Stayed(f) => f \in files \/ Right(f),
         \A f \in files : f \in differing \/ Right(f),
         \A f \in differing \cap DOMAIN reference : \E v \in versions[f] : WasModified(f, v)
  PROVE  SnapInv'
<1>1. /\ SnapshotsTypeOK /\ listed \subseteq SFiles /\ call.op \in {"snapshot", "diff"}
      /\ reference = ToCompare /\ result = NoResult
      /\ rest \subseteq listed
      /\ \A f \in listed : f \in call.pattern /\ WasThere(f)
      /\ \A f \in call.pattern \ listed : Gone \in held[f]
  BY DEF SnapInv, SnapTypesInv, SnapshotsTypeOK, BaseInv, ListInv
<1>2. /\ \A f : Right(f)' <=> Right(f)
      /\ \A f : Stayed(f)' <=> Stayed(f)
      /\ \A f : WasThere(f)' <=> WasThere(f)
  BY SteppingSame
<1>3. /\ UNCHANGED <<dir, versions, restored, sedits, held, second, scalls, call>>
      /\ UNCHANGED <<row, saved, listed, reference, changed, statted, entries>>
  BY DEF Stepping
<1>4. HistoryInv'
  BY SteppingHistory DEF Busy
<1>5. PairsInv' /\ EntriesInv' /\ StatInv'
  BY <1>3 DEF SnapInv, PairsInv, EntriesInv, StatInv, ReadNow
<1>6. CASE call.op = "diff"
  <2>1. sphase' = "done" /\ rest' = rest /\ result' = [NoResult EXCEPT !.diff = ReportOf(files, differing)]
    BY <1>6 DEF Compared
  <2>2. result'.name = 0 /\ result'.diff = ReportOf(files, differing)
    BY <2>1 DEF NoResult
  <2>3. SnapTypesInv'
    BY <1>1, <1>3, <2>1, <2>2 DEF SnapInv, SnapTypesInv, SnapshotsTypeOK
  <2>4. BaseInv' /\ ListInv' /\ CompareInv' /\ HashInv' /\ WriteInv'
    BY <1>1, <1>3, <2>1 DEF BaseInv, ListInv, CompareInv, HashInv, WriteInv, ToCompare
  <2> DEFINE d == ReportOf(files, differing)
  <2>5. d.new = differing \ DOMAIN reference /\ d.modified = differing \cap DOMAIN reference
        /\ d.deleted = DOMAIN reference \ files
    BY DEF ReportOf
  <2> HIDE DEF d
  <2>6. \A f \in d.new : f \in SFiles /\ f \notin DOMAIN reference /\ WasThere(f)
    BY <1>1, <2>5
  <2>7. \A f \in d.modified : f \in DOMAIN reference /\ \E v \in versions[f] : WasModified(f, v)
    BY <2>5
  <2>8. \A f \in d.deleted : f \in DOMAIN reference /\ (f \notin call.pattern \/ Gone \in held[f])
    BY <1>6, <2>5
  <2>9. ASSUME NEW f \in call.pattern, f \notin d.new, f \notin d.modified, f \notin d.deleted, ~Right(f)
        PROVE  f \notin DOMAIN reference /\ Gone \in held[f]
    <3>1. f \notin differing /\ f \notin files /\ f \notin DOMAIN reference
      BY <2>5, <2>9
    <3> QED
      BY <1>6, <3>1
  <2>10. Tells(d)
    BY <2>6, <2>7, <2>8, <2>9 DEF Tells
  <2>11. Tells(result.diff)'
    <3>1. result'.diff = d
      BY <2>2 DEF d
    <3>2. \A f : Alike(f)' <=> Alike(f)
      BY SteppingSame
    <3>3. \A f, v : WasModified(f, v)' <=> WasModified(f, v)
      BY <1>3, <3>2 DEF WasModified, Differs
    <3> QED
      BY <1>2, <1>3, <2>10, <3>1, <3>3 DEF Tells
  <2>12. DoneInv'
    BY <1>3, <1>6, <2>1, <2>11 DEF DoneInv
  <2> QED
    BY <1>4, <1>5, <2>3, <2>4, <2>12 DEF SnapInv
<1>7. CASE call.op = "snapshot"
  <2>1. /\ sphase' = (IF differing = {} THEN "done" ELSE "prepare") /\ rest' = differing
        /\ result' = NoResult
    BY <1>1, <1>7 DEF Compared
  <2>2. sphase' \in {"done", "prepare"} /\ (sphase' = "done" => differing = {})
    BY <2>1
  <2>3. SnapTypesInv'
    <3>1. rest' \subseteq SFiles
      BY <1>1, <2>1
    <3> QED
      BY <1>1, <1>3, <2>1, <2>2, <3>1 DEF SnapInv, SnapTypesInv, SnapshotsTypeOK
  <2>4. BaseInv' /\ CompareInv' /\ HashInv'
    BY <1>1, <1>3, <2>1, <2>2 DEF BaseInv, CompareInv, HashInv, ToCompare
  <2>5. ListInv'
    BY <1>1, <1>2, <1>3, <2>1, <2>2 DEF ListInv
  <2>6. \A f \in SFiles : Stayed(f) => f \in differing \/ Right(f)
    BY <1>7
  <2>7. WriteInv'
    BY <1>2, <1>3, <1>7, <2>1, <2>2, <2>6 DEF WriteInv
  <2>8. DoneInv'
    <3>1. result'.name = 0
      BY <2>1 DEF NoResult
    <3> QED
      BY <1>2, <1>3, <1>7, <2>2, <2>6, <3>1 DEF DoneInv
  <2> QED
    BY <1>4, <1>5, <2>3, <2>4, <2>5, <2>7, <2>8 DEF SnapInv
<1> QED
  BY <1>1, <1>6, <1>7

(* The comparison by size and time ends.                                   *)
LEMMA CompareDoneSnapInv == ASSUME SnapInv, CompareDone PROVE SnapInv'
<1>1. /\ sphase = "compare" /\ rest = {} /\ Compared(listed, changed) /\ Stepping
      /\ UNCHANGED <<row, saved, listed, reference, changed, statted, entries, again>>
  BY DEF CompareDone, snapEnv, snapCall, Stepping
<1>2. /\ ~ByHash /\ ~Hashed /\ changed \subseteq listed
      /\ \A f \in listed : f \in changed \/ Right(f)
      /\ \A f \in changed \cap DOMAIN reference : \E v \in versions[f] : DifferedNow(f, v)
  BY <1>1 DEF SnapInv, CompareInv
<1>3. ~call.force
  BY <1>2 DEF ByHash
<1>4. \A f, v : DifferedNow(f, v) => WasModified(f, v)
  BY <1>3 DEF DifferedNow, WasModified
<1>5. \A f \in call.pattern : f \in listed \/ Gone \in held[f]
  BY <1>1 DEF SnapInv, ListInv
<1>6. \A f \in SFiles : Stayed(f) => f \in listed
  BY <1>5 DEF Stayed
<1>7. statted = Gone /\ again' \in BOOLEAN
  BY <1>1 DEF SnapInv, StatInv, SnapTypesInv, SnapshotsTypeOK
<1>8. \A f \in changed \cap DOMAIN reference : \E v \in versions[f] : WasModified(f, v)
  BY <1>2, <1>4
<1> QED
  BY <1>1, <1>2, <1>5, <1>6, <1>7, <1>8, ComparedSnapInv

(* The hashing ends: of a forced comparison for the first time, which then *)
(* compares the hashes, or with a manifest to write.                       *)
LEMMA HashDoneSnapInv == ASSUME SnapInv, HashDone PROVE SnapInv'
<1>1. /\ sphase = "hash" /\ rest = {} /\ statted = Gone /\ Stepping
      /\ UNCHANGED <<row, saved, listed, reference, changed, statted, entries>>
  BY DEF HashDone, snapEnv, snapCall, Stepping
<1>2. /\ DOMAIN entries \subseteq listed /\ listed \subseteq SFiles
      /\ call.op = "diff" => ByHash /\ again = FALSE /\ \A f \in listed : f \in DOMAIN entries
      /\ call.op = "snapshot" => \A f \in SFiles : Stayed(f) => f \in DOMAIN entries \/ Right(f)
      /\ call.op \in {"snapshot", "diff"} /\ again \in BOOLEAN
  BY <1>1 DEF SnapInv, HashInv, Covered, SnapTypesInv, SnapshotsTypeOK
<1>3. CASE ByHash /\ ~again
  <2>1. Compared(DOMAIN entries, DifferingByHash) /\ again' = TRUE
    BY <1>3 DEF HashDone
  <2>2. DifferingByHash \subseteq DOMAIN entries
    BY DEF DifferingByHash
  <2>3. call.op = "diff" => \A f \in call.pattern : f \in DOMAIN entries \/ Gone \in held[f]
    BY <1>1, <1>2 DEF SnapInv, ListInv
  <2>4. \A f \in DOMAIN entries : ReadNow(f, entries[f].hash)
    BY <1>1 DEF SnapInv, EntriesInv
  <2>5. ASSUME NEW f \in DOMAIN entries, f \notin DifferingByHash PROVE Right(f)
    <3>1. f \in DOMAIN reference /\ entries[f].hash = reference[f].hash
      BY <2>5 DEF DifferingByHash
    <3>2. ReadNow(f, reference[f].hash)
      BY <2>4, <3>1
    <3> QED
      BY <3>1, <3>2, TwinsAlike DEF Right
  <2>6. ASSUME NEW f \in DifferingByHash \cap DOMAIN reference
        PROVE  \E v \in versions[f] : WasModified(f, v)
    <3>1. f \in DOMAIN entries /\ entries[f].hash # reference[f].hash
      BY <2>6 DEF DifferingByHash
    <3>2. PICK v \in versions[f] : v.content = entries[f].hash
      BY <3>1 DEF SnapInv, PairsInv, PairsOK, PairOK, HashesOne
    <3>3. v.content \in held[f] \/ Alike(f)
      BY <2>4, <3>1, <3>2, TwinsAlike DEF ReadNow
    <3>4. call.force
      BY <1>3 DEF ByHash
    <3> QED
      BY <3>1, <3>2, <3>3, <3>4 DEF WasModified
  <2> QED
    BY <1>1, <1>2, <2>1, <2>2, <2>3, <2>5, <2>6, ComparedSnapInv
<1>4. CASE ~(ByHash /\ ~again)
  <2>1. sphase' = "write" /\ UNCHANGED <<rest, again, result>>
    BY <1>4 DEF HashDone
  <2>2. call.op = "snapshot"
    BY <1>2, <1>4
  <2>3. /\ UNCHANGED <<dir, versions, restored, sedits, held, second, scalls, call>>
        /\ UNCHANGED <<row, saved, listed, reference, changed, statted, entries>>
    BY <1>1 DEF Stepping
  <2>4. SnapTypesInv'
    BY <2>1, <2>3 DEF SnapInv, SnapTypesInv, SnapshotsTypeOK
  <2>5. HistoryInv'
    BY <1>1, SteppingHistory DEF Busy
  <2>6. PairsInv' /\ EntriesInv' /\ StatInv'
    BY <1>1, <2>1, <2>3 DEF SnapInv, PairsInv, EntriesInv, StatInv, ReadNow
  <2>7. BaseInv'
    BY <1>1, <2>1, <2>3 DEF SnapInv, BaseInv, ToCompare
  <2>8. ListInv' /\ CompareInv' /\ HashInv' /\ DoneInv'
    BY <2>1 DEF ListInv, CompareInv, HashInv, DoneInv
  <2>9. WriteInv'
    <3>1. \A f \in SFiles : (Stayed(f)' <=> Stayed(f)) /\ (Right(f)' <=> Right(f))
      BY <1>1, SteppingSame
    <3> QED
      BY <1>2, <2>1, <2>2, <2>3, <3>1 DEF WriteInv
  <2> QED
    BY <2>4, <2>5, <2>6, <2>7, <2>8, <2>9 DEF SnapInv
<1> QED
  BY <1>3, <1>4

(* A file whose size and time are near those of its entry is as the entry  *)
(* says: the entry's version is the present one, or is alike.              *)
LEMMA CompareFileSnapInv == ASSUME SnapInv, NEW f \in SFiles, CompareFile(f) PROVE SnapInv'
<1>1. /\ sphase = "compare" /\ f \in rest /\ Stepping
      /\ UNCHANGED <<row, saved, listed, reference, statted, entries, again, result>>
  BY DEF CompareFile, snapEnv, snapCall, Stepping
<1>2. UNCHANGED <<dir, versions, restored, sedits, held, second, scalls, call>>
  BY <1>1 DEF Stepping
<1>3. \/ sphase' = "raised" /\ UNCHANGED <<changed, rest>>
      \/ /\ f \in Existing /\ rest' = rest \ {f} /\ sphase' = "compare"
         /\ changed' = IF f \notin DOMAIN reference \/ Differs(dir[f], reference[f])
                       THEN changed \cup {f} ELSE changed
  BY <1>1 DEF CompareFile
<1>4. /\ ~ByHash /\ ~Hashed /\ changed \subseteq listed /\ rest \subseteq listed /\ listed \subseteq SFiles
      /\ changed \subseteq SFiles /\ rest \subseteq SFiles
      /\ \A g \in listed : g \in rest \/ g \in changed \/ Right(g)
      /\ \A g \in changed \cap DOMAIN reference : \E v \in versions[g] : DifferedNow(g, v)
  BY <1>1 DEF SnapInv, CompareInv, ListInv, SnapTypesInv, SnapshotsTypeOK
<1>5. changed' \subseteq listed /\ changed' \subseteq SFiles /\ rest' \subseteq SFiles /\ rest' \subseteq listed
  BY <1>1, <1>3, <1>4
<1>6. SnapTypesInv'
  BY <1>1, <1>2, <1>3, <1>5 DEF SnapInv, SnapTypesInv, SnapshotsTypeOK
<1>7. HistoryInv'
  BY <1>1, SteppingHistory DEF Busy
<1>8. statted = Gone
  BY <1>1 DEF SnapInv, StatInv
<1>9. PairsInv' /\ EntriesInv' /\ StatInv'
  BY <1>1, <1>2, <1>8 DEF SnapInv, PairsInv, EntriesInv, StatInv, ReadNow
<1>10. BaseInv' /\ HashInv' /\ WriteInv' /\ DoneInv'
  BY <1>1, <1>2, <1>3 DEF SnapInv, BaseInv, HashInv, WriteInv, DoneInv, ToCompare
<1>11. \A g : /\ WasThere(g)' <=> WasThere(g)
              /\ Right(g)' <=> Right(g)
              /\ \A v : DifferedNow(g, v)' <=> DifferedNow(g, v)
  BY <1>1, SteppingSame
<1>12. ListInv'
  BY <1>1, <1>2, <1>3, <1>5, <1>11 DEF SnapInv, ListInv
<1>13. CompareInv'
  <2> SUFFICES ASSUME sphase' = "compare" PROVE CompareInv'
    BY DEF CompareInv
  <2>1. /\ f \in Existing /\ rest' = rest \ {f}
        /\ changed' = IF f \notin DOMAIN reference \/ Differs(dir[f], reference[f])
                      THEN changed \cup {f} ELSE changed
    BY <1>3
  <2>2. dir[f] \in versions[f] /\ dir[f].content \in held[f] /\ f \in DOMAIN dir
    BY <1>1, <2>1 DEF SnapInv, HistoryInv, Holds, Busy, Existing
  <2>3. f \in DOMAIN reference /\ ~Differs(dir[f], reference[f]) => Right(f)
    <3> SUFFICES ASSUME f \in DOMAIN reference, ~Differs(dir[f], reference[f]) PROVE Right(f)
      OBVIOUS
    <3>1. Size[dir[f].content] = reference[f].size /\ Near(dir[f].mtime, reference[f].mtime)
      BY DEF Differs
    <3>2. PairOK(f, reference[f], dir, versions, restored)
      BY DEF SnapInv, PairsInv, PairsOK
    <3>3. CASE Twins(f, versions, restored)
      BY <3>3, TwinsAlike DEF Right, Current
    <3>4. CASE ~Twins(f, versions, restored)
      <4>1. PICK v \in versions[f] :
              TimedBy(f, reference[f].hash, reference[f].mtime, v, dir) /\ Size[v.content] = reference[f].size
        BY <3>2, <3>4 DEF PairOK
      <4>2. v.mtime = reference[f].mtime /\ (v.content = reference[f].hash \/ v # dir[f])
        BY <2>2, <4>1 DEF TimedBy, Now
      <4>3. CASE v = dir[f]
        BY <2>2, <4>2, <4>3 DEF Right, Current
      <4>4. CASE v # dir[f]
        <5>1. Near(dir[f].mtime, v.mtime) /\ Size[dir[f].content] = Size[v.content]
          BY <3>1, <4>1, <4>2
        <5>2. Alike(f)
          BY <1>4, <2>2, <4>4, <5>1 DEF Alike
        <5> QED
          BY <5>2 DEF Right, Current
      <4> QED
        BY <4>3, <4>4
    <3> QED
      BY <3>3, <3>4
  <2>4. \A g \in listed : g \in rest' \/ g \in changed' \/ Right(g)
    BY <1>4, <2>1, <2>3
  <2>5. ASSUME NEW g \in changed' \cap DOMAIN reference PROVE \E v \in versions[g] : DifferedNow(g, v)
    <3>1. CASE g \in changed
      BY <1>4, <2>5, <3>1
    <3>2. CASE g \notin changed
      <4>1. g = f /\ Differs(dir[f], reference[f])
        BY <2>1, <2>5, <3>2
      <4> QED
        BY <2>2, <4>1 DEF DifferedNow
    <3> QED
      BY <3>1, <3>2
  <2>6. ~ByHash' /\ ~Hashed'
    BY <1>2, <1>4 DEF ByHash, Hashed
  <2> QED
    BY <1>1, <1>2, <1>5, <1>11, <2>4, <2>5, <2>6 DEF CompareInv
<1> QED
  BY <1>6, <1>7, <1>9, <1>10, <1>12, <1>13 DEF SnapInv

(* Files that are missing by now were not there all through the call.      *)
LEMMA PrepareSnapInv == ASSUME SnapInv, PrepareFiles PROVE SnapInv'
<1>1. /\ sphase = "prepare" /\ rest' = rest \cap Existing /\ entries' = Empty /\ Stepping
      /\ sphase' = IF rest' = {} THEN "done" ELSE "hash"
      /\ UNCHANGED <<row, saved, listed, reference, changed, statted, again, result>>
  BY DEF PrepareFiles, snapEnv, snapCall, Stepping
<1>2. UNCHANGED <<dir, versions, restored, sedits, held, second, scalls, call>>
  BY <1>1 DEF Stepping
<1>3. /\ sphase' \in {"done", "hash"} /\ (sphase' = "done" => rest' = {})
      /\ rest' \subseteq rest
  BY <1>1
<1>4. /\ call.op = "snapshot" /\ rest \subseteq listed /\ rest \subseteq SFiles
      /\ \A f \in SFiles : Stayed(f) => f \in rest \/ Right(f)
      /\ reference = ToCompare /\ result = NoResult /\ statted = Gone
  BY <1>1 DEF SnapInv, WriteInv, ListInv, SnapTypesInv, SnapshotsTypeOK, BaseInv, StatInv
<1>5. \A f \in SFiles : Stayed(f) => f \in rest' \/ Right(f)
  <2>1. \A f \in SFiles : Stayed(f) => f \in Existing
    BY <1>1 DEF SnapInv, HistoryInv, Busy, Holds, Existing, Stayed
  <2> QED
    BY <1>1, <1>4, <2>1
<1>6. DOMAIN entries' = {}
  BY <1>1, EmptyIs
<1>7. SnapTypesInv'
  <2>1. IsManifest(entries') /\ rest' \subseteq SFiles
    BY <1>3, <1>4, <1>6 DEF IsManifest, IsMap
  <2> QED
    BY <1>1, <1>2, <1>3, <2>1 DEF SnapInv, SnapTypesInv, SnapshotsTypeOK
<1>8. HistoryInv'
  BY <1>1, SteppingHistory DEF Busy
<1>9. PairsInv' /\ EntriesInv' /\ StatInv'
  BY <1>1, <1>2, <1>4, <1>6 DEF SnapInv, PairsInv, PairsOK, EntriesInv, StatInv
<1>10. BaseInv' /\ CompareInv' /\ WriteInv'
  BY <1>1, <1>2, <1>3, <1>4 DEF BaseInv, CompareInv, WriteInv, ToCompare
<1>11. \A f : /\ WasThere(f)' <=> WasThere(f)
              /\ Right(f)' <=> Right(f)
              /\ Stayed(f)' <=> Stayed(f)
  BY <1>1, SteppingSame
<1>12. ListInv'
  BY <1>1, <1>2, <1>3, <1>11 DEF SnapInv, ListInv
<1>13. HashInv'
  BY <1>2, <1>4, <1>5, <1>6, <1>11 DEF HashInv, Covered
<1>14. DoneInv'
  <2>1. result'.name = 0
    BY <1>1, <1>4 DEF NoResult
  <2> QED
    BY <1>2, <1>3, <1>4, <1>5, <1>11, <2>1 DEF DoneInv
<1> QED
  BY <1>7, <1>8, <1>9, <1>10, <1>12, <1>13, <1>14 DEF SnapInv

(* The row of the file that is statted, if it has the same time, is of the *)
(* very version that is there, unless two versions have that time.         *)
LEMMA StatSnapInv == ASSUME SnapInv, NEW f \in SFiles, StatFile(f) PROVE SnapInv'
<1>1. /\ sphase = "hash" /\ statted = Gone /\ f \in rest /\ Stepping
      /\ UNCHANGED <<row, saved, listed, reference, changed, entries, again, result>>
  BY DEF StatFile, snapEnv, snapCall, Stepping
<1>2. UNCHANGED <<dir, versions, restored, sedits, held, second, scalls, call>>
  BY <1>1 DEF Stepping
<1>3. \/ sphase' = "raised" /\ UNCHANGED <<rest, statted>>
      \/ /\ f \in Existing /\ rest' = rest \ {f} /\ sphase' = "hash"
         /\ statted' = [file |-> f, size |-> Size[dir[f].content], mtime |-> dir[f].mtime]
  BY <1>1 DEF StatFile
<1>4. /\ SnapshotsTypeOK /\ rest \subseteq listed /\ DOMAIN entries \subseteq listed
      /\ call.op = "diff" => ByHash /\ again = FALSE /\ \A g \in listed : Covered(g)
      /\ call.op = "snapshot" => \A g \in SFiles : Stayed(g) => Covered(g) \/ Right(g)
  BY <1>1 DEF SnapInv, SnapTypesInv, ListInv, HashInv
<1>5. \A g : Right(g)' <=> Right(g)
  BY <1>1, SteppingSame
<1>6. \A g : (Stayed(g)' <=> Stayed(g)) /\ (WasThere(g)' <=> WasThere(g))
  BY <1>1, SteppingSame
<1>7. HistoryInv'
  BY <1>1, SteppingHistory DEF Busy
<1>8. PairsInv' /\ EntriesInv'
  BY <1>1, <1>2, <1>3 DEF SnapInv, PairsInv, EntriesInv, ReadNow
<1>9. BaseInv' /\ ListInv' /\ CompareInv' /\ WriteInv' /\ DoneInv'
  <2>1. sphase' \in {"raised", "hash"} /\ rest' \subseteq rest
    BY <1>3
  <2>2. ListInv'
    BY <1>1, <1>2, <1>4, <1>6, <2>1 DEF SnapInv, ListInv
  <2> QED
    BY <1>1, <1>2, <2>1, <2>2 DEF SnapInv, BaseInv, CompareInv, WriteInv, DoneInv, ToCompare
<1>10. CASE sphase' = "raised" /\ UNCHANGED <<rest, statted>>
  <2>1. SnapTypesInv'
    BY <1>1, <1>2, <1>10 DEF SnapInv, SnapTypesInv, SnapshotsTypeOK
  <2>2. StatInv' /\ HashInv'
    BY <1>1, <1>10 DEF StatInv, HashInv
  <2> QED
    BY <1>7, <1>8, <1>9, <2>1, <2>2 DEF SnapInv
<1>11. CASE sphase' # "raised"
  <2>1. /\ f \in DOMAIN dir /\ rest' = rest \ {f} /\ sphase' = "hash"
        /\ statted' = [file |-> f, size |-> Size[dir[f].content], mtime |-> dir[f].mtime]
    BY <1>3, <1>11 DEF Existing
  <2>2. dir[f] \in Versions /\ dir[f] \in versions[f] /\ dir[f].content \in held[f]
    BY <1>1, <1>4, <2>1 DEF SnapInv, HistoryInv, Holds, Busy, Existing, SnapshotsTypeOK, IsMap
  <2>3. statted'.file = f /\ statted'.size = Size[dir[f].content] /\ statted'.mtime = dir[f].mtime
    BY <2>1
  <2>4. statted'.size \in Nat /\ statted'.mtime \in STimes
    BY <2>2, <2>3, SnapshotsAssumption DEF Versions
  <2>5. SnapTypesInv'
    <3>1. rest' \subseteq SFiles
      BY <1>4, <2>1 DEF SnapshotsTypeOK
    <3> QED
      BY <1>1, <1>2, <2>1, <2>3, <2>4, <3>1 DEF SnapInv, SnapTypesInv, SnapshotsTypeOK
  <2>6. Twins(f, versions, restored) \/ (f \in DOMAIN row /\ row[f].mtime = dir[f].mtime => row[f].hash = dir[f].content)
    <3> SUFFICES ASSUME ~Twins(f, versions, restored), f \in DOMAIN row, row[f].mtime = dir[f].mtime
                 PROVE  row[f].hash = dir[f].content
      OBVIOUS
    <3>1. RowOK(f, row[f], dir, versions, restored)
      BY DEF SnapInv, PairsInv
    <3>2. PICK v \in versions[f] : TimedBy(f, row[f].hash, row[f].mtime, v, dir)
      BY <3>1 DEF RowOK
    <3>3. v = dir[f]
      BY <2>2, <3>2 DEF TimedBy, Twins
    <3> QED
      BY <2>1, <3>2, <3>3 DEF TimedBy, Now
  <2>7. StatInv'
    <3>1. Twins(f, versions, restored) \/ StattedAs(f, dir[f])'
      BY <1>1, <1>2, <2>2, <2>3, <2>6 DEF StattedAs, Known
    <3> QED
      BY <1>1, <1>2, <1>4, <2>1, <2>2, <2>3, <3>1 DEF StatInv
  <2>8. \A g : Covered(g) => Covered(g)'
    <3>1. statted' \in [file : SFiles, size : Nat, mtime : STimes]
      BY <2>1, <2>3, <2>4
    <3>2. statted' # Gone
      BY <3>1, SnapshotsAssumption
    <3> QED
      BY <1>1, <2>1, <2>3, <3>2 DEF Covered
  <2>9. HashInv'
    BY <1>1, <1>2, <1>4, <1>5, <1>6, <2>8, SteppingSame DEF HashInv
  <2> QED
    BY <1>7, <1>8, <1>9, <2>5, <2>7, <2>9 DEF SnapInv
<1> QED
  BY <1>3, <1>10, <1>11

(* The entry made for the file that was statted, whether its hash comes    *)
(* from the cache or from the file.                                        *)
LEMMA EnteredSnapInv ==
  ASSUME SnapInv, Stepping, UNCHANGED <<saved, listed, reference, changed, rest, again, result>>,
         sphase = "hash", statted # Gone, sphase' = "hash", statted' = Gone,
         NEW h \in SContents, entries' = Put(entries, statted.file, EntryOf(h)),
         ReadNow(statted.file, h),
         PairOK(statted.file, EntryOf(h), dir, versions, restored),
         IsMap(row', SFiles, [hash : SContents, mtime : STimes]),
         \A f \in DOMAIN row' : RowOK(f, row'[f], dir, versions, restored)
  PROVE  SnapInv'
<1> DEFINE f == statted.file
<1>1. UNCHANGED <<dir, versions, restored, sedits, held, second, scalls, call>>
  BY DEF Stepping
<1>2. /\ SnapshotsTypeOK /\ f \in listed /\ f \in SFiles /\ EntryOf(h) \in SnapEntries
      /\ DOMAIN entries \subseteq listed
  <2>1. SnapshotsTypeOK /\ f \in listed /\ f \in SFiles /\ DOMAIN entries \subseteq listed
    BY DEF SnapInv, SnapTypesInv, SnapshotsTypeOK, StatInv, HashInv
  <2>2. statted.size \in Nat /\ statted.mtime \in STimes
    BY <2>1 DEF SnapshotsTypeOK
  <2> QED
    BY <2>1, <2>2 DEF EntryOf, SnapEntries
<1>3. /\ DOMAIN entries' = DOMAIN entries \cup {f} /\ entries'[f] = EntryOf(h)
      /\ \A g \in DOMAIN entries : g # f => entries'[g] = entries[g]
  BY DEF Put
<1>4. EntryOf(h).hash = h
  BY DEF EntryOf
<1> HIDE DEF f
<1>5. SnapTypesInv'
  <2>1. IsManifest(entries')
    BY <1>2, <1>3 DEF SnapshotsTypeOK, IsManifest, IsMap
  <2> QED
    BY <1>1, <1>2, <2>1 DEF SnapInv, SnapTypesInv, SnapshotsTypeOK
<1>6. HistoryInv'
  BY SteppingHistory DEF Busy
<1>7. PairsInv'
  <2>1. PairsOK(entries', dir, versions, restored)
    BY <1>3 DEF SnapInv, PairsInv, PairsOK, f
  <2> QED
    BY <1>1, <2>1 DEF SnapInv, PairsInv
<1>8. StatInv' /\ CompareInv' /\ WriteInv' /\ DoneInv'
  BY DEF StatInv, CompareInv, WriteInv, DoneInv
<1>9. EntriesInv'
  <2>1. \A g \in DOMAIN entries' : ReadNow(g, entries'[g].hash)
    BY <1>3, <1>4 DEF SnapInv, EntriesInv, f
  <2> QED
    BY <1>1, <2>1 DEF EntriesInv, ReadNow
<1>10. BaseInv'
  BY <1>1 DEF SnapInv, BaseInv, ToCompare
<1>11. \A g : /\ WasThere(g)' <=> WasThere(g)
              /\ Right(g)' <=> Right(g)
              /\ Stayed(g)' <=> Stayed(g)
  BY SteppingSame
<1>12. ListInv'
  BY <1>1, <1>11 DEF SnapInv, ListInv
<1>13. HashInv'
  <2>1. \A g : Covered(g) => Covered(g)'
    BY <1>3 DEF Covered, f
  <2>2. ByHash' <=> ByHash
    BY SteppingSame
  <2>3. DOMAIN entries' \subseteq listed
    BY <1>2, <1>3
  <2> QED
    BY <1>1, <1>11, <2>1, <2>2, <2>3 DEF SnapInv, HashInv
<1> QED
  BY <1>5, <1>6, <1>7, <1>8, <1>9, <1>10, <1>12, <1>13 DEF SnapInv

(* The hash comes from the row: it is the one of the version statted.      *)
LEMMA CacheSnapInv == ASSUME SnapInv, TakeFromCache PROVE SnapInv'
<1> DEFINE f == statted.file
           h == row[f].hash
<1>1. /\ sphase = "hash" /\ statted # Gone /\ Known(f) /\ Stepping /\ sphase' = "hash"
      /\ entries' = Put(entries, f, EntryOf(h)) /\ statted' = Gone
      /\ UNCHANGED <<row, saved, listed, reference, changed, rest, again, result>>
  BY DEF TakeFromCache, snapEnv, snapCall, Stepping
<1>2. f \in DOMAIN row /\ IsMap(row, SFiles, [hash : SContents, mtime : STimes])
  BY <1>1 DEF Known, SnapInv, SnapTypesInv, SnapshotsTypeOK
<1>3. h \in SContents /\ \A g \in DOMAIN row : RowOK(g, row[g], dir, versions, restored)
  BY <1>2 DEF IsMap, SnapInv, PairsInv
<1>4. HashesOne(f, h, versions)
  BY <1>2, <1>3 DEF RowOK
<1>5. EntryOf(h).hash = h /\ EntryOf(h).size = statted.size /\ EntryOf(h).mtime = statted.mtime
  BY DEF EntryOf
<1>6. Twins(f, versions, restored) \/ \E v \in versions[f] : StattedAs(f, v)
  BY <1>1 DEF SnapInv, StatInv
<1>7. CASE Twins(f, versions, restored)
  <2>1. ReadNow(f, h) /\ PairOK(f, EntryOf(h), dir, versions, restored)
    BY <1>4, <1>5, <1>7 DEF ReadNow, PairOK
  <2> HIDE DEF h
  <2> QED
    BY <1>1, <1>2, <1>3, <2>1, EnteredSnapInv
<1>8. CASE ~Twins(f, versions, restored)
  <2>1. PICK v \in versions[f] : StattedAs(f, v)
    BY <1>6, <1>8
  <2>2. v.mtime = statted.mtime /\ Size[v.content] = statted.size /\ v.content \in held[f] /\ h = v.content
    BY <1>1, <2>1 DEF StattedAs
  <2>3. ReadNow(f, h) /\ PairOK(f, EntryOf(h), dir, versions, restored)
    BY <1>4, <1>5, <2>2 DEF ReadNow, PairOK, TimedBy
  <2> HIDE DEF h
  <2> QED
    BY <1>1, <1>2, <1>3, <2>3, EnteredSnapInv
<1> QED
  BY <1>7, <1>8

(* A call that raises ends, and leaves what it had.                        *)
LEMMA RaisedSnapInv ==
  ASSUME SnapInv, Stepping, UNCHANGED <<row, saved, listed, reference, changed, rest, entries, again, result>>,
         sphase = "hash", sphase' = "raised", statted' = Gone
  PROVE  SnapInv'
<1>1. UNCHANGED <<dir, versions, restored, sedits, held, second, scalls, call>>
  BY DEF Stepping
<1>2. SnapTypesInv'
  BY <1>1 DEF SnapInv, SnapTypesInv, SnapshotsTypeOK
<1>3. HistoryInv'
  BY SteppingHistory DEF Busy
<1>4. PairsInv' /\ EntriesInv'
  BY <1>1 DEF SnapInv, PairsInv, EntriesInv, ReadNow
<1>5. StatInv' /\ BaseInv' /\ ListInv' /\ CompareInv' /\ HashInv' /\ WriteInv' /\ DoneInv'
  BY DEF StatInv, BaseInv, ListInv, CompareInv, HashInv, WriteInv, DoneInv
<1> QED
  BY <1>2, <1>3, <1>4, <1>5 DEF SnapInv

(* The hash comes from the file, which may have been written since the     *)
(* stat: then the version statted is not the present one, and the row and  *)
(* the entry pair its time with the hash of a later version.               *)
LEMMA ReadSnapInv == ASSUME SnapInv, ReadAndHash PROVE SnapInv'
<1> DEFINE f == statted.file
           h == dir[f].content
<1>1. /\ sphase = "hash" /\ statted # Gone /\ ~Known(f) /\ Stepping /\ statted' = Gone
      /\ UNCHANGED <<saved, listed, reference, changed, rest, again, result>>
  BY DEF ReadAndHash, snapEnv, snapCall, Stepping
<1>2. \/ sphase' = "raised" /\ UNCHANGED <<entries, row>>
      \/ /\ f \in Existing /\ entries' = Put(entries, f, EntryOf(h)) /\ sphase' = sphase
         /\ row' = Put(row, f, [hash |-> h, mtime |-> statted.mtime])
  BY DEF ReadAndHash
<1>3. CASE sphase' = "raised" /\ UNCHANGED <<entries, row>>
  BY <1>1, <1>3, RaisedSnapInv
<1>4. CASE sphase' # "raised"
  <2>1. /\ f \in DOMAIN dir /\ entries' = Put(entries, f, EntryOf(h)) /\ sphase' = sphase
        /\ row' = Put(row, f, [hash |-> h, mtime |-> statted.mtime])
    BY <1>2, <1>4 DEF Existing
  <2>2. /\ dir[f] \in Versions /\ dir[f] \in versions[f] /\ h \in held[f] /\ f \in SFiles
        /\ statted.mtime \in STimes
    BY <1>1, <2>1 DEF SnapInv, HistoryInv, Holds, Busy, Existing, SnapTypesInv, SnapshotsTypeOK, IsMap
  <2>3. h \in SContents /\ HashesOne(f, h, versions)
    BY <2>2 DEF Versions, HashesOne
  <2>4. EntryOf(h).hash = h /\ EntryOf(h).size = statted.size /\ EntryOf(h).mtime = statted.mtime
    BY DEF EntryOf
  <2>5. \/ Twins(f, versions, restored)
        \/ \E v \in versions[f] : TimedBy(f, h, statted.mtime, v, dir) /\ Size[v.content] = statted.size
    <3> SUFFICES ASSUME ~Twins(f, versions, restored)
                 PROVE  \E v \in versions[f] : TimedBy(f, h, statted.mtime, v, dir) /\ Size[v.content] = statted.size
      OBVIOUS
    <3>1. PICK v \in versions[f] : StattedAs(f, v)
      BY <1>1 DEF SnapInv, StatInv
    <3>2. v.mtime = statted.mtime /\ Size[v.content] = statted.size
      BY <3>1 DEF StattedAs
    <3>3. v.content = h \/ ~Now(f, v, dir)
      BY DEF Now
    <3> QED
      BY <3>2, <3>3 DEF TimedBy
  <2>6. ReadNow(f, h) /\ PairOK(f, EntryOf(h), dir, versions, restored)
    BY <2>2, <2>3, <2>4, <2>5 DEF ReadNow, PairOK
  <2> DEFINE r == [hash |-> h, mtime |-> statted.mtime]
  <2>7. r.hash = h /\ r.mtime = statted.mtime /\ r \in [hash : SContents, mtime : STimes]
    BY <2>2, <2>3
  <2>8. /\ DOMAIN row' = DOMAIN row \cup {f} /\ row'[f] = r
        /\ \A g \in DOMAIN row : g # f => row'[g] = row[g]
    BY <2>1 DEF Put
  <2>9. RowOK(f, r, dir, versions, restored)
    BY <2>3, <2>5, <2>7 DEF RowOK
  <2> HIDE DEF r, h, f
  <2>10. IsMap(row', SFiles, [hash : SContents, mtime : STimes])
    BY <2>2, <2>7, <2>8 DEF SnapInv, SnapTypesInv, SnapshotsTypeOK, IsMap
  <2>11. \A g \in DOMAIN row' : RowOK(g, row'[g], dir, versions, restored)
    BY <2>8, <2>9 DEF SnapInv, PairsInv
  <2>12. sphase' = "hash"
    BY <1>1, <2>1
  <2> QED
    BY <1>1, <2>1, <2>3, <2>6, <2>10, <2>11, <2>12, EnteredSnapInv DEF f
<1> QED
  BY <1>1, <1>2, <1>3, <1>4

(* The manifest written is the one made; in the second of the manifest it  *)
(* was compared with it takes its place.                                   *)
LEMMA WriteSnapInv == ASSUME SnapInv, WriteManifest PROVE SnapInv'
<1>1. /\ sphase = "write" /\ saved' = Put(saved, second, entries) /\ sphase' = "done" /\ Stepping
      /\ result' = [NoResult EXCEPT !.name = second]
      /\ UNCHANGED <<row, listed, reference, changed, rest, statted, entries, again>>
  BY DEF WriteManifest, snapEnv, snapCall, Stepping
<1>2. UNCHANGED <<dir, versions, restored, sedits, held, second, scalls, call>>
  BY <1>1 DEF Stepping
<1>3. /\ SnapshotsTypeOK /\ second \in 1..SSeconds /\ SSeconds \in Nat
      /\ call.op = "snapshot" /\ reference = ToCompare
      /\ \A f \in SFiles : Stayed(f) => f \in DOMAIN entries \/ Right(f)
      /\ statted = Gone
  BY <1>1, SnapshotsAssumption DEF SnapInv, SnapTypesInv, SnapshotsTypeOK, WriteInv, BaseInv, StatInv
<1>4. /\ DOMAIN saved' = DOMAIN saved \cup {second} /\ saved'[second] = entries
      /\ \A n \in DOMAIN saved : n # second => saved'[n] = saved[n]
  BY <1>1 DEF Put
<1>5. result'.name = second /\ result'.name # 0 /\ result'.name \in 0..SSeconds
  BY <1>1, <1>3 DEF NoResult
<1>6. SnapTypesInv'
  <2>1. DOMAIN saved' \subseteq 1..SSeconds /\ \A n \in DOMAIN saved' : IsManifest(saved'[n])
    BY <1>3, <1>4 DEF SnapshotsTypeOK
  <2> QED
    BY <1>1, <1>2, <1>3, <1>4, <1>5, <2>1 DEF SnapInv, SnapTypesInv, SnapshotsTypeOK
<1>7. HistoryInv'
  BY <1>1, SteppingHistory DEF Busy
<1>8. PairsInv'
  <2>1. \A n \in DOMAIN saved' : PairsOK(saved'[n], dir, versions, restored)
    BY <1>4 DEF SnapInv, PairsInv
  <2> QED
    BY <1>1, <1>2, <2>1 DEF SnapInv, PairsInv
<1>9. EntriesInv' /\ StatInv'
  BY <1>1, <1>2, <1>3 DEF SnapInv, EntriesInv, ReadNow, StatInv
<1>10. BaseInv'
  <2>1. ToCompare' = ToCompare \/ result'.name = call'.base
    BY <1>2, <1>4, <1>5, <1>3 DEF ToCompare, SnapInv, SnapTypesInv
  <2> QED
    BY <1>1, <1>3, <2>1 DEF BaseInv
<1>11. ListInv' /\ CompareInv' /\ HashInv' /\ WriteInv'
  BY <1>1 DEF ListInv, CompareInv, HashInv, WriteInv
<1>12. DoneInv'
  <2>1. \A f : (Stayed(f)' <=> Stayed(f)) /\ (Right(f)' <=> Right(f))
    BY <1>1, SteppingSame
  <2> QED
    BY <1>1, <1>2, <1>3, <1>4, <1>5, <2>1 DEF DoneInv
<1> QED
  BY <1>6, <1>7, <1>8, <1>9, <1>10, <1>11, <1>12 DEF SnapInv

(* The merge lists what the difference lists, and the rest as the manifest *)
(* has it, which is right of every file that did not differ.               *)
LEMMA MergeSnapInv == ASSUME SnapInv, MergeManifests PROVE SnapInv'
<1> DEFINE base == call.base
           m == IF result.name = 0 THEN saved[base] ELSE Merge(saved[base], saved[result.name])
<1>1. /\ sphase = "done" /\ call.op = "snapshot" /\ base # 0
      /\ saved' = Put(saved, second, m) /\ entries' = saved'[second] /\ sphase' = "merged"
      /\ UNCHANGED <<dir, versions, restored, sedits, held, row, second, call, listed, reference,
                     scalls, changed, rest, statted, again, result>>
  BY DEF MergeManifests, snapEnv, snapCall
<1>2. /\ SnapshotsTypeOK /\ base \in DOMAIN saved /\ statted = Gone
      /\ result.name # 0 => /\ result.name \in DOMAIN saved /\ saved[result.name] = entries
                            /\ \A f \in SFiles : Stayed(f) => f \in DOMAIN entries \/ Right(f)
      /\ result.name = 0 => \A f \in SFiles : Stayed(f) => Right(f)
      /\ base # result.name => reference = saved[base]
      /\ \A f \in DOMAIN entries : ReadNow(f, entries[f].hash)
  BY <1>1 DEF SnapInv, SnapTypesInv, DoneInv, BaseInv, ToCompare, EntriesInv, StatInv
<1> DEFINE both == Merge(saved[base], entries)
<1>4. /\ DOMAIN both = DOMAIN saved[base] \cup DOMAIN entries
      /\ \A f \in DOMAIN entries : both[f] = entries[f]
      /\ \A f \in DOMAIN saved[base] : f \notin DOMAIN entries => both[f] = saved[base][f]
  BY DEF Merge
<1> HIDE DEF both
<1>3. m = saved[base] \/ (result.name # 0 /\ m = both)
  BY <1>2 DEF both
<1>5. /\ IsManifest(saved[base]) /\ IsManifest(entries)
      /\ PairsOK(saved[base], dir, versions, restored) /\ PairsOK(entries, dir, versions, restored)
  BY <1>2 DEF SnapshotsTypeOK, SnapInv, PairsInv
<1>6. IsManifest(m)
  <2>1. CASE m = saved[base]
    BY <1>5, <2>1
  <2>2. CASE m = both
    <3> HIDE DEF m
    <3> QED
      BY <1>4, <1>5, <2>2 DEF IsManifest, IsMap
  <2> QED
    BY <1>3, <2>1, <2>2
<1>7. PairsOK(m, dir, versions, restored)
  <2>1. CASE m = saved[base]
    BY <1>5, <2>1
  <2>2. CASE m = both
    <3> HIDE DEF m
    <3> QED
      BY <1>4, <1>5, <2>2 DEF PairsOK
  <2> QED
    BY <1>3, <2>1, <2>2
<1>8. ASSUME base # result.name, NEW f \in SFiles, Stayed(f)
      PROVE  f \in DOMAIN m /\ Current(f, m[f])
  <2>1. reference = saved[base]
    BY <1>2, <1>8
  <2>2. CASE result.name = 0
    <3>1. m = reference /\ Right(f)
      BY <1>2, <1>8, <2>1, <2>2
    <3> HIDE DEF m
    <3> QED
      BY <3>1 DEF Right
  <2>3. CASE result.name # 0
    <3>1. m = both /\ (f \in DOMAIN entries \/ Right(f))
      BY <1>2, <1>8, <2>1, <2>3 DEF both
    <3> HIDE DEF m
    <3>2. CASE f \in DOMAIN entries
      <4>1. m[f] = entries[f] /\ f \in DOMAIN m
        BY <1>4, <3>1, <3>2
      <4>2. Current(f, entries[f])
        BY <1>2, <3>2, TwinsAlike
      <4> QED
        BY <4>1, <4>2
    <3>3. CASE f \notin DOMAIN entries
      <4>1. f \in DOMAIN reference /\ Current(f, reference[f])
        BY <3>1, <3>3 DEF Right
      <4> QED
        BY <1>4, <2>1, <3>1, <3>3, <4>1
    <3> QED
      BY <3>2, <3>3
  <2> QED
    BY <2>2, <2>3
<1> HIDE DEF m
<1>9. /\ DOMAIN saved' = DOMAIN saved \cup {second} /\ saved'[second] = m
      /\ \A n \in DOMAIN saved : n # second => saved'[n] = saved[n]
  BY <1>1 DEF Put
<1>10. entries' = m
  BY <1>1, <1>9
<1>11. SnapTypesInv'
  <2>1. DOMAIN saved' \subseteq 1..SSeconds /\ \A n \in DOMAIN saved' : IsManifest(saved'[n])
    BY <1>2, <1>6, <1>9 DEF SnapshotsTypeOK
  <2> QED
    BY <1>1, <1>2, <1>6, <1>9, <1>10, <2>1 DEF SnapInv, SnapTypesInv, SnapshotsTypeOK
<1>12. HistoryInv'
  BY <1>1 DEF SnapInv, HistoryInv, Busy, Existing
<1>13. PairsInv'
  <2>1. \A n \in DOMAIN saved' : PairsOK(saved'[n], dir, versions, restored)
    BY <1>7, <1>9 DEF SnapInv, PairsInv
  <2> QED
    BY <1>1, <1>7, <1>10, <2>1 DEF SnapInv, PairsInv
<1>14. StatInv' /\ EntriesInv' /\ BaseInv' /\ ListInv' /\ CompareInv' /\ HashInv' /\ WriteInv'
  BY <1>1, <1>2 DEF StatInv, EntriesInv, BaseInv, ListInv, CompareInv, HashInv, WriteInv
<1>15. DoneInv'
  <2>1. \A f : Stayed(f)' <=> Stayed(f)
    BY <1>1 DEF Stayed
  <2>2. \A f, e : Current(f, e)' <=> Current(f, e)
    BY <1>1 DEF Current, Alike, ByHash, Hashed
  <2>3. base # result.name => \A f \in SFiles : Stayed(f) => f \in DOMAIN m /\ Current(f, m[f])
    BY <1>8
  <2>4. base # result.name => \A f \in SFiles : Stayed(f)' => f \in DOMAIN entries' /\ Current(f, entries[f])'
    BY <1>1, <1>10, <2>1, <2>2, <2>3
  <2> QED
    BY <1>1, <2>4 DEF DoneInv
<1> QED
  BY <1>11, <1>12, <1>13, <1>14, <1>15 DEF SnapInv

(* Every step of a call, and of what goes on beside it, keeps the          *)
(* invariant.                                                              *)
LEMMA NextSnapInv == SnapInv /\ [SnapshotsNext]_snapVars => SnapInv'
<1> SUFFICES ASSUME SnapInv, [SnapshotsNext]_snapVars PROVE SnapInv'
  OBVIOUS
<1>1. SnapTypesInv /\ HistoryInv
  BY DEF SnapInv
<1>2. CASE UNCHANGED snapVars
  <2>1. UNCHANGED <<snapEnv, held, row, second, saved, scalls, snapCall, snapWork>>
    BY <1>2 DEF snapVars
  <2>2. SnapTypesInv' /\ HistoryInv'
    BY <1>1, <2>1 DEF SnapTypesInv, SnapshotsTypeOK, HistoryInv, Busy, Existing, snapEnv, snapCall, snapWork
  <2>3. AgedNow /\ HeldLonger
    BY <2>1, AgesNot DEF HeldLonger
  <2> QED
    BY <2>1, <2>2, <2>3, AgingSnapInv
<1>3. CASE NextSecond
  <2>1. /\ second < SSeconds /\ second' = second + 1
        /\ UNCHANGED <<snapEnv, held, row, saved, scalls, snapCall, snapWork>>
    BY <1>3 DEF NextSecond
  <2>2. second' \in 1..SSeconds
    BY <1>1, <2>1, SnapshotsAssumption DEF SnapTypesInv, SnapshotsTypeOK
  <2>3. SnapTypesInv' /\ HistoryInv'
    BY <1>1, <2>1, <2>2 DEF SnapTypesInv, SnapshotsTypeOK, HistoryInv, Busy, Existing, snapEnv, snapCall, snapWork
  <2>4. AgedNow /\ HeldLonger
    BY <2>1, AgesNot DEF HeldLonger
  <2> QED
    BY <2>1, <2>3, <2>4, AgingSnapInv
<1>4. ASSUME NEW f \in SFiles, WriteFile(f) \/ DeleteFile(f) PROVE SnapInv'
  BY <1>1, <1>4, WriteAges, DeleteAges, AgingSnapInv
<1>5. CASE CallApi
  BY <1>5, CallSnapInv
<1>6. CASE SnapshotStep
  BY <1>6, ListSnapInv, CompareDoneSnapInv, PrepareSnapInv, HashDoneSnapInv, WriteSnapInv,
     CacheSnapInv, ReadSnapInv, CompareFileSnapInv, StatSnapInv DEF SnapshotStep
<1>7. CASE MergeManifests
  BY <1>7, MergeSnapInv
<1> QED
  BY <1>2, <1>3, <1>4, <1>5, <1>6, <1>7 DEF SnapshotsNext

(* The inductive invariant of snapshots holds: rows, entries and manifests *)
(* pair times and hashes of versions that were there, and a call has every *)
(* file still to do, in its entries, or right in the manifest.             *)
THEOREM SnapshotsInvariance == SnapshotsSpec => []SnapInv
<1> QED
  BY InitSnapInv, NextSnapInv, PTL DEF SnapshotsSpec

(* Manifests, rows and calls are well formed.                              *)
THEOREM SnapshotsTyped == SnapshotsSpec => []SnapshotsTypeOK
<1>1. SnapInv => SnapshotsTypeOK
  BY DEF SnapInv, SnapTypesInv
<1> QED
  BY <1>1, SnapshotsInvariance, PTL

(* A snapshot, or a manifest merged with the difference to it, lists every *)
(* file that was there all through the call, with a content it had then.   *)
THEOREM SnapshotsAddUp == SnapshotsSpec => []AddUp
<1>1. SnapInv => AddUp
  <2> SUFFICES ASSUME SnapInv, (sphase = "done" /\ Hashed) \/ (sphase = "merged" /\ call.base # result.name),
                      NEW f \in SFiles, Stayed(f)
               PROVE  f \in DOMAIN entries /\ Current(f, entries[f])
    BY DEF AddUp
  <2>1. CASE sphase = "done" /\ Hashed
    <3>1. call.op = "snapshot" /\ call.base = 0
      BY <2>1 DEF Hashed
    <3>2. ~Right(f)
      <4>1. CASE reference = Empty
        BY <4>1, EmptyIs DEF Right
      <4>2. CASE reference # Empty
        <5>1. result.name = 0
          BY <2>1, <3>1, <4>2 DEF SnapInv, BaseInv, ToCompare
        <5> QED
          BY <2>1, <3>1, <4>2, <5>1 DEF SnapInv, BaseInv, ToCompare
      <4> QED
        BY <4>1, <4>2
    <3>3. f \in DOMAIN entries
      BY <2>1, <3>1, <3>2 DEF SnapInv, DoneInv
    <3>4. ReadNow(f, entries[f].hash)
      BY <2>1, <3>3 DEF SnapInv, EntriesInv
    <3> QED
      BY <3>3, <3>4, TwinsAlike
  <2>2. CASE sphase = "merged" /\ call.base # result.name
    BY <2>2 DEF SnapInv, DoneInv
  <2> QED
    BY <2>1, <2>2
<1> QED
  BY <1>1, SnapshotsInvariance, PTL

(* What a difference reports was so during the call, and what it does not  *)
(* mention is as the manifest says.                                        *)
THEOREM DifferencesTell == SnapshotsSpec => []DiffTells
<1>1. SnapInv => DiffTells
  <2> SUFFICES ASSUME SnapInv, sphase = "done", call.op = "diff" PROVE DiffTells
    BY DEF DiffTells
  <2>1. Tells(result.diff)
    BY DEF SnapInv, DoneInv
  <2> DEFINE d == result.diff
  <2>2. \A f \in d.new : f \notin DOMAIN reference /\ held[f] # {Gone}
    BY <2>1 DEF Tells, WasThere
  <2>3. \A f \in d.modified :
          /\ f \in DOMAIN reference
          /\ \E v \in versions[f] :
               /\ v.content \in held[f] \/ Alike(f)
               /\ IF call.force THEN v.content # reference[f].hash ELSE Differs(v, reference[f])
    BY <2>1 DEF Tells, WasModified
  <2>4. \A f \in d.deleted : f \in DOMAIN reference /\ (f \notin call.pattern \/ Gone \in held[f])
    BY <2>1 DEF Tells
  <2>5. ASSUME NEW f \in call.pattern \ UNION {d.new, d.modified, d.deleted}
        PROVE  IF f \in DOMAIN reference THEN Current(f, reference[f]) ELSE Gone \in held[f]
    <3>1. f \notin d.new /\ f \notin d.modified /\ f \notin d.deleted
      BY <2>5
    <3>2. Right(f) \/ (f \notin DOMAIN reference /\ Gone \in held[f])
      BY <2>1, <3>1 DEF Tells
    <3> QED
      BY <3>2 DEF Right
  <2> QED
    BY <2>2, <2>3, <2>4, <2>5 DEF DiffTells
<1> QED
  BY <1>1, SnapshotsInvariance, PTL

-----------------------------------------------------------------------------
(* Workstation *)

(* A workstation begins as every one of its commands does.                 *)
LEMMA PartsBegin ==
  WorkstationInit => Init /\ GroupsInit /\ TrackerInit /\ SnapshotsInit /\ MappingInit /\ StateInit
<1> SUFFICES ASSUME WorkstationInit
             PROVE  Init /\ GroupsInit /\ TrackerInit /\ SnapshotsInit /\ MappingInit /\ StateInit
  OBVIOUS
<1>1. Init
  BY DEF WorkstationInit, HashRests
<1>2. GroupsInit
  BY DEF WorkstationInit, GroupsRest
<1>3. TrackerInit
  BY DEF WorkstationInit, TrackerRests
<1>4. SnapshotsInit
  BY DEF WorkstationInit, SnapshotsRest
<1>5. MappingInit /\ StateInit
  BY DEF WorkstationInit
<1> QED
  BY <1>1, <1>2, <1>3, <1>4, <1>5

(* A step of a command is a step of its module and leaves the others alone. *)
LEMMA PartsGoOn ==
  [WorkstationNext]_workstationVars =>
    /\ [Next]_vars /\ [GroupsNext]_groupVars /\ [TrackerNext]_trackerVars
    /\ [SnapshotsNext]_snapVars /\ [MappingNext]_mappingVars /\ [StateNext]_stateVars
<1>1. UNCHANGED workstationVars =>
        UNCHANGED <<vars, groupVars, trackerVars, snapVars, mappingVars, stateVars>>
  BY DEF workstationVars
<1>2. Hashing => Next /\ UNCHANGED <<groupVars, trackerVars, snapVars, mappingVars, stateVars>>
  BY DEF Hashing
<1>3. Grouping => GroupsNext /\ UNCHANGED <<vars, trackerVars, snapVars, mappingVars, stateVars>>
  BY DEF Grouping
<1>4. Tracking => TrackerNext /\ UNCHANGED <<vars, groupVars, snapVars, mappingVars, stateVars>>
  BY DEF Tracking
<1>5. Snapshotting => SnapshotsNext /\ UNCHANGED <<vars, groupVars, trackerVars, mappingVars, stateVars>>
  BY DEF Snapshotting
<1>6. Mapping => MappingNext /\ UNCHANGED <<vars, groupVars, trackerVars, snapVars, stateVars>>
  BY DEF Mapping
<1>7. Keeping => StateNext /\ UNCHANGED <<vars, groupVars, trackerVars, snapVars, mappingVars>>
  BY DEF Keeping
<1> QED
  BY <1>1, <1>2, <1>3, <1>4, <1>5, <1>6, <1>7 DEF WorkstationNext

(* The workstation implements each of its commands.                        *)
THEOREM CommandsRun ==
  WorkstationSpec =>
    Spec /\ GroupsSpec /\ TrackerSpec /\ SnapshotsSpec /\ MappingSpec /\ StateSpec
<1> QED
  BY PartsBegin, PartsGoOn, PTL
     DEF WorkstationSpec, Spec, GroupsSpec, TrackerSpec, SnapshotsSpec, MappingSpec, StateSpec

(* The states of the loops, the rows of the caches, the manifests and the  *)
(* trie are well formed, whichever command runs.                           *)
THEOREM WorkstationTyped == WorkstationSpec => []WorkstationTypeOK
<1>1. WorkstationInit => command \in Commands
  BY DEF WorkstationInit
<1>2. command \in Commands /\ [WorkstationNext]_workstationVars => (command \in Commands)'
  BY DEF WorkstationNext, workstationVars, Hashing, Grouping, Tracking, Snapshotting, Mapping, Keeping
<1>3. WorkstationSpec => [](command \in Commands)
  BY <1>1, <1>2, PTL DEF WorkstationSpec
<1> QED
  BY <1>3, CommandsRun, HashTyped, GroupsTyped, TrackerTyped, SnapshotsTyped, MappingTyped, StateTyped, PTL
     DEF WorkstationTypeOK

(* What every command promises holds of the workstation.                   *)
THEOREM WorkstationKeeps ==
  WorkstationSpec =>
    /\ []HitIsCurrent /\ Implements
    /\ []GroupedRight /\ []RootsApart
    /\ []NoIsFinal /\ []AllReported
    /\ []AddUp /\ []DiffTells
    /\ []LongestRuleWins /\ []StateSurvives
<1> QED
  BY CommandsRun, HitsAreCurrent, ImplementsContract, Grouped, RootsNeverMeet, NoStaysNo, EverythingReported,
     SnapshotsAddUp, DifferencesTell, LongestWins, StateFileSurvives, PTL
=============================================================================
