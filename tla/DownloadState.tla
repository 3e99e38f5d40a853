---------------------------- MODULE DownloadState ----------------------------
(***************************************************************************)
(* incremental_download_state.py: the progress of a queue's incremental    *)
(* downloads between two runs of the command.  A run loads the state file, *)
(* or starts afresh without one, downloads, and saves: the new text goes   *)
(* to a temporary file, which then replaces the state file.  A run may be  *)
(* killed at any moment, and runs may overlap.                             *)
(* The driver of a run is not in the repository.  A file's text is a       *)
(* dictionary, of which only a part may have been written; a time stamp    *)
(* and its text are not told apart, nor are a job and its fields.          *)
(***************************************************************************)
EXTENDS Naturals, FiniteSets

CONSTANTS
  Runs, DJobs, Stamps, Indexes,
  Margins, DefaultMargin,  \* eventual_consistency_max_seconds
  Absent                   \* None, no file, or a key that is not there

ASSUME StateAssumption ==
  /\ Margins \subseteq Nat /\ DefaultMargin \in Margins \ {0}
  /\ Absent \notin Stamps \cup Indexes \cup Runs

VARIABLES
  step,      \* where every run is
  memory,    \* the IncrementalDownloadState of every run
  temp,      \* the temporary file that every run writes, and
  statefile, \* the state file: how much of which dictionary, or Absent
  last       \* history: the state that was saved last, or Absent

stateVars == <<step, memory, temp, statefile, last>>

(* IncrementalDownloadJob and IncrementalDownloadState *)
JobStates == [ended : Stamps \cup {Absent}, indexes : SUBSET Indexes]
States == [started : Stamps, completed : Stamps, margin : Margins \ {0},
           jobs : UNION {[S -> JobStates] : S \in SUBSET DJobs}]

-----------------------------------------------------------------------------
(* to_dict leaves out what a job does not have, and from_dict puts the     *)
(* defaults back; a margin of zero is taken for none.                      *)
JobKeys(j) == {k \in {"sessionEndedTimestamp", "sessionCompletedIndexes"} :
                 IF k = "sessionEndedTimestamp" THEN j.ended # Absent ELSE j.indexes # {}}
JobDict(j) == [k \in JobKeys(j) |-> IF k = "sessionEndedTimestamp" THEN j.ended ELSE j.indexes]
ToDict(s) == [s EXCEPT !.jobs = [j \in DOMAIN s.jobs |-> JobDict(s.jobs[j])]]

OrElse(d, k, default) == IF k \in DOMAIN d THEN d[k] ELSE default
JobOf(d) == [ended |-> OrElse(d, "sessionEndedTimestamp", Absent),
             indexes |-> OrElse(d, "sessionCompletedIndexes", {})]
MarginOf(m) == IF m = 0 THEN DefaultMargin ELSE m
FromDict(d) == [started |-> d.started, completed |-> d.completed, margin |-> MarginOf(d.margin),
                jobs |-> [j \in DOMAIN d.jobs |-> JobOf(d.jobs[j])]]

Fresh(stamp, m) == [started |-> stamp, completed |-> stamp, margin |-> MarginOf(m),
                    jobs |-> [j \in {} |-> Absent]]

Texts == [dict : {ToDict(s) : s \in States}, whole : BOOLEAN]

ASSUME AbsentAssumption == Absent \notin States \cup Texts

StateTypeOK ==
  /\ step \in [Runs -> {"idle", "ready", "writing", "written", "failed"}]
  /\ \A w \in Runs : memory[w] \in States \cup {Absent}
  /\ \A f \in Runs : temp[f] \in Texts \cup {Absent}
  /\ statefile \in Texts \cup {Absent}
  /\ last \in States \cup {Absent}

StateInit ==
  /\ step = [w \in Runs |-> "idle"]
  /\ memory = [w \in Runs |-> Absent]
  /\ temp = [f \in Runs |-> Absent]
  /\ statefile = Absent /\ last = Absent

-----------------------------------------------------------------------------
Starts(w) == step[w] \in {"idle", "failed"}

(* IncrementalDownloadState(...), to bootstrap *)
Bootstrap(w) ==
  /\ Starts(w) /\ statefile = Absent
  /\ \E stamp \in Stamps, m \in Margins : memory' = [memory EXCEPT ![w] = Fresh(stamp, m)]
  /\ step' = [step EXCEPT ![w] = "ready"]
  /\ UNCHANGED <<temp, statefile, last>>

(* from_file, which raises when the text is not a whole one *)
FromFile(w) ==
  /\ Starts(w) /\ statefile # Absent
  /\ IF statefile.whole
     THEN /\ memory' = [memory EXCEPT ![w] = FromDict(statefile.dict)]
          /\ step' = [step EXCEPT ![w] = "ready"]
     ELSE step' = [step EXCEPT ![w] = "failed"] /\ UNCHANGED memory
  /\ UNCHANGED <<temp, statefile, last>>

(* Outputs are downloaded: jobs come, get further, and go.                 *)
Advance(w) ==
  /\ step[w] = "ready"
  /\ \E s \in States :
       /\ s.started = memory[w].started /\ s.margin = memory[w].margin
       /\ s.completed >= memory[w].completed
       /\ memory' = [memory EXCEPT ![w] = s]
  /\ UNCHANGED <<step, temp, statefile, last>>

(* save_file: the temporary file has a name of its own.                    *)
TempOfAll(w) == CHOOSE f \in Runs : TRUE
TempOf(w) == w

BeginSave(w) ==
  /\ step[w] = "ready"
  /\ temp' = [temp EXCEPT ![TempOf(w)] = [dict |-> ToDict(memory[w]), whole |-> FALSE]]
  /\ step' = [step EXCEPT ![w] = "writing"]
  /\ UNCHANGED <<memory, statefile, last>>

EndDump(w) ==
  /\ step[w] = "writing"
  /\ temp' = [temp EXCEPT ![TempOf(w)] = [dict |-> @.dict, whole |-> TRUE]]
  /\ step' = [step EXCEPT ![w] = "written"]
  /\ UNCHANGED <<memory, statefile, last>>

Replace(w) ==
  /\ step[w] = "written"
  /\ statefile' = temp[TempOf(w)] /\ temp' = [temp EXCEPT ![TempOf(w)] = Absent]
  /\ last' = memory[w]
  /\ memory' = [memory EXCEPT ![w] = Absent]
  /\ step' = [step EXCEPT ![w] = "idle"]

(* The process is killed, or an exception ends the run (the disk is full): *)
(* what it has written so far stays where it is.                           *)
Kill(w) ==
  /\ step[w] \in {"ready", "writing", "written"}
  /\ step' = [step EXCEPT ![w] = "idle"] /\ memory' = [memory EXCEPT ![w] = Absent]
  /\ UNCHANGED <<temp, statefile, last>>

StateNext ==
  \E w \in Runs :
    \/ Bootstrap(w) \/ FromFile(w) \/ Advance(w)
    \/ BeginSave(w) \/ EndDump(w) \/ Replace(w) \/ Kill(w)

StateSpec == StateInit /\ [][StateNext]_stateVars

-----------------------------------------------------------------------------
(* However runs overlap and wherever they are killed, no run is stopped by *)
(* a state file it cannot read: the file is what the last complete save    *)
(* had in memory, jobs without outputs and without sessions included, and  *)
(* is read as that.                                                        *)
StateSurvives ==
  /\ \A w \in Runs : step[w] # "failed"
  /\ statefile = Absent <=> last = Absent
  /\ statefile # Absent => statefile.whole /\ FromDict(statefile.dict) = last
=============================================================================
