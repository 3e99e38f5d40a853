---------------------------- MODULE HashContract ----------------------------
(***************************************************************************)
(* What hashing the input files of a submission promises, whatever caches  *)
(* are used: the hash reported for a file is the hash of a content the     *)
(* file had at some time while it was being processed.  When the file is   *)
(* written during that time, the bytes read may also be a mixture.  Caches *)
(* go by modification times: of a file that is given a time it had before, *)
(* an earlier content may be reported.                                     *)
(***************************************************************************)
EXTENDS FiniteSets

CONSTANTS Files, Tasks, FileOf, Contents, Mixed, NoAnswer, Raised

VARIABLES
  content,  \* the content of every file
  reused,   \* the files written under a time they had before
  held,     \* the contents that may be reported for the file of a task
  answer    \* what the task reported

contractVars == <<content, reused, held, answer>>

Init ==
  /\ content \in [Files -> Contents]
  /\ reused = {}
  /\ held = [t \in Tasks |-> {}]
  /\ answer = [t \in Tasks |-> NoAnswer]

Write(f, c) ==
  /\ content' = [content EXCEPT ![f] = c]
  /\ reused' \in {reused, reused \cup {f}}
  /\ held' = [t \in Tasks |-> IF FileOf[t] = f /\ held[t] # {}
                              THEN held[t] \cup {c} ELSE held[t]]
  /\ UNCHANGED answer

Begin(t) ==
  /\ held[t] = {} /\ answer[t] = NoAnswer
  /\ \E S \in SUBSET Contents :
       /\ content[FileOf[t]] \in S
       /\ FileOf[t] \notin reused => S = {content[FileOf[t]]}
       /\ held' = [held EXCEPT ![t] = S]
  /\ UNCHANGED <<content, reused, answer>>

(* h may be reported for a file that has had the contents S *)
Reportable(h, S) == h \in S \/ (h = Mixed /\ \E c, d \in S : c # d)

Report(t) ==
  /\ held[t] # {}
  /\ \E h \in Contents \cup {Mixed} :
       /\ Reportable(h, held[t])
       /\ answer' = [answer EXCEPT ![t] = h]
  /\ held' = [held EXCEPT ![t] = {}]
  /\ UNCHANGED <<content, reused>>

Raise(t) ==
  /\ held[t] = {} /\ answer[t] = NoAnswer
  /\ answer' = [answer EXCEPT ![t] = Raised]
  /\ UNCHANGED <<content, reused, held>>

Next ==
  \/ \E f \in Files, c \in Contents : Write(f, c)
  \/ \E t \in Tasks : Begin(t) \/ Report(t) \/ Raise(t)

Spec == Init /\ [][Next]_contractVars
=============================================================================
