--------------------------- MODULE VfsMounts_proofs ---------------------------
(***************************************************************************)
(* Theorems about VfsMounts, for any mount points, syncs and faults: the   *)
(* types, that no mount is entered twice, and that, as long as nothing     *)
(* misbehaves and no three lines meet, the pid file is the list of what is *)
(* mounted, a sync serves all inputs, and the cleanup unmounts everything. *)
(***************************************************************************)
EXTENDS VfsMounts, Loops, FiniteSetTheorems, TLAPS

-----------------------------------------------------------------------------
FileLine == Seq(Entry)
FileLines == Seq(FileLine)

(* The lines read from the pid file are lines.                             *)
LEMMA LinesType == ASSUME TypeOK PROVE Lines \in FileLines
<1>1. <<>> \in FileLines
  BY DEF FileLines, FileLine
<1> QED
  BY <1>1 DEF TypeOK, Lines, FileLines, FileLine

(* What is written is what is read.                                        *)
LEMMA LinesWritten == ASSUME pidFile' \in FileLines PROVE Lines' = pidFile'
  BY VfsAssumption DEF Lines, FileLines, FileLine, Entry, Manifest

(* The lines that are written one after the other make a line.             *)
LEMMA FlattenType == ASSUME NEW ls \in FileLines PROVE Len(ls) # 0 => FlattenSeq(ls) \in FileLine
<1> SUFFICES ASSUME Len(ls) # 0 PROVE FlattenSeq(ls) \in FileLine
  OBVIOUS
<1> DEFINE N == Len(ls)
           S == FileLine
           c == <<>>
           Turn(i, x) == IF i = 1 THEN ls[i] ELSE x \o ls[i]
           G == [i \in 1..N |-> [x \in S |-> Turn(i, x)]]
           D(f) == [i \in 1..N |-> IF i = 1 THEN ls[i] ELSE f[i - 1] \o ls[i]]
           d == CHOOSE f : f = D(f)
<1>1. N \in Nat /\ c \in S
  BY DEF FileLines, FileLine
<1>0. N # 0
  OBVIOUS
<1>2. \A i \in 1..N, x \in S : Turn(i, x) \in S
  BY DEF FileLines, FileLine
<1>3. FlattenSeq(ls) = d[N]
  BY <1>0, <1>1 DEF FlattenSeq
<1>4. \A i \in 1..N : ls[i] \in S
  BY DEF FileLines
<1> HIDE DEF N, S, c
<1>5. PICK f \in [0..N -> S] : f[0] = c /\ \A i \in 1..N : f[i] = G[i][f[i - 1]]
  <2> HIDE DEF Turn
  <2>1. G \in [1..N -> [S -> S]]
    BY <1>2
  <2> HIDE DEF G
  <2> QED
    BY <1>1, <2>1, LoopExists
<1>6. \A i \in 1..N : f[i] = Turn(i, f[i - 1])
  <2> SUFFICES ASSUME NEW i \in 1..N PROVE f[i] = Turn(i, f[i - 1])
    OBVIOUS
  <2> HIDE DEF Turn
  <2>1. f[i - 1] \in S
    BY <1>1
  <2> QED
    BY <1>5, <2>1
<1> DEFINE g == [i \in 1..N |-> f[i]]
<1>7. g = D(g)
  BY <1>1, <1>6
<1>8. d = D(d)
  <2> HIDE DEF D, g
  <2> QED
    BY <1>7
<1> HIDE DEF d
<1>9. \A i \in 1..N : d[i] = Turn(i, d[i - 1])
  BY <1>8
<1> DEFINE T == {i \in 0..N : i # 0 => d[i] \in S}
<1>10. 0 \in T
  BY <1>1
<1>11. ASSUME NEW i \in 0..(N - 1), i \in T PROVE i + 1 \in T
  <2>1. d[i + 1] = Turn(i + 1, d[i])
    BY <1>1, <1>9
  <2>2. d[i + 1] \in S
    <3>1. CASE i = 0
      BY <1>1, <1>4, <2>1, <3>1
    <3>2. CASE i # 0
      BY <1>1, <1>2, <1>11, <2>1, <3>2
    <3> QED
      BY <3>1, <3>2
  <2> QED
    BY <1>1, <2>2
<1>12. N \in T
  <2> HIDE DEF T
  <2>1. \A i \in 0..N : i \in T
    BY <1>1, <1>10, <1>11, Induct
  <2> QED
    BY <1>1, <2>1
<1> QED
  BY <1>0, <1>1, <1>3, <1>12 DEF S

(* Lines written without line ends make one line.                          *)
LEMMA JoinedType == ASSUME NEW ls \in FileLines PROVE Joined(ls) \in FileLines /\ Len(Joined(ls)) <= 1
<1>1. CASE ls = <<>>
  BY <1>1 DEF Joined, FileLines
<1>2. CASE ls # <<>>
  <2>1. Len(ls) # 0
    BY <1>2 DEF FileLines
  <2>2. FlattenSeq(ls) \in FileLine
    BY <2>1, FlattenType
  <2> HIDE DEF FileLine
  <2> QED
    BY <1>2, <2>2 DEF Joined, FileLines
<1> QED
  BY <1>1, <1>2

(* The lines that are kept when mount's entry is renewed are the others,   *)
(* each once: there is a one-to-one map between the two.                   *)
LEMMA OthersLoop ==
  ASSUME NEW ls \in FileLines
  PROVE  \E d :
           /\ d[0] = <<>>
           /\ \A i \in 1..Len(ls) : d[i] = IF IsLineOf(ls[i], mount) THEN d[i - 1] ELSE Append(d[i - 1], ls[i])
           /\ Others(ls) = d[Len(ls)]
<1> DEFINE N == Len(ls)
           S == FileLines
           c == <<>>
           Turn(i, x) == IF IsLineOf(ls[i], mount) THEN x ELSE Append(x, ls[i])
           G == [i \in 1..N |-> [x \in S |-> Turn(i, x)]]
           D(f) == [n \in 0..N |-> IF n = 0 THEN c ELSE Turn(n, f[n - 1])]
           d == CHOOSE f : f = D(f)
<1>1. N \in Nat /\ c \in S
  BY DEF FileLines
<1>2. \A i \in 1..N, x \in S : Turn(i, x) \in S
  <2> HIDE DEF FileLine
  <2> QED
    BY DEF FileLines
<1>3. Others(ls) = d[N]
  BY DEF Others
<1> HIDE DEF N, S, c, Turn
<1>4. PICK f \in [0..N -> S] : f[0] = c /\ \A i \in 1..N : f[i] = G[i][f[i - 1]]
  <2>1. G \in [1..N -> [S -> S]]
    BY <1>2
  <2> HIDE DEF G
  <2> QED
    BY <1>1, <2>1, LoopExists
<1>5. \A i \in 1..N : f[i] = Turn(i, f[i - 1])
  <2> SUFFICES ASSUME NEW i \in 1..N PROVE f[i] = Turn(i, f[i - 1])
    OBVIOUS
  <2>1. f[i - 1] \in S
    BY <1>1
  <2> QED
    BY <1>4, <2>1
<1>6. f = D(f)
  BY <1>1, <1>4, <1>5
<1>7. d = D(d)
  <2> HIDE DEF D
  <2> QED
    BY <1>6
<1> HIDE DEF d
<1>8. d[0] = c /\ \A i \in 1..N : d[i] = Turn(i, d[i - 1])
  BY <1>1, <1>7
<1> QED
  BY <1>3, <1>8 DEF N, Turn, c

(* The lines of other mounts are kept, each once and in order.             *)
LEMMA OthersKept ==
  ASSUME NEW ls \in FileLines
  PROVE  /\ Others(ls) \in FileLines
         /\ \E h \in [1..Len(Others(ls)) -> DOMAIN ls] :
              /\ \A k \in 1..Len(Others(ls)) : Others(ls)[k] = ls[h[k]] /\ ~IsLineOf(ls[h[k]], mount)
              /\ \A k, j \in 1..Len(Others(ls)) : h[k] = h[j] => k = j
              /\ \A i \in DOMAIN ls : ~IsLineOf(ls[i], mount) => \E k \in 1..Len(Others(ls)) : h[k] = i
<1>1. PICK d : /\ d[0] = <<>>
               /\ \A i \in 1..Len(ls) : d[i] = IF IsLineOf(ls[i], mount) THEN d[i - 1] ELSE Append(d[i - 1], ls[i])
               /\ Others(ls) = d[Len(ls)]
  BY OthersLoop
<1> DEFINE N == Len(ls)
           Keeps(x, h, n) ==
             /\ x \in FileLines
             /\ h \in [1..Len(x) -> 1..n]
             /\ \A k \in 1..Len(x) : x[k] = ls[h[k]] /\ ~IsLineOf(ls[h[k]], mount)
             /\ \A k, j \in 1..Len(x) : h[k] = h[j] => k = j
             /\ \A i \in 1..n : ~IsLineOf(ls[i], mount) => \E k \in 1..Len(x) : h[k] = i
           T == {n \in 0..N : \E h : Keeps(d[n], h, n)}
<1> HIDE DEF FileLine
<1>2. N \in Nat /\ DOMAIN ls = 1..N /\ \A i \in 1..N : ls[i] \in FileLine
  BY DEF FileLines
<1>3. 0 \in T
  <2> DEFINE h == [k \in 1..0 |-> 0]
  <2>1. Keeps(d[0], h, 0)
    BY <1>1 DEF FileLines
  <2> HIDE DEF Keeps, h
  <2> QED
    BY <1>2, <2>1
<1>4. ASSUME NEW n \in 0..(N - 1), n \in T PROVE n + 1 \in T
  <2>1. PICK h : Keeps(d[n], h, n)
    BY <1>4
  <2>2. n + 1 \in 1..N /\ n + 1 - 1 = n
    BY <1>2
  <2>3. d[n + 1] = IF IsLineOf(ls[n + 1], mount) THEN d[n] ELSE Append(d[n], ls[n + 1])
    BY <1>1, <2>2
  <2> DEFINE x == d[n]
             y == Append(x, ls[n + 1])
             g == [k \in 1..Len(y) |-> IF k = Len(y) THEN n + 1 ELSE h[k]]
  <2>4. CASE IsLineOf(ls[n + 1], mount)
    <3> HIDE DEF x
    <3>1. Keeps(x, h, n) => Keeps(x, h, n + 1)
      BY <1>2, <2>4
    <3>2. Keeps(d[n + 1], h, n + 1)
      <4> HIDE DEF Keeps
      <4> QED
        BY <2>1, <2>3, <2>4, <3>1 DEF x
    <3> HIDE DEF Keeps
    <3> QED
      BY <1>2, <2>2, <3>2
  <2>5. CASE ~IsLineOf(ls[n + 1], mount)
    <3>1. Keeps(x, h, n)
      BY <2>1
    <3> HIDE DEF x
    <3>2. y \in FileLines /\ Len(y) = Len(x) + 1 /\ Len(x) \in Nat /\ y[Len(y)] = ls[n + 1]
      BY <1>2, <2>2, <3>1 DEF FileLines
    <3>3. \A k \in 1..Len(x) : y[k] = x[k] /\ k # Len(y) /\ k \in 1..Len(y)
      BY <1>2, <2>2, <3>1 DEF FileLines
    <3>4. \A k \in 1..Len(y) : k # Len(y) => k \in 1..Len(x)
      BY <3>2
    <3> HIDE DEF y
    <3>5. Keeps(y, g, n + 1)
      <4>1. g \in [1..Len(y) -> 1..(n + 1)]
        BY <1>2, <3>1, <3>2, <3>4
      <4>2. ASSUME NEW k \in 1..Len(y) PROVE y[k] = ls[g[k]] /\ ~IsLineOf(ls[g[k]], mount)
        BY <2>5, <3>1, <3>2, <3>3, <3>4
      <4>3. ASSUME NEW k \in 1..Len(y), NEW j \in 1..Len(y), g[k] = g[j] PROVE k = j
        <5>1. k = Len(y) <=> g[k] = n + 1
          BY <1>2, <3>1, <3>4
        <5>2. j = Len(y) <=> g[j] = n + 1
          BY <1>2, <3>1, <3>4
        <5>3. CASE k # Len(y)
          BY <3>1, <3>4, <4>3, <5>1, <5>2, <5>3
        <5> QED
          BY <4>3, <5>1, <5>2, <5>3
      <4>4. ASSUME NEW i \in 1..(n + 1), ~IsLineOf(ls[i], mount) PROVE \E k \in 1..Len(y) : g[k] = i
        <5>1. CASE i = n + 1
          BY <3>2, <5>1
        <5>2. CASE i # n + 1
          <6>1. i \in 1..n
            BY <1>2, <5>2
          <6>2. PICK k \in 1..Len(x) : h[k] = i
            BY <3>1, <4>4, <6>1
          <6> QED
            BY <3>3, <6>2
        <5> QED
          BY <5>1, <5>2
      <4> QED
        BY <3>2, <4>1, <4>2, <4>3, <4>4
    <3>6. d[n + 1] = y
      BY <2>3, <2>5 DEF x, y
    <3> HIDE DEF Keeps, g
    <3> QED
      BY <1>2, <2>2, <3>5, <3>6
  <2> QED
    BY <2>4, <2>5
<1>5. N \in T
  <2> HIDE DEF T
  <2>1. \A n \in 0..N : n \in T
    BY <1>2, <1>3, <1>4, Induct
  <2> QED
    BY <1>2, <2>1
<1> QED
  BY <1>1, <1>2, <1>5

(* Of two lines, the one that is not cut out is what the kill writes back. *)
Kept(r, ls, i) ==
  /\ Len(r) <= 1 /\ r \in FileLines
  /\ \A j \in DOMAIN r : \E k \in DOMAIN ls : k # i /\ r[j] = ls[k]
  /\ \A k \in DOMAIN ls : k # i => \E j \in DOMAIN r : r[j] = ls[k]

(* Of a file with at most two lines the kill writes back exactly the       *)
(* line it keeps: there is no other that could be joined to it.            *)
LEMMA RewrittenPair ==
  ASSUME NEW ls \in FileLines, Len(ls) <= 2, NEW i \in DOMAIN ls
  PROVE  Kept(Joined(SubSeq(ls, 1, i - 1) \o SubSeq(ls, i + 1, Len(ls))), ls, i)
<1> HIDE DEF FileLine
<1> DEFINE o == SubSeq(ls, 1, i - 1) \o SubSeq(ls, i + 1, Len(ls))
           r == Joined(o)
<1>1. o \in FileLines /\ DOMAIN ls = 1..Len(ls) /\ Len(ls) \in Nat
  BY DEF FileLines
<1>2. CASE Len(ls) = 1
  <2>1. i = 1 /\ o = <<>>
    BY <1>1, <1>2 DEF FileLines
  <2> HIDE DEF o
  <2>2. r = <<>>
    BY <2>1 DEF Joined
  <2> HIDE DEF r
  <2>3. Len(r) = 0 /\ r \in FileLines
    BY <2>2 DEF FileLines
  <2>4. DOMAIN r = 1..0
    BY <2>3 DEF FileLines
  <2>5. Kept(r, ls, i)
    BY <1>1, <1>2, <2>1, <2>3, <2>4 DEF Kept
  <2> QED
    BY <2>5 DEF r, o
<1>3. CASE Len(ls) = 2
  <2> DEFINE k == 3 - i
  <2>1. k \in DOMAIN ls /\ k # i /\ \A j \in DOMAIN ls : j # i => j = k
    BY <1>1, <1>3
  <2>2. ls[k] \in FileLine /\ o = <<ls[k]>>
    <3>1. ls[k] \in FileLine /\ i \in {1, 2}
      BY <1>1, <1>3, <2>1 DEF FileLines
    <3>2. Len(o) = 1 /\ o[1] = ls[k]
      <4>1. CASE i = 1
        BY <1>3, <4>1 DEF FileLines
      <4>2. CASE i = 2
        BY <1>3, <4>2 DEF FileLines
      <4> QED
        BY <3>1, <4>1, <4>2
    <3> HIDE DEF o, k
    <3> QED
      BY <1>1, <3>1, <3>2 DEF FileLines
  <2>3. FlattenSeq(<<ls[k]>>) = ls[k]
    BY DEF FlattenSeq
  <2> HIDE DEF k, o
  <2>4. r = <<ls[k]>>
    <3>1. r = Joined(<<ls[k]>>)
      BY <2>2
    <3> QED
      BY <2>3, <3>1 DEF Joined
  <2> HIDE DEF r
  <2>5. Len(r) = 1 /\ r[1] = ls[k] /\ r \in FileLines
    BY <2>2, <2>4 DEF FileLines
  <2>6. DOMAIN r = 1..1
    BY <2>5 DEF FileLines
  <2>7. Kept(r, ls, i)
    BY <2>1, <2>5, <2>6 DEF Kept
  <2> QED
    BY <2>7 DEF r, o
<1> QED
  BY <1>1, <1>2, <1>3

-----------------------------------------------------------------------------
(* A sync is numbered before anything is mounted for it.                   *)
Syncing == {"next", "kill", "start", "record"}
TypeInv == TypeOK /\ (phase \in Syncing => sync # 0)

(* Every sync mounts what was there before and what is new.                *)
LEMMA ManifestType ==
  ASSUME TypeInv, phase \in Syncing
  PROVE  sync \in 1..MaxSyncs /\ {sync} \in Manifest
         /\ \A known \in Manifest : Merged(known) \in Manifest /\ sync \in Merged(known)
  BY VfsAssumption DEF TypeInv, TypeOK, Merged, Manifest

(* A mount that is shut down is as it was, or without its last process.    *)
LEMMA ShutDownType ==
  ASSUME TypeOK, NEW m \in Mounts, NEW answer, ShutDown(m, answer)
  PROVE  stack' \in [Mounts -> Seq(Manifest)] /\ faults' \in 0..MaxFaults
<1> HIDE DEF Manifest
<1>1. IsMount(m) => Front(stack[m]) \in Seq(Manifest)
  BY DEF TypeOK, IsMount, Front
<1>2. CASE UNCHANGED stack
  BY <1>2, VfsAssumption DEF TypeOK, ShutDown, Misbehaves
<1>3. CASE IsMount(m) /\ stack' = [stack EXCEPT ![m] = Front(@)] /\ UNCHANGED faults
  BY <1>1, <1>3 DEF TypeOK
<1> QED
  BY <1>2, <1>3 DEF ShutDown

(* A line that can be parsed has an entry with a manifest.                 *)
LEMMA FoundType ==
  ASSUME TypeOK, NEW m \in Mounts, NEW i \in DOMAIN Lines, WellFormed(Lines[i])
  PROVE  Lines[i] \in FileLine /\ Lines[i][1] \in Entry /\ Lines[i][1].manifest \in Manifest
<1> HIDE DEF Manifest
<1>1. Lines[i] \in FileLine
  <2> HIDE DEF FileLine
  <2> QED
    BY LinesType DEF FileLines
<1>2. Lines[i][1] \in Entry
  BY <1>1 DEF FileLine, WellFormed
<1> QED
  BY <1>1, <1>2 DEF Entry

(* The types of what each step writes. *)
LEMMA TypeStep == ASSUME TypeInv, [Next]_vars PROVE TypeInv'
<1> USE DEF Ended, Syncing
<1> HIDE DEF Manifest, Entry, FileLine, FileLines
<1>1. /\ TypeOK /\ Lines \in FileLines /\ pidFile \in FileLines \cup {NoFile} /\ rest \in FileLines
  BY LinesType DEF TypeInv, TypeOK, FileLine, FileLines
<1>2. CASE BeginSync
  BY <1>2, VfsAssumption DEF BeginSync, TypeInv, TypeOK
<1>3. CASE KillAtMount
  <2>1. PICK i \in DOMAIN Lines, answer \in {"unmounted", "left"} :
          ShutDown(mount, answer) /\ pidFile' = Rewrite(i)
    BY <1>3 DEF KillAtMount
  <2>2. mount \in Mounts /\ phase = "kill"
    BY <1>3 DEF KillAtMount, TypeInv, TypeOK
  <2>3. stack' \in [Mounts -> Seq(Manifest)] /\ faults' \in 0..MaxFaults
    BY <1>1, <2>1, <2>2, ShutDownType
  <2>4. pidFile' \in FileLines
    <3>1. SubSeq(Lines, 1, i - 1) \o SubSeq(Lines, i + 1, Len(Lines)) \in FileLines
      BY <1>1 DEF FileLines
    <3> QED
      BY <2>1, <3>1, JoinedType DEF Rewrite
  <2> QED
    BY <1>3, <2>2, <2>3, <2>4 DEF KillAtMount, TypeInv, TypeOK, FileLine, FileLines
<1>4. CASE KillRaises
  <2>1. PICK i \in DOMAIN Lines : ShutDown(mount, "raises") /\ pidFile' = Joined(SubSeq(Lines, 1, i - 1))
    BY <1>4 DEF KillRaises
  <2>2. mount \in Mounts /\ phase = "kill"
    BY <1>4 DEF KillRaises, TypeInv, TypeOK
  <2>3. stack' \in [Mounts -> Seq(Manifest)] /\ faults' \in 0..MaxFaults
    BY <1>1, <2>1, <2>2, ShutDownType
  <2>4. pidFile' \in FileLines
    <3>1. SubSeq(Lines, 1, i - 1) \in FileLines
      BY <1>1 DEF FileLines
    <3> QED
      BY <2>1, <3>1, JoinedType
  <2> QED
    BY <1>4, <2>2, <2>3, <2>4 DEF KillRaises, TypeInv, TypeOK, FileLine, FileLines
<1>5. CASE KillNothing
  BY <1>5 DEF KillNothing, TypeInv, TypeOK
<1>6. CASE Start
  <2>1. mount \in Mounts /\ mount \in todo /\ final \in Manifest /\ sync \in final /\ phase = "start"
    BY <1>6 DEF Start, TypeInv, TypeOK
  <2>2. Append(stack[mount], final) \in Seq(Manifest)
    BY <2>1 DEF TypeInv, TypeOK
  <2>3. [mount |-> mount, manifest |-> final] \in Entry
    BY <2>1 DEF Entry
  <2>4. stack' \in [Mounts -> Seq(Manifest)] /\ late' \subseteq Entry /\ faults' \in 0..MaxFaults
    <3>1. CASE stack' = [stack EXCEPT ![mount] = Append(@, final)] /\ UNCHANGED <<late, faults>>
      BY <2>1, <2>2, <3>1 DEF TypeInv, TypeOK
    <3>2. CASE Misbehaves /\ UNCHANGED stack
               /\ (UNCHANGED late \/ late' = late \cup {[mount |-> mount, manifest |-> final]})
      BY <2>3, <3>2, VfsAssumption DEF Misbehaves, TypeInv, TypeOK
    <3> QED
      BY <1>6, <3>1, <3>2 DEF Start
  <2>5. todo' \subseteq roots /\ phase' \in {"record", "ready"} /\ (phase' = "record" => todo' = todo)
    BY <1>6 DEF Start, TypeInv, TypeOK
  <2> QED
    BY <1>6, <2>1, <2>4, <2>5 DEF Start, TypeInv, TypeOK
<1>7. CASE RecordEntry
  <2>1. Line(NewEntry) \in FileLine
    BY <1>7 DEF RecordEntry, Line, NewEntry, TypeInv, TypeOK, Entry, FileLine
  <2>2. pidFile' \in FileLines
    BY <1>1, <1>7, <2>1, OthersKept DEF RecordEntry, FileLines
  <2> QED
    BY <1>7, <2>2 DEF RecordEntry, TypeInv, TypeOK, FileLine, FileLines
<1>8. CASE RecordRaises
  <2>1. Line(NewEntry) \in FileLine
    BY <1>8 DEF RecordRaises, Line, NewEntry, TypeInv, TypeOK, Entry, FileLine
  <2>2. PICK i \in DOMAIN Lines : pidFile' = <<Line(NewEntry)>> \o Others(SubSeq(Lines, 1, i - 1))
    BY <1>8 DEF RecordRaises
  <2>3. SubSeq(Lines, 1, i - 1) \in FileLines
    BY <1>1 DEF FileLines
  <2>4. Others(SubSeq(Lines, 1, i - 1)) \in FileLines
    BY <2>3, OthersKept
  <2>5. pidFile' \in FileLines
    BY <2>1, <2>2, <2>4 DEF FileLines
  <2> QED
    BY <1>8, <2>5 DEF RecordRaises, TypeInv, TypeOK, FileLine, FileLines
<1>9. CASE EndSync
  BY <1>9 DEF EndSync, TypeInv, TypeOK
<1>10. CASE BeginCleanup
  BY <1>1, <1>10 DEF BeginCleanup, TypeInv, TypeOK, FileLine, FileLines
<1>11. CASE CleanupLine
  <2>1. PICK answer \in {"unmounted", "left"} : ShutDown(Head(rest)[1].mount, answer)
    BY <1>11 DEF CleanupLine
  <2>2. Head(rest) \in FileLine /\ Tail(rest) \in FileLines
    BY <1>1, <1>11 DEF CleanupLine, FileLines
  <2>3. Head(rest)[1].mount \in Mounts
    <3>1. Head(rest)[1] \in Entry
      BY <1>11, <2>2 DEF CleanupLine, WellFormed, FileLine
    <3> QED
      BY <3>1 DEF Entry
  <2>4. stack' \in [Mounts -> Seq(Manifest)] /\ faults' \in 0..MaxFaults
    BY <1>1, <2>1, <2>3, ShutDownType
  <2> QED
    BY <1>11, <2>2, <2>4 DEF CleanupLine, TypeInv, TypeOK, FileLine, FileLines
<1>12. CASE CleanupRaises
  <2>1. stack' \in [Mounts -> Seq(Manifest)] /\ faults' \in 0..MaxFaults
    <3>1. CASE UNCHANGED <<stack, faults>>
      BY <3>1 DEF TypeInv, TypeOK
    <3>2. CASE WellFormed(Head(rest)) /\ ShutDown(Head(rest)[1].mount, "raises")
      <4>1. Head(rest) \in FileLine
        BY <1>1, <1>12 DEF CleanupRaises, FileLines
      <4>2. Head(rest)[1] \in Entry
        BY <3>2, <4>1 DEF WellFormed, FileLine
      <4>3. Head(rest)[1].mount \in Mounts
        BY <4>2 DEF Entry
      <4> QED
        BY <1>1, <3>2, <4>3, ShutDownType
    <3> QED
      BY <1>12, <3>1, <3>2 DEF CleanupRaises
  <2> QED
    BY <1>12, <2>1 DEF CleanupRaises, TypeInv, TypeOK
<1>13. CASE CleanupDone
  BY <1>13 DEF CleanupDone, TypeInv, TypeOK
<1>14. ASSUME NEW m \in Mounts, HandleExisting(m) PROVE TypeInv'
  <2>1. phase = "next" /\ phase' \in {"kill", "start"} /\ mount' = m /\ m \in todo
    BY <1>14 DEF HandleExisting
  <2>2. final' \in Manifest /\ sync \in final'
    <3>1. ASSUME NEW i \in DOMAIN Lines, Finds(m, i), final' = Merged(Lines[i][1].manifest)
          PROVE  final' \in Manifest /\ sync \in final'
      <4>1. Lines[i][1].manifest \in Manifest
        BY <1>1, <3>1, FoundType DEF Finds, IsLineOf
      <4> QED
        BY <2>1, <3>1, <4>1, ManifestType
    <3>2. CASE final' = {sync}
      BY <2>1, <3>2, ManifestType
    <3> QED
      BY <1>14, <3>1, <3>2 DEF HandleExisting
  <2> QED
    BY <1>14, <2>1, <2>2 DEF HandleExisting, TypeInv, TypeOK
<1>15. ASSUME NEW m \in Mounts, ParsingRaises(m) PROVE TypeInv'
  BY <1>15 DEF ParsingRaises, TypeInv, TypeOK
<1>16. ASSUME NEW m \in Mounts, VfsDies(m) PROVE TypeInv'
  <2>1. Front(stack[m]) \in Seq(Manifest)
    BY <1>16 DEF VfsDies, IsMount, Front, TypeInv, TypeOK
  <2>2. stack' \in [Mounts -> Seq(Manifest)] /\ faults' \in 0..MaxFaults
    BY <1>16, <2>1, VfsAssumption DEF VfsDies, Misbehaves, TypeInv, TypeOK
  <2> QED
    BY <1>16, <2>2 DEF VfsDies, TypeInv, TypeOK
<1>17. ASSUME NEW e \in late, LateMount(e) PROVE TypeInv'
  <2>1. e \in Entry
    BY DEF TypeInv, TypeOK
  <2>2. stack' \in [Mounts -> Seq(Manifest)]
    BY <1>17, <2>1 DEF LateMount, Entry, TypeInv, TypeOK
  <2> QED
    BY <1>17, <2>2 DEF LateMount, TypeInv, TypeOK
<1>18. CASE UNCHANGED vars
  BY <1>18 DEF vars, TypeInv, TypeOK
<1> QED
  BY <1>2, <1>3, <1>4, <1>5, <1>6, <1>7, <1>8, <1>9, <1>10, <1>11, <1>12, <1>13, <1>14, <1>15, <1>16,
     <1>17, <1>18 DEF Next

(* The types hold in all states.                                           *)
LEMMA TypeInductive == Spec => []TypeInv
<1>1. Init => TypeInv
  <2> HIDE DEF Manifest
  <2> QED
    BY VfsAssumption DEF Init, TypeInv, TypeOK, Syncing, Manifest
<1> QED
  BY <1>1, TypeStep, PTL DEF Spec

(* The types of a session's mounts and of its pid file, whatever misbehaves. *)
THEOREM MountsTyped == Spec => []TypeOK
<1>1. TypeInv => TypeOK
  BY DEF TypeInv
<1> QED
  BY <1>1, TypeInductive, PTL

-----------------------------------------------------------------------------
(* No mount is entered twice.  A file is left unreadable only by joining   *)
(* lines, and then it has at most one; RecordEntry adds to lines it could  *)
(* read, after its own mount's line has been dropped from them.            *)
MountsIn(l) == {l[x].mount : x \in DOMAIN l}
Disjoint(ls) == \A i, j \in DOMAIN ls : i # j => MountsIn(ls[i]) \cap MountsIn(ls[j]) = {}

(* One line enters nothing twice.                                          *)
LEMMA ShortDisjoint == ASSUME NEW ls \in FileLines, Len(ls) <= 1 PROVE Disjoint(ls)
<1> HIDE DEF FileLine
<1>1. \A i, j \in DOMAIN ls : i = j
  BY DEF FileLines
<1> QED
  BY <1>1 DEF Disjoint

(* Nor do fewer lines than those that did not.                             *)
LEMMA CutDisjoint ==
  ASSUME NEW ls \in FileLines, Disjoint(ls), NEW i \in DOMAIN ls
  PROVE  /\ SubSeq(ls, 1, i - 1) \in FileLines
         /\ Len(SubSeq(ls, 1, i - 1)) = i - 1
         /\ \A j \in 1..(i - 1) : SubSeq(ls, 1, i - 1)[j] = ls[j]
         /\ Disjoint(SubSeq(ls, 1, i - 1))
<1> HIDE DEF FileLine
<1> DEFINE c == SubSeq(ls, 1, i - 1)
<1>1. /\ c \in FileLines /\ Len(c) = i - 1 /\ DOMAIN c = 1..(i - 1)
      /\ \A j \in 1..(i - 1) : c[j] = ls[j] /\ j \in DOMAIN ls
  BY DEF FileLines
<1> HIDE DEF c
<1>2. Disjoint(c)
  BY <1>1 DEF Disjoint
<1> QED
  BY <1>1, <1>2 DEF c

(* Nor do they when the entry of a mount is renewed.                       *)
LEMMA RenewedDisjoint ==
  ASSUME TypeOK, mount \in Mounts, NEW ls \in FileLines, Disjoint(ls), \A i \in DOMAIN ls : WellFormed(ls[i])
  PROVE  Disjoint(<<Line(NewEntry)>> \o Others(ls))
<1> HIDE DEF FileLine
<1> DEFINE o == Others(ls)
           n == Line(NewEntry)
           r == <<n>> \o o
<1>1. o \in FileLines
  BY OthersKept
<1>2. PICK h \in [1..Len(o) -> DOMAIN ls] :
        /\ \A k \in 1..Len(o) : o[k] = ls[h[k]] /\ ~IsLineOf(ls[h[k]], mount)
        /\ \A k, j \in 1..Len(o) : h[k] = h[j] => k = j
  BY OthersKept
<1>3. n \in FileLine /\ MountsIn(n) = {mount}
  BY DEF TypeOK, Line, NewEntry, MountsIn, FileLine, Entry
<1>4. \A l \in FileLine : WellFormed(l) => MountsIn(l) = {l[1].mount}
  BY DEF WellFormed, MountsIn, FileLine
<1> HIDE DEF o, n
<1>5. /\ r \in FileLines /\ DOMAIN r = 1..(Len(o) + 1) /\ Len(o) \in Nat /\ r[1] = n
      /\ \A j \in 1..(Len(o) + 1) : j # 1 => j - 1 \in 1..Len(o) /\ r[j] = o[j - 1]
  BY <1>1, <1>3 DEF FileLines
<1> HIDE DEF r
<1>6. ASSUME NEW j \in DOMAIN r, j # 1 PROVE mount \notin MountsIn(r[j])
  <2>1. j - 1 \in 1..Len(o) /\ r[j] = ls[h[j - 1]] /\ ~IsLineOf(r[j], mount) /\ h[j - 1] \in DOMAIN ls
    BY <1>2, <1>5, <1>6
  <2>2. r[j] \in FileLine /\ WellFormed(r[j])
    BY <2>1 DEF FileLines
  <2> QED
    BY <1>4, <2>1, <2>2 DEF IsLineOf
<1>7. ASSUME NEW i \in DOMAIN r, NEW j \in DOMAIN r, i # j PROVE MountsIn(r[i]) \cap MountsIn(r[j]) = {}
  <2>1. CASE i = 1
    BY <1>3, <1>5, <1>6, <1>7, <2>1
  <2>2. CASE j = 1
    BY <1>3, <1>5, <1>6, <1>7, <2>2
  <2>3. CASE i # 1 /\ j # 1
    <3>1. /\ i - 1 \in 1..Len(o) /\ j - 1 \in 1..Len(o) /\ i - 1 # j - 1
          /\ r[i] = ls[h[i - 1]] /\ r[j] = ls[h[j - 1]]
      BY <1>2, <1>5, <1>7, <2>3
    <3>2. h[i - 1] # h[j - 1] /\ h[i - 1] \in DOMAIN ls /\ h[j - 1] \in DOMAIN ls
      BY <1>2, <3>1
    <3> QED
      BY <3>1, <3>2 DEF Disjoint
  <2> QED
    BY <2>1, <2>2, <2>3
<1>8. Disjoint(r)
  BY <1>7 DEF Disjoint
<1> QED
  BY <1>8 DEF r, o, n

(* Every step keeps every mount entered at most once.                      *)
LEMMA DisjointStep == ASSUME TypeInv, Disjoint(Lines), [Next]_vars PROVE Disjoint(Lines')
<1> HIDE DEF FileLine
<1>1. Lines \in FileLines
  BY LinesType DEF TypeInv
<1>2. CASE KillAtMount
  <2>1. PICK i \in DOMAIN Lines : pidFile' = Rewrite(i)
    BY <1>2 DEF KillAtMount
  <2>2. SubSeq(Lines, 1, i - 1) \o SubSeq(Lines, i + 1, Len(Lines)) \in FileLines
    BY <1>1 DEF FileLines
  <2>3. pidFile' \in FileLines /\ Len(pidFile') <= 1
    BY <2>1, <2>2, JoinedType DEF Rewrite
  <2> QED
    BY <2>3, ShortDisjoint, LinesWritten
<1>3. CASE KillRaises
  <2>1. PICK i \in DOMAIN Lines : pidFile' = Joined(SubSeq(Lines, 1, i - 1))
    BY <1>3 DEF KillRaises
  <2>2. SubSeq(Lines, 1, i - 1) \in FileLines
    BY <1>1, CutDisjoint
  <2>3. pidFile' \in FileLines /\ Len(pidFile') <= 1
    BY <2>1, <2>2, JoinedType
  <2> QED
    BY <2>3, ShortDisjoint, LinesWritten
<1>4. ASSUME mount \in todo, NEW ls \in FileLines, Disjoint(ls), \A i \in DOMAIN ls : WellFormed(ls[i]),
             pidFile' = <<Line(NewEntry)>> \o Others(ls)
      PROVE  Disjoint(Lines')
  <2>1. TypeOK /\ mount \in Mounts /\ NewEntry \in Entry
    BY <1>4 DEF TypeInv, TypeOK, NewEntry, Entry
  <2>2. Line(NewEntry) \in FileLine
    BY <2>1 DEF Line, FileLine
  <2>3. Others(ls) \in FileLines
    BY OthersKept
  <2>4. pidFile' \in FileLines
    BY <1>4, <2>2, <2>3 DEF FileLines
  <2>5. Disjoint(pidFile')
    BY <1>4, <2>1, RenewedDisjoint
  <2> QED
    BY <2>4, <2>5, LinesWritten
<1>5. CASE RecordEntry
  BY <1>1, <1>4, <1>5 DEF RecordEntry, TypeInv, TypeOK
<1>6. CASE RecordRaises
  <2>1. PICK i \in DOMAIN Lines :
          Before(Lines, i) /\ pidFile' = <<Line(NewEntry)>> \o Others(SubSeq(Lines, 1, i - 1))
    BY <1>6 DEF RecordRaises
  <2> DEFINE c == SubSeq(Lines, 1, i - 1)
  <2>2. /\ c \in FileLines /\ Len(c) = i - 1 /\ Disjoint(c)
        /\ \A j \in 1..(i - 1) : c[j] = Lines[j]
    BY <1>1, CutDisjoint
  <2> HIDE DEF c
  <2>3. DOMAIN c = 1..(i - 1)
    BY <2>2 DEF FileLines
  <2>4. \A j \in DOMAIN c : WellFormed(c[j])
    BY <2>1, <2>2, <2>3 DEF Before
  <2> QED
    BY <1>4, <1>6, <2>1, <2>2, <2>4 DEF c, RecordRaises, TypeInv, TypeOK
<1>7. CASE CleanupDone
  <2>1. Lines' = <<>>
    BY <1>7 DEF CleanupDone, Lines
  <2>2. DOMAIN Lines' = 1..0
    BY <2>1
  <2> QED
    BY <2>2 DEF Disjoint
<1>8. CASE UNCHANGED pidFile
  BY <1>8 DEF Lines
<1> QED
  BY <1>2, <1>3, <1>5, <1>6, <1>7, <1>8
     DEF Next, vars, BeginSync, KillNothing, Start, EndSync, BeginCleanup, CleanupLine, CleanupRaises,
         HandleExisting, ParsingRaises, VfsDies, LateMount

(* No mount point is entered twice, whatever misbehaves and in whatever    *)
(* order: a second entry would be unmounted twice.                         *)
THEOREM NeverEnteredTwice == Spec => []EnteredOnce
<1> DEFINE Once == Disjoint(Lines)
<1>1. Init => Once
  <2> SUFFICES ASSUME Init PROVE Once
    OBVIOUS
  <2>1. Lines = <<>>
    BY DEF Init, Lines
  <2>2. DOMAIN Lines = 1..0
    BY <2>1
  <2> QED
    BY <2>2 DEF Disjoint
<1>2. TypeInv /\ Once /\ [Next]_vars => Once'
  BY DisjointStep
<1>3. Once => EnteredOnce
  BY DEF Disjoint, MountsIn, EnteredOnce
<1> HIDE DEF Once
<1> QED
  BY <1>1, <1>2, <1>3, TypeInductive, PTL DEF Spec

-----------------------------------------------------------------------------
(* What the session has mounted, as long as nothing has misbehaved and no  *)
(* three lines meet.  A root shows the inputs of all the syncs that have   *)
(* reached it; between calls the file is the list of the mounts, and while *)
(* one of them is replaced it is the list of the others.                   *)
Owner(l) == l[1].mount

Tracks(shown, ls, gone) ==
  /\ \A i \in DOMAIN ls : WellFormed(ls[i])
  /\ \A i, j \in DOMAIN ls : Owner(ls[i]) = Owner(ls[j]) => i = j
  /\ \A i \in DOMAIN ls : Owner(ls[i]) \notin gone /\ shown[Owner(ls[i])] = <<ls[i][1].manifest>>
  /\ \A m \in Mounts \ gone : shown[m] # <<>> => \E i \in DOMAIN ls : Owner(ls[i]) = m

Shows(m, s) == stack[m] = IF s = 0 THEN <<>> ELSE <<1..s>>

Mounted ==
  /\ late = {}
  /\ \A m \in Mounts \ roots : stack[m] = <<>>
  /\ phase = "ready" => \A m \in roots : Shows(m, sync)
  /\ phase \in Syncing => \A m \in roots \ todo : Shows(m, sync)
  /\ phase = "next" => \A m \in todo : Shows(m, sync - 1)
  /\ phase \in Syncing \ {"next"} => final = 1..sync /\ \A m \in todo \ {mount} : Shows(m, sync - 1)
  /\ phase = "kill" => IsMount(mount) /\ Shows(mount, sync - 1)
  /\ phase = "start" => stack[mount] = <<>>
  /\ phase = "record" => stack[mount] = <<final>>
  /\ phase \in Ended => \A m \in Mounts : stack[m] = <<>>

Recorded ==
  /\ phase \in {"ready", "next", "kill", "start"} => Tracks(stack, Lines, {})
  /\ phase = "record" => Tracks(stack, Lines, {mount})
  /\ phase = "cleanup" => Tracks(stack, rest, {})

Inv == Readable => Mounted /\ Recorded

(* A line of a tracked file is an entry of one of the session's mounts.    *)
LEMMA TrackedLine ==
  ASSUME NEW shown, NEW ls \in FileLines, NEW gone, Tracks(shown, ls, gone), NEW i \in DOMAIN ls
  PROVE  Owner(ls[i]) \in Mounts /\ ls[i] = Line([mount |-> Owner(ls[i]), manifest |-> ls[i][1].manifest])
         /\ shown[Owner(ls[i])] # <<>> /\ Owner(ls[i]) \notin gone /\ IsLineOf(ls[i], Owner(ls[i]))
<1>1. ls[i] \in Seq(Entry) /\ Len(ls[i]) = 1
  <2> HIDE DEF Entry
  <2> QED
    BY DEF FileLines, FileLine, Tracks, WellFormed
<1>2. ls[i][1] \in Entry /\ ls[i] = <<ls[i][1]>>
  <2> HIDE DEF Entry
  <2> QED
    BY <1>1
<1>3. ls[i][1] = [mount |-> Owner(ls[i]), manifest |-> ls[i][1].manifest] /\ Owner(ls[i]) \in Mounts
  BY <1>2 DEF Entry, Owner
<1>4. shown[Owner(ls[i])] = <<ls[i][1].manifest>> /\ Owner(ls[i]) \notin gone
  BY DEF Tracks
<1>5. shown[Owner(ls[i])] # <<>>
  BY <1>4
<1>6. IsLineOf(ls[i], Owner(ls[i]))
  BY <1>1 DEF IsLineOf, WellFormed, Owner
<1>7. ls[i] = Line([mount |-> Owner(ls[i]), manifest |-> ls[i][1].manifest])
  BY <1>2, <1>3 DEF Line
<1> QED
  BY <1>3, <1>4, <1>5, <1>6, <1>7

(* What is readable now was readable before, and nothing misbehaved.       *)
LEMMA ReadableBefore ==
  ASSUME TypeInv, [Next]_vars, Readable'
  PROVE  Readable /\ faults' = 0 /\ faults = 0
<1>1. roots' = roots /\ sync' >= sync /\ faults' >= faults
  <2> HIDE DEF Manifest, Entry
  <2>1. roots' = roots
    BY DEF Next, vars, BeginSync, KillAtMount, KillRaises, KillNothing, Start, RecordEntry, RecordRaises,
           EndSync, BeginCleanup, CleanupLine, CleanupRaises, CleanupDone, HandleExisting, ParsingRaises,
           VfsDies, LateMount
  <2>2. sync \in Nat /\ faults \in Nat
    BY VfsAssumption DEF TypeInv, TypeOK
  <2>3. sync' = sync \/ sync' = sync + 1
    BY DEF Next, vars, BeginSync, KillAtMount, KillRaises, KillNothing, Start, RecordEntry, RecordRaises,
           EndSync, BeginCleanup, CleanupLine, CleanupRaises, CleanupDone, HandleExisting, ParsingRaises,
           VfsDies, LateMount
  <2>4. faults' = faults \/ faults' = faults + 1
    BY DEF Next, vars, BeginSync, KillAtMount, KillRaises, KillNothing, Start, RecordEntry, RecordRaises,
           EndSync, BeginCleanup, CleanupLine, CleanupRaises, CleanupDone, HandleExisting, ParsingRaises,
           VfsDies, LateMount, ShutDown, Misbehaves
  <2> QED
    BY <2>1, <2>2, <2>3, <2>4
<1>2. sync \in Nat /\ faults \in Nat /\ sync' \in Nat
  BY TypeStep, VfsAssumption DEF TypeInv, TypeOK
<1> QED
  BY <1>1, <1>2 DEF Readable

(* Two lines at most: each is a mounted root's, and three roots are not    *)
(* readable once the second sync replaces one of them.                     *)
LEMMA AtMostTwo ==
  ASSUME TypeInv, Mounted, Tracks(stack, Lines, {}), Cardinality(roots) <= 2
  PROVE  Len(Lines) <= 2
<1> HIDE DEF Manifest, Entry, FileLine
<1>1. Lines \in FileLines /\ IsFiniteSet(roots)
  <2>1. roots \subseteq Mounts
    BY DEF TypeInv, TypeOK
  <2> QED
    BY <2>1, LinesType, FS_Subset, VfsAssumption DEF TypeInv
<1> SUFFICES ASSUME Len(Lines) >= 3 PROVE FALSE
  BY <1>1 DEF FileLines
<1>2. 1 \in DOMAIN Lines /\ 2 \in DOMAIN Lines /\ 3 \in DOMAIN Lines
  BY <1>1 DEF FileLines
<1>3. \A i \in DOMAIN Lines : Owner(Lines[i]) \in roots
  <2> SUFFICES ASSUME NEW i \in DOMAIN Lines PROVE Owner(Lines[i]) \in roots
    OBVIOUS
  <2>1. Owner(Lines[i]) \in Mounts /\ stack[Owner(Lines[i])] # <<>>
    BY <1>1, TrackedLine
  <2> QED
    BY <2>1 DEF Mounted
<1> DEFINE x == Owner(Lines[1])
           y == Owner(Lines[2])
           z == Owner(Lines[3])
           T == {x, y, z}
<1>4. x # y /\ x # z /\ y # z
  BY <1>2 DEF Tracks
<1>5. T \subseteq roots
  BY <1>2, <1>3
<1>6. Cardinality(T) = 3
  <2> HIDE DEF x, y, z
  <2>1. IsFiniteSet({x}) /\ Cardinality({x}) = 1
    BY FS_Singleton
  <2> DEFINE A == {x} \cup {y}
             B == A \cup {z}
  <2>2. IsFiniteSet(A) /\ Cardinality(A) = 2
    BY <1>4, <2>1, FS_AddElement
  <2>3. z \notin A
    BY <1>4
  <2>4. T = B
    OBVIOUS
  <2>5. Cardinality(B) = Cardinality(A) + 1
    <3> HIDE DEF A
    <3> QED
      BY <2>2, <2>3, FS_AddElement
  <2> HIDE DEF A, B, T
  <2> QED
    BY <2>2, <2>4, <2>5
<1> HIDE DEF T
<1>7. Cardinality(T) <= Cardinality(roots) /\ Cardinality(roots) \in Nat
  BY <1>1, <1>5, FS_Subset, FS_CardinalityType
<1> QED
  BY <1>6, <1>7

(* How the file follows the mounts: one of two lines is cut out with its   *)
(* mount, a mount without a line is made, and its line is written.         *)
LEMMA TracksCut ==
  ASSUME NEW shown, NEW ls \in FileLines, Tracks(shown, ls, {}), NEW i \in DOMAIN ls, NEW after, NEW r,
         after[Owner(ls[i])] = <<>>, \A m \in Mounts \ {Owner(ls[i])} : after[m] = shown[m], Kept(r, ls, i)
  PROVE  Tracks(after, r, {})
<1> HIDE DEF FileLine
<1>1. r \in FileLines /\ \A j, k \in DOMAIN r : j = k
  BY DEF Kept, FileLines
<1>2. ASSUME NEW j \in DOMAIN r
      PROVE  WellFormed(r[j]) /\ after[Owner(r[j])] = <<r[j][1].manifest>>
  <2>1. PICK k \in DOMAIN ls : k # i /\ r[j] = ls[k]
    BY DEF Kept
  <2>2. Owner(ls[k]) # Owner(ls[i]) /\ Owner(ls[k]) \in Mounts
    <3>1. Owner(ls[k]) \in Mounts
      BY TrackedLine
    <3> QED
      BY <2>1, <3>1 DEF Tracks
  <2> QED
    BY <2>1, <2>2 DEF Tracks
<1>3. ASSUME NEW m \in Mounts, after[m] # <<>> PROVE \E j \in DOMAIN r : Owner(r[j]) = m
  <2>1. m # Owner(ls[i]) /\ shown[m] # <<>>
    BY <1>3
  <2>2. PICK k \in DOMAIN ls : Owner(ls[k]) = m
    BY <2>1 DEF Tracks
  <2>3. k # i
    BY <2>1, <2>2
  <2> QED
    BY <2>2, <2>3 DEF Kept
<1> QED
  BY <1>1, <1>2, <1>3 DEF Tracks

(* A mount that was made is missing in the file until it is recorded.      *)
LEMMA TracksMade ==
  ASSUME NEW shown, NEW ls \in FileLines, Tracks(shown, ls, {}), NEW m \in Mounts, shown[m] = <<>>, NEW after,
         \A k \in Mounts \ {m} : after[k] = shown[k]
  PROVE  Tracks(after, ls, {m})
<1> HIDE DEF FileLine
<1>1. ASSUME NEW i \in DOMAIN ls PROVE Owner(ls[i]) \in Mounts /\ Owner(ls[i]) # m
  BY TrackedLine
<1> QED
  BY <1>1 DEF Tracks

(* When it is recorded the file tells of all mounts.                       *)
LEMMA TracksWritten ==
  ASSUME NEW shown, NEW ls \in FileLines, Tracks(shown, ls, {mount}),
         mount \in Mounts, final \in Manifest, shown[mount] = <<final>>
  PROVE  Tracks(shown, <<Line(NewEntry)>> \o Others(ls), {})
<1> HIDE DEF FileLine
<1> DEFINE o == Others(ls)
           n == Line(NewEntry)
           r == <<n>> \o o
<1>1. o \in FileLines
  BY OthersKept
<1>2. PICK h \in [1..Len(o) -> DOMAIN ls] :
        /\ \A k \in 1..Len(o) : o[k] = ls[h[k]]
        /\ \A k, j \in 1..Len(o) : h[k] = h[j] => k = j
        /\ \A i \in DOMAIN ls : ~IsLineOf(ls[i], mount) => \E k \in 1..Len(o) : h[k] = i
  BY OthersKept
<1>3. n \in FileLine /\ WellFormed(n) /\ Owner(n) = mount /\ n[1].manifest = final
  BY DEF Line, NewEntry, Owner, WellFormed, FileLine, Entry
<1>4. ASSUME NEW i \in DOMAIN ls PROVE ~IsLineOf(ls[i], mount) /\ Owner(ls[i]) # mount
  <2>1. Owner(ls[i]) \notin {mount}
    BY TrackedLine
  <2> QED
    BY <2>1 DEF IsLineOf, Owner
<1> HIDE DEF o, n
<1>5. /\ r \in FileLines /\ DOMAIN r = 1..(Len(o) + 1) /\ Len(o) \in Nat /\ r[1] = n
      /\ \A j \in 1..(Len(o) + 1) : j # 1 => j - 1 \in 1..Len(o) /\ r[j] = o[j - 1]
      /\ \A k \in 1..Len(o) : k + 1 \in DOMAIN r /\ r[k + 1] = o[k]
  BY <1>1, <1>3 DEF FileLines
<1> HIDE DEF r
<1>6. ASSUME NEW j \in DOMAIN r, j # 1
      PROVE  j - 1 \in 1..Len(o) /\ h[j - 1] \in DOMAIN ls /\ r[j] = ls[h[j - 1]]
  BY <1>2, <1>5, <1>6
<1>7. \A j \in DOMAIN r : WellFormed(r[j]) /\ shown[Owner(r[j])] = <<r[j][1].manifest>>
  BY <1>3, <1>5, <1>6 DEF Tracks
<1>8. ASSUME NEW i \in DOMAIN r, NEW j \in DOMAIN r, Owner(r[i]) = Owner(r[j]) PROVE i = j
  <2>1. CASE i = 1 \/ j = 1
    BY <1>3, <1>4, <1>5, <1>6, <1>8, <2>1
  <2>2. CASE i # 1 /\ j # 1
    <3>1. h[i - 1] = h[j - 1]
      BY <1>6, <1>8, <2>2 DEF Tracks
    <3>2. i - 1 = j - 1
      BY <1>2, <1>6, <2>2, <3>1
    <3> QED
      BY <1>5, <3>2
  <2> QED
    BY <2>1, <2>2
<1>9. ASSUME NEW m \in Mounts, shown[m] # <<>> PROVE \E j \in DOMAIN r : Owner(r[j]) = m
  <2>1. CASE m = mount
    BY <1>3, <1>5, <2>1
  <2>2. CASE m # mount
    <3>1. PICK i \in DOMAIN ls : Owner(ls[i]) = m
      BY <1>9, <2>2 DEF Tracks
    <3>2. PICK k \in 1..Len(o) : h[k] = i
      BY <1>2, <1>4
    <3> QED
      BY <1>2, <1>5, <3>1, <3>2
  <2> QED
    BY <2>1, <2>2
<1>10. Tracks(shown, r, {})
  BY <1>7, <1>8, <1>9 DEF Tracks
<1> QED
  BY <1>10 DEF r, o, n

(* What is unmounted in cleanup is what the next line tells of.            *)
LEMMA TracksTail ==
  ASSUME NEW shown, NEW ls \in FileLines, ls # <<>>, Tracks(shown, ls, {}), NEW after,
         after[Owner(Head(ls))] = <<>>, \A m \in Mounts \ {Owner(Head(ls))} : after[m] = shown[m]
  PROVE  Tracks(after, Tail(ls), {})
<1> HIDE DEF FileLine
<1> DEFINE r == Tail(ls)
<1>1. /\ Head(ls) = ls[1] /\ 1 \in DOMAIN ls /\ DOMAIN ls = 1..Len(ls) /\ Len(ls) \in Nat
      /\ r \in FileLines /\ DOMAIN r = 1..(Len(ls) - 1)
      /\ \A j \in 1..(Len(ls) - 1) : r[j] = ls[j + 1] /\ j + 1 \in DOMAIN ls
  BY DEF FileLines
<1> HIDE DEF r
<1>2. ASSUME NEW j \in DOMAIN r
      PROVE  WellFormed(r[j]) /\ after[Owner(r[j])] = <<r[j][1].manifest>>
  <2>1. j + 1 \in DOMAIN ls /\ r[j] = ls[j + 1] /\ j + 1 # 1
    BY <1>1
  <2>2. Owner(r[j]) # Owner(ls[1]) /\ Owner(r[j]) \in Mounts
    <3>1. Owner(ls[j + 1]) \in Mounts
      BY <2>1, TrackedLine
    <3> QED
      BY <1>1, <2>1, <3>1 DEF Tracks
  <2> QED
    BY <1>1, <2>1, <2>2 DEF Tracks
<1>3. ASSUME NEW i \in DOMAIN r, NEW j \in DOMAIN r, Owner(r[i]) = Owner(r[j]) PROVE i = j
  <2>1. /\ i + 1 \in DOMAIN ls /\ j + 1 \in DOMAIN ls
        /\ Owner(ls[i + 1]) = Owner(ls[j + 1])
    BY <1>1, <1>3
  <2>2. i + 1 = j + 1
    <3>1. \A k, l \in DOMAIN ls : Owner(ls[k]) = Owner(ls[l]) => k = l
      BY DEF Tracks
    <3> QED
      BY <2>1, <3>1
  <2> QED
    BY <1>1, <2>2
<1>4. ASSUME NEW m \in Mounts, after[m] # <<>> PROVE \E j \in DOMAIN r : Owner(r[j]) = m
  <2>1. m # Owner(ls[1]) /\ shown[m] # <<>>
    BY <1>1, <1>4
  <2>2. PICK k \in DOMAIN ls : Owner(ls[k]) = m
    BY <2>1 DEF Tracks
  <2>3. k # 1 /\ k - 1 \in DOMAIN r /\ r[k - 1] = ls[k]
    BY <1>1, <2>1, <2>2
  <2> QED
    BY <2>2, <2>3
<1>5. Tracks(after, r, {})
  BY <1>2, <1>3, <1>4 DEF Tracks
<1> QED
  BY <1>5 DEF r

(* No step that finds the file other than it should be is enabled.         *)
LEMMA NothingRaises ==
  ASSUME TypeInv, Mounted, Recorded, faults = 0, faults' = 0
  PROVE  ~KillRaises /\ ~KillNothing /\ ~RecordRaises /\ ~CleanupRaises
         /\ \A m \in Mounts : ~ParsingRaises(m) /\ ~VfsDies(m)
<1> HIDE DEF Manifest, Entry, FileLine
<1>1. Lines \in FileLines /\ rest \in FileLines
  BY LinesType DEF TypeInv, TypeOK, FileLines, FileLine
<1>2. ~Misbehaves
  BY DEF Misbehaves
<1>3. ~KillRaises /\ ~KillNothing
  BY <1>2 DEF KillRaises, KillNothing, ShutDown, Mounted, Syncing
<1>4. ~RecordRaises
  <2>1. phase = "record" => \A i \in DOMAIN Lines : WellFormed(Lines[i])
    BY DEF Recorded, Tracks
  <2> QED
    BY <2>1 DEF RecordRaises
<1>5. ~CleanupRaises
  <2>3. Tracks(stack, rest, {}) => \A i \in DOMAIN rest : IsMount(Owner(rest[i]))
    BY <1>1, TrackedLine DEF IsMount
  <2> SUFFICES ASSUME phase = "cleanup", rest # <<>>
               PROVE  WellFormed(Head(rest)) /\ ~ShutDown(Head(rest)[1].mount, "raises")
    BY DEF CleanupRaises
  <2>1. 1 \in DOMAIN rest
    BY <1>1 DEF FileLines
  <2>2. Head(rest) = rest[1]
    BY <1>1 DEF FileLines
  <2>4. Tracks(stack, rest, {})
    BY DEF Recorded
  <2>5. WellFormed(Head(rest))
    BY <2>1, <2>2, <2>4 DEF Tracks
  <2>6. IsMount(Head(rest)[1].mount)
    BY <2>1, <2>2, <2>3, <2>4 DEF Owner
  <2> QED
    BY <1>2, <2>5, <2>6 DEF ShutDown
<1>6. ASSUME NEW m \in Mounts PROVE ~ParsingRaises(m) /\ ~VfsDies(m)
  <2>1. ~VfsDies(m)
    BY <1>2 DEF VfsDies
  <2>2. ASSUME phase = "next", IsMount(m) PROVE \E i \in DOMAIN Lines : Finds(m, i)
    <3>1. Tracks(stack, Lines, {})
      BY <2>2 DEF Recorded
    <3>2. PICK i \in DOMAIN Lines : Owner(Lines[i]) = m
      BY <2>2, <3>1 DEF Tracks, IsMount
    <3>3. DOMAIN Lines = 1..Len(Lines) /\ Len(Lines) \in Nat
      BY <1>1 DEF FileLines
    <3>4. \A j \in DOMAIN Lines : WellFormed(Lines[j]) /\ (j # i => Owner(Lines[j]) # m)
      BY <3>1, <3>2 DEF Tracks
    <3>5. ASSUME NEW j \in 1..(i - 1) PROVE WellFormed(Lines[j]) /\ ~IsLineOf(Lines[j], m)
      <4>1. j \in DOMAIN Lines /\ j # i
        BY <3>3
      <4> QED
        BY <3>4, <4>1 DEF IsLineOf, Owner
    <3> QED
      BY <3>2, <3>4, <3>5 DEF Finds, IsLineOf, Owner, Before
  <2>3. ~ParsingRaises(m)
    BY <2>2 DEF ParsingRaises, Unparsable
  <2> QED
    BY <2>1, <2>3
<1> QED
  BY <1>3, <1>4, <1>5, <1>6

(* handle_existing_vfs has the manifest of all syncs mounted.              *)
LEMMA HandleExistingStep ==
  ASSUME TypeInv, Mounted, Recorded, NEW m \in Mounts, HandleExisting(m)
  PROVE  Mounted' /\ Recorded'
<1> HIDE DEF Manifest, Entry, FileLine
<1>1. /\ phase = "next" /\ m \in todo /\ mount' = m /\ phase' \in {"kill", "start"}
      /\ UNCHANGED <<roots, sync, todo, stack, late, pidFile>>
  BY DEF HandleExisting
<1>2. sync \in Nat /\ sync # 0 /\ todo \subseteq roots
  BY <1>1, VfsAssumption DEF TypeInv, TypeOK, Syncing
<1>3. Tracks(stack, Lines, {}) /\ Shows(m, sync - 1) /\ Lines' = Lines
  BY <1>1 DEF Mounted, Recorded, Lines
<1>4. CASE IsMount(m) /\ phase' = "kill" /\ \E i \in DOMAIN Lines :
             Finds(m, i) /\ final' = Merged(Lines[i][1].manifest)
  <2>1. PICK i \in DOMAIN Lines : Finds(m, i) /\ final' = Merged(Lines[i][1].manifest)
    BY <1>4
  <2>2. stack[m] = <<Lines[i][1].manifest>>
    BY <1>3, <2>1 DEF Tracks, Finds, IsLineOf, Owner
  <2>3. stack[m] = <<1..(sync - 1)>>
    BY <1>3, <1>4 DEF Shows, IsMount
  <2>4. Lines[i][1].manifest = 1..(sync - 1)
    BY <2>2, <2>3
  <2>5. final' = 1..sync
    BY <1>2, <2>1, <2>4 DEF Merged
  <2> QED
    BY <1>1, <1>3, <1>4, <2>5 DEF Mounted, Recorded, Shows, IsMount, Syncing, Ended
<1>5. CASE (~IsMount(m) \/ Unknown(m)) /\ phase' = "start" /\ final' = {sync}
  <2>1. stack[m] = <<>>
    <3> SUFFICES ASSUME Unknown(m), IsMount(m) PROVE FALSE
      BY <1>5 DEF IsMount
    <3>1. PICK i \in DOMAIN Lines : Owner(Lines[i]) = m
      BY <1>3 DEF Tracks, IsMount
    <3> QED
      BY <3>1 DEF Unknown, IsLineOf, Owner
  <2>2. sync = 1
    <3>1. <<1..(sync - 1)>> # <<>>
      OBVIOUS
    <3>2. sync - 1 = 0
      BY <1>3, <2>1, <3>1 DEF Shows
    <3> QED
      BY <1>2, <3>2
  <2>3. final' = 1..sync
    BY <1>5, <2>2
  <2> QED
    BY <1>1, <1>3, <1>5, <2>1, <2>3 DEF Mounted, Recorded, Shows, IsMount, Syncing, Ended
<1> QED
  BY <1>4, <1>5 DEF HandleExisting

(* The old VFS of a root is unmounted, and its line goes with it.          *)
LEMMA KillStep ==
  ASSUME TypeInv, Mounted, Recorded, Readable, faults' = 0, KillAtMount
  PROVE  Mounted' /\ Recorded'
<1> HIDE DEF Manifest, Entry, FileLine
<1>1. PICK i \in DOMAIN Lines, answer \in {"unmounted", "left"} :
        Finds(mount, i) /\ ShutDown(mount, answer) /\ pidFile' = Rewrite(i)
  BY DEF KillAtMount
<1>2. /\ phase = "kill" /\ phase' = "start" /\ mount \in todo /\ mount \in Mounts
      /\ UNCHANGED <<roots, sync, todo, mount, final, late>>
  BY DEF KillAtMount, TypeInv, TypeOK
<1>3. /\ Lines \in FileLines /\ stack \in [Mounts -> Seq(Manifest)] /\ todo \subseteq roots
      /\ faults = 0 /\ sync \in Nat
  BY LinesType, VfsAssumption DEF TypeInv, TypeOK, Readable
<1>4. IsMount(mount) /\ Shows(mount, sync - 1) /\ Tracks(stack, Lines, {})
  BY <1>2 DEF Mounted, Recorded
<1>5. Cardinality(roots) <= 2
  <2>1. sync - 1 # 0
    BY <1>4 DEF Shows, IsMount
  <2>2. sync # 0
    BY <1>2 DEF TypeInv, Syncing
  <2> QED
    BY <1>3, <2>1, <2>2 DEF Readable
<1>6. Kept(pidFile', Lines, i)
  <2>1. Len(Lines) <= 2
    BY <1>4, <1>5, AtMostTwo
  <2> QED
    BY <1>1, <1>3, <2>1, RewrittenPair DEF Rewrite
<1>7. Lines' = pidFile'
  BY <1>6, LinesWritten DEF Kept
<1>8. stack' = [stack EXCEPT ![mount] = Front(@)]
  BY <1>1, <1>3 DEF ShutDown, Misbehaves
<1>9. stack'[mount] = <<>> /\ \A m \in Mounts \ {mount} : stack'[m] = stack[m]
  <2>1. stack[mount] = <<1..(sync - 1)>>
    BY <1>4 DEF Shows, IsMount
  <2>2. Front(stack[mount]) = <<>>
    BY <2>1 DEF Front
  <2> QED
    BY <1>2, <1>3, <1>8, <2>2
<1>10. Owner(Lines[i]) = mount
  BY <1>1 DEF Finds, IsLineOf, Owner
<1>11. Tracks(stack', Lines', {})
  BY <1>3, <1>4, <1>6, <1>7, <1>9, <1>10, TracksCut
<1>12. Recorded'
  BY <1>2, <1>11 DEF Recorded
<1>13. \A m \in Mounts \ {mount}, s \in Nat : Shows(m, s) => Shows(m, s)'
  BY <1>9 DEF Shows
<1>14. Mounted'
  BY <1>2, <1>3, <1>9, <1>13 DEF Mounted, Shows, Syncing, Ended, TypeInv, TypeOK
<1> QED
  BY <1>12, <1>14

(* The new VFS is mounted, alone at its mount point. *)
LEMMA StartStep ==
  ASSUME TypeInv, Mounted, Recorded, faults = 0, faults' = 0, Start
  PROVE  Mounted' /\ Recorded'
<1> HIDE DEF Manifest, Entry, FileLine
<1>1. /\ phase = "start" /\ phase' = "record" /\ stack' = [stack EXCEPT ![mount] = Append(@, final)]
      /\ UNCHANGED <<roots, sync, todo, mount, final, late, pidFile>>
  BY DEF Start, Misbehaves
<1>2. /\ mount \in todo /\ mount \in Mounts /\ todo \subseteq roots /\ sync \in Nat
      /\ stack \in [Mounts -> Seq(Manifest)] /\ Lines \in FileLines /\ Lines' = Lines
  BY <1>1, LinesType, VfsAssumption DEF TypeInv, TypeOK, Lines
<1>3. stack[mount] = <<>> /\ final = 1..sync /\ Tracks(stack, Lines, {})
  BY <1>1 DEF Mounted, Recorded, Syncing
<1>4. stack'[mount] = <<final>> /\ \A m \in Mounts \ {mount} : stack'[m] = stack[m]
  BY <1>1, <1>2, <1>3
<1>5. Tracks(stack', Lines', {mount'})
  BY <1>1, <1>2, <1>3, <1>4, TracksMade
<1>6. Recorded'
  BY <1>1, <1>5 DEF Recorded
<1>7. \A m \in Mounts \ {mount}, s \in Nat : Shows(m, s) => Shows(m, s)'
  BY <1>4 DEF Shows
<1>8. Mounted'
  BY <1>1, <1>2, <1>4, <1>7 DEF Mounted, Shows, Syncing, Ended, TypeInv, TypeOK
<1> QED
  BY <1>6, <1>8

(* Its line is written, and the root has what the sync is to give it.      *)
LEMMA RecordStep ==
  ASSUME TypeInv, Mounted, Recorded, RecordEntry
  PROVE  Mounted' /\ Recorded'
<1> HIDE DEF Manifest, Entry, FileLine
<1>1. /\ phase = "record" /\ phase' = "next" /\ pidFile' = <<Line(NewEntry)>> \o Others(Lines)
      /\ todo' = todo \ {mount} /\ UNCHANGED <<roots, sync, mount, final, stack, late>>
  BY DEF RecordEntry
<1>2. /\ mount \in todo /\ mount \in Mounts /\ final \in Manifest /\ todo \subseteq roots
      /\ sync \in Nat /\ sync # 0 /\ Lines \in FileLines
  BY <1>1, LinesType, VfsAssumption DEF TypeInv, TypeOK, Syncing
<1>3. stack[mount] = <<final>> /\ final = 1..sync /\ Tracks(stack, Lines, {mount})
  BY <1>1 DEF Mounted, Recorded, Syncing
<1>4. pidFile' \in FileLines
  <2>1. Line(NewEntry) \in FileLine
    BY <1>2 DEF Line, NewEntry, FileLine, Entry
  <2>2. Others(Lines) \in FileLines
    BY <1>2, OthersKept
  <2> QED
    BY <1>1, <2>1, <2>2 DEF FileLines
<1>5. Tracks(stack', Lines', {})
  BY <1>1, <1>2, <1>3, <1>4, TracksWritten, LinesWritten
<1>6. Recorded'
  BY <1>1, <1>5 DEF Recorded
<1>7. Shows(mount, sync)
  BY <1>2, <1>3 DEF Shows
<1>8. Mounted'
  BY <1>1, <1>2, <1>7 DEF Mounted, Shows, Syncing, Ended
<1> QED
  BY <1>6, <1>8

(* A step of the cleanup keeps the rest of the lines in agreement with the *)
(* mounts.                                                                 *)
LEMMA CleanupStep ==
  ASSUME TypeInv, Mounted, Recorded, faults = 0, faults' = 0, CleanupLine
  PROVE  Mounted' /\ Recorded'
<1> HIDE DEF Manifest, Entry, FileLine
<1> DEFINE m == Owner(Head(rest))
<1>1. /\ phase = "cleanup" /\ phase' = "cleanup" /\ rest # <<>> /\ rest' = Tail(rest)
      /\ IsMount(m) /\ stack' = [stack EXCEPT ![m] = Front(@)]
      /\ UNCHANGED <<roots, sync, todo, mount, final, late>>
  BY DEF CleanupLine, ShutDown, Misbehaves, Owner
<1>2. rest \in FileLines /\ stack \in [Mounts -> Seq(Manifest)] /\ Tracks(stack, rest, {})
  BY <1>1 DEF TypeInv, TypeOK, FileLines, FileLine, Recorded
<1>3. \A i \in DOMAIN rest : Owner(rest[i]) \in Mounts /\ stack[Owner(rest[i])] = <<rest[i][1].manifest>>
  <2>1. \A i \in DOMAIN rest : Owner(rest[i]) \in Mounts
    BY <1>2, TrackedLine
  <2> QED
    BY <1>2, <2>1 DEF Tracks
<1>4. Head(rest) = rest[1] /\ 1 \in DOMAIN rest
  BY <1>1, <1>2 DEF FileLines
<1>5. m \in Mounts /\ stack[m] = <<rest[1][1].manifest>>
  BY <1>3, <1>4
<1>6. Front(stack[m]) = <<>>
  BY <1>5 DEF Front
<1>7. stack'[m] = <<>> /\ \A k \in Mounts \ {m} : stack'[k] = stack[k]
  BY <1>1, <1>2, <1>5, <1>6
<1>8. Tracks(stack', rest', {})
  BY <1>1, <1>2, <1>7, TracksTail
<1>9. Recorded'
  BY <1>1, <1>8 DEF Recorded
<1>10. Mounted'
  <2> HIDE DEF m
  <2>1. \A k \in Mounts \ roots : stack'[k] = <<>>
    BY <1>7 DEF Mounted
  <2> QED
    BY <1>1, <2>1 DEF Mounted, Syncing, Ended
<1> QED
  BY <1>9, <1>10

(* Every step keeps mounts and lines in agreement while the file can be    *)
(* read.                                                                   *)
LEMMA InvStep == ASSUME TypeInv, Inv, [Next]_vars PROVE Inv'
<1> SUFFICES ASSUME Readable' PROVE Mounted' /\ Recorded'
  BY DEF Inv
<1> USE DEF Ended, Syncing
<1> HIDE DEF Manifest, Entry, FileLine
<1>1. Readable /\ faults = 0 /\ faults' = 0 /\ Mounted /\ Recorded
  BY ReadableBefore DEF Inv
<1>2. /\ todo \subseteq roots /\ roots \subseteq Mounts /\ sync \in Nat
      /\ rest \in FileLines /\ phase \in Syncing => sync # 0
  BY VfsAssumption DEF TypeInv, TypeOK, FileLines, FileLine
<1>3. CASE BeginSync
  <2>1. Lines' = Lines /\ stack' = stack /\ phase = "ready" /\ phase' = "next"
    BY <1>3 DEF BeginSync, Lines
  <2>2. Recorded'
    BY <1>1, <2>1 DEF Recorded
  <2>3. sync' = sync + 1 /\ sync' - 1 = sync /\ todo' = roots /\ UNCHANGED <<roots, late>>
    BY <1>2, <1>3 DEF BeginSync
  <2>4. Mounted'
    BY <1>1, <1>2, <2>1, <2>3 DEF Mounted, Shows
  <2> QED
    BY <2>2, <2>4
<1>4. CASE EndSync
  BY <1>1, <1>4 DEF EndSync, Mounted, Recorded, Lines, Shows, IsMount
<1>5. CASE BeginCleanup
  BY <1>1, <1>5 DEF BeginCleanup, Mounted, Recorded, Lines, Shows, IsMount
<1>6. CASE CleanupDone
  <2>1. Tracks(stack, rest, {}) /\ DOMAIN rest = 1..0
    BY <1>1, <1>6 DEF CleanupDone, Recorded
  <2>2. \A m \in Mounts : stack[m] = <<>>
    BY <2>1 DEF Tracks
  <2> QED
    BY <1>1, <1>6, <2>2 DEF CleanupDone, Mounted, Recorded, Shows, IsMount
<1>7. CASE UNCHANGED vars
  BY <1>1, <1>7 DEF vars, Mounted, Recorded, Lines, Shows, IsMount
<1>8. ASSUME NEW m \in Mounts, HandleExisting(m) PROVE Mounted' /\ Recorded'
  BY <1>1, <1>8, HandleExistingStep
<1>9. CASE KillAtMount
  BY <1>1, <1>9, KillStep
<1>10. CASE Start
  BY <1>1, <1>10, StartStep
<1>11. CASE RecordEntry
  BY <1>1, <1>11, RecordStep
<1>12. CASE CleanupLine
  BY <1>1, <1>12, CleanupStep
<1>13. ~\E e \in late : LateMount(e)
  BY <1>1 DEF Mounted
<1> QED
  BY <1>1, <1>3, <1>4, <1>5, <1>6, <1>7, <1>8, <1>9, <1>10, <1>11, <1>12, <1>13, NothingRaises DEF Next

(* The inductive invariant of mounts and lines holds.                      *)
LEMMA InvInductive == Spec => []Inv
<1>1. Init => Inv
  <2> SUFFICES ASSUME Init PROVE Mounted /\ Recorded
    BY DEF Inv
  <2>1. Mounted
    BY DEF Init, Mounted, Shows, Syncing, Ended
  <2>2. Lines = <<>> /\ DOMAIN Lines = 1..0
    BY DEF Init, Lines
  <2>3. Tracks(stack, Lines, {})
    BY <2>2 DEF Init, Tracks
  <2> QED
    BY <2>1, <2>3 DEF Recorded, Init
<1>2. TypeInv /\ Inv /\ [Next]_vars => Inv'
  BY InvStep
<1> QED
  BY <1>1, <1>2, TypeInductive, PTL DEF Spec

(* Between calls the pid file has a line of its own for every mount, with  *)
(* the manifest that is visible there.                                     *)
THEOREM EveryMountIsRecorded == Spec => []MountsTracked
<1>1. TypeInv /\ Inv => MountsTracked
  <2> HIDE DEF Manifest, Entry, FileLine
  <2> SUFFICES ASSUME TypeInv, Inv, phase \in {"ready", "next"}, Readable, NEW m \in Mounts, IsMount(m)
               PROVE  \E i \in DOMAIN Lines : Lines[i] = Line([mount |-> m, manifest |-> Last(stack[m])])
    BY DEF MountsTracked
  <2>1. Tracks(stack, Lines, {}) /\ Lines \in FileLines
    BY LinesType DEF Inv, Recorded, TypeInv
  <2>2. PICK i \in DOMAIN Lines : Owner(Lines[i]) = m
    BY <2>1 DEF Tracks, IsMount
  <2>3. stack[m] = <<Lines[i][1].manifest>>
    BY <2>1, <2>2 DEF Tracks
  <2>4. Last(stack[m]) = Lines[i][1].manifest
    BY <2>3 DEF Last
  <2>5. Lines[i] = Line([mount |-> Owner(Lines[i]), manifest |-> Lines[i][1].manifest])
    BY <2>1, TrackedLine
  <2> QED
    BY <2>2, <2>4, <2>5
<1> QED
  BY <1>1, TypeInductive, InvInductive, PTL

(* cleanup_session leaves nothing mounted.                                 *)
THEOREM SessionLeavesNothing == Spec => []CleanedUp
<1>1. Inv => CleanedUp
  BY DEF Inv, Mounted, CleanedUp, IsMount
<1> QED
  BY <1>1, InvInductive, PTL

(* When an input sync has ended well, every root shows the inputs of all   *)
(* the session's syncs: merging accumulates them, one mount after another. *)
THEOREM SyncServesAllInputs == Spec => []ServesEverything
<1>1. TypeInv /\ Inv => ServesEverything
  <2> SUFFICES ASSUME TypeInv, Inv, phase = "next", todo = {}, Readable, NEW m \in roots
               PROVE  IsMount(m) /\ Last(stack[m]) = 1..sync
    BY DEF ServesEverything
  <2>1. Shows(m, sync) /\ sync # 0
    BY DEF Inv, Mounted, Syncing, TypeInv
  <2>2. stack[m] = <<1..sync>>
    BY <2>1 DEF Shows
  <2> QED
    BY <2>2 DEF IsMount, Last
<1> QED
  BY <1>1, TypeInductive, InvInductive, PTL
=============================================================================
