------------------------- MODULE EditJournalProofs -------------------------
(***************************************************************************)
(* Proofs about the edit journal, for any number of files, contents and any *)
(* loss in reading them as text, any length of a patch and any number of     *)
(* faults: the journal is always enough to undo the tools, a failed          *)
(* validation does undo them, and a rollback never undoes what it has        *)
(* restored.                                                                *)
(***************************************************************************)
EXTENDS EditJournal, TLAPS

\* What reading a file as text makes of it is a state of a file, and is text.
LEMMA TextIsState ==
    ASSUME NEW c \in States
    PROVE  AsText(c) \in States /\ AsText(AsText(c)) = AsText(c)
BY JournalAssumption DEF States, AsText

\* A file that is back has the text of what it is to be.
LEMMA BackSameText ==
    ASSUME NEW p \in Paths, files \in [Paths -> States], base \in [Paths -> States], Back(p)
    PROVE  AsText(files[p]) = AsText(base[p])
BY TextIsState DEF Back

\* A sequence of snapshots that is enough to undo the writes to the paths ps.
Sufficient(j, ps) ==
    /\ j \in Seq(Snapshots)
    /\ \A i \in DOMAIN j : j[i].before = AsText(base[j[i].path])
    /\ \A p \in Paths : Recorded(j, p) <=> p \in ps

\* How far a rollback has come: the files of the snapshots it has passed are back.
Restored ==
    doing = "rollback" =>
        \A i \in DOMAIN journal : i > rolling => Back(journal[i].path)

\* A patch begins by forgetting the outcome of the last validation.
PatchForgets == doing = "patch" => verdict = "none"

IInv == TypeOK /\ JournalSuffices /\ Restored /\ PatchForgets /\ LoopRestores

\* What recordEditSnapshot guarantees: the journal is sufficient for one path more.
LEMMA SnapshotSufficient ==
    ASSUME NEW j, NEW ps, NEW p \in Paths, files \in [Paths -> States],
           base \in [Paths -> States], Sufficient(j, ps), p \notin ps => Back(p)
    PROVE  Sufficient(Snapshot(j, p), ps \cup {p})
<1>1. CASE Recorded(j, p)
  BY <1>1 DEF Snapshot, Sufficient
<1>2. CASE ~Recorded(j, p)
  <2> DEFINE new == [path |-> p, before |-> AsText(files[p])]
             s == Append(j, new)
  <2>1. Snapshot(j, p) = s
    BY <1>2 DEF Snapshot
  <2>2. new \in Snapshots /\ new.path = p /\ new.before = AsText(base[p])
    <3>1. Back(p)
      BY <1>2 DEF Sufficient
    <3>2. AsText(files[p]) = AsText(base[p]) /\ AsText(files[p]) \in States
      BY <3>1, BackSameText, TextIsState
    <3> QED BY <3>2 DEF Snapshots
  <2>3. j \in Seq(Snapshots)
    BY DEF Sufficient
  <2> HIDE DEF new
  <2>4. /\ s \in Seq(Snapshots)
        /\ DOMAIN s = 1..(Len(j) + 1) /\ DOMAIN j = 1..Len(j) /\ Len(j) \in Nat
        /\ \A i \in DOMAIN j : s[i] = j[i]
        /\ s[Len(j) + 1] = new
    BY <2>2, <2>3
  <2>5. \A i \in DOMAIN s : s[i].before = AsText(base[s[i].path])
    <3> SUFFICES ASSUME NEW i \in DOMAIN s PROVE s[i].before = AsText(base[s[i].path])
      OBVIOUS
    <3>1. CASE i \in DOMAIN j
      BY <3>1, <2>4 DEF Sufficient
    <3>2. CASE i = Len(j) + 1
      BY <3>2, <2>2, <2>4
    <3> QED BY <3>1, <3>2, <2>4
  <2> HIDE DEF s
  <2>6. ASSUME NEW q \in Paths PROVE Recorded(s, q) <=> q \in ps \cup {p}
    <3>1. Recorded(s, q) <=> Recorded(j, q) \/ q = p
      <4>1. \A i \in DOMAIN s : i \in DOMAIN j \/ i = Len(j) + 1
        BY <2>4
      <4>2. DOMAIN j \subseteq DOMAIN s /\ Len(j) + 1 \in DOMAIN s
        BY <2>4
      <4> QED BY <2>2, <2>4, <4>1, <4>2 DEF Recorded
    <3> QED BY <3>1 DEF Sufficient
  <2> QED BY <2>1, <2>4, <2>5, <2>6 DEF Sufficient
<1> QED BY <1>1, <1>2

\* A worktree and an empty journal to begin with satisfy the invariant.
LEMMA Initially == Init => IInv
<1> SUFFICES ASSUME Init PROVE IInv
  OBVIOUS
<1>1. TypeOK
  BY DEF Init, TypeOK
<1> QED BY <1>1 DEF Init, IInv, JournalSuffices, Recorded, Back, Restored, PatchForgets, LoopRestores

\* A tool that records every path it writes, whatever it writes, keeps the journal
\* sufficient: the case of all the edit tools.
LEMMA WriteKeepsSufficient ==
    ASSUME NEW j, NEW ps \in SUBSET Paths, JournalSuffices, Sufficient(j, edited \cup ps),
           base' = base, journal' = j, edited' = edited \cup ps,
           files' \in [Paths -> States],
           \A p \in Paths : p \in ps \/ files'[p] = files[p]
    PROVE  JournalSuffices'
BY DEF Sufficient, JournalSuffices, Recorded, Back

\* Each edit tool, and each file of a patch, keeps the invariant.
LEMMA EditsKeep ==
    ASSUME IInv, NEW p \in Paths, NEW q \in Paths, NEW content \in Contents,
           \/ ReplaceInFile(p, content) \/ CreateFileGuarded(p, content)
           \/ PatchFile(p, content) \/ RenameFileGuarded(p, q)
    PROVE  IInv'
<1>1. /\ Sufficient(journal, edited) /\ JournalSuffices
      /\ files \in [Paths -> States] /\ base \in [Paths -> States]
      /\ edited \subseteq Paths /\ doing # "rollback" /\ rolling = 0
      /\ \A x \in Paths \ edited : Back(x)
  BY DEF IInv, TypeOK, JournalSuffices, Sufficient,
         ReplaceInFile, CreateFileGuarded, PatchFile, RenameFileGuarded
<1>2. content \in States /\ Missing \in States
  BY DEF States
<1>3. CASE ReplaceInFile(p, content) \/ CreateFileGuarded(p, content) \/ PatchFile(p, content)
  <2>1. /\ journal' = Snapshot(journal, p) /\ files' = [files EXCEPT ![p] = content]
        /\ edited' = edited \cup {p}
        /\ base' = base /\ faults' = faults /\ rolling' = rolling
    BY <1>3 DEF ReplaceInFile, CreateFileGuarded, PatchFile, Put, Keep
  <2>2. Sufficient(Snapshot(journal, p), edited \cup {p})
    BY <1>1, SnapshotSufficient
  <2>3. files' \in [Paths -> States] /\ \A x \in Paths : x \in {p} \/ files'[x] = files[x]
    BY <1>1, <1>2, <2>1
  <2>4. JournalSuffices'
    <3> DEFINE j == Snapshot(journal, p)
    <3>1. Sufficient(j, edited \cup {p}) /\ journal' = j
      BY <2>1, <2>2
    <3> HIDE DEF j
    <3> QED BY <1>1, <2>1, <2>3, <3>1, WriteKeepsSufficient
  <2>5. /\ doing' \in {"edits", "patch"} /\ patch' \in Nat /\ (doing' = "patch" <=> patch' > 0)
        /\ verdict' = "none"
    BY <1>3 DEF ReplaceInFile, CreateFileGuarded, PatchFile, IInv, TypeOK, PatchForgets
  <2>6. journal' \in Seq(Snapshots)
    BY <2>1, <2>2 DEF Sufficient
  <2>7. TypeOK'
    BY <1>1, <2>1, <2>3, <2>5, <2>6 DEF IInv, TypeOK
  <2> QED BY <2>4, <2>5, <2>7 DEF IInv, Restored, PatchForgets, LoopRestores
<1>4. CASE RenameFileGuarded(p, q)
  <2> DEFINE j == Snapshot(journal, p)
             m == Snapshot(j, q)
  <2>1. /\ journal' = m
        /\ files' = [files EXCEPT ![p] = Missing, ![q] = files[p]]
        /\ edited' = edited \cup {p, q}
        /\ base' = base /\ faults' = faults /\ rolling' = rolling
        /\ doing' = doing /\ patch' = patch /\ verdict' = "none"
    BY <1>4 DEF RenameFileGuarded, SnapshotsOfRename, Keep
  <2>2. Sufficient(j, edited \cup {p})
    BY <1>1, SnapshotSufficient
  <2> HIDE DEF j
  <2>3. Sufficient(m, (edited \cup {p}) \cup {q})
    <3>1. q \notin edited \cup {p} => Back(q)
      BY <1>1
    <3> QED BY <1>1, <2>2, <3>1, SnapshotSufficient
  <2> HIDE DEF m
  <2>4. files' \in [Paths -> States] /\ \A x \in Paths : x \in {p, q} \/ files'[x] = files[x]
    BY <1>1, <1>2, <2>1
  <2>5. JournalSuffices'
    <3>1. edited \cup {p, q} = (edited \cup {p}) \cup {q} /\ {p, q} \in SUBSET Paths
      OBVIOUS
    <3>2. Sufficient(m, edited \cup {p, q})
      BY <2>3, <3>1
    <3> QED BY <1>1, <2>1, <2>4, <3>1, <3>2, WriteKeepsSufficient
  <2>6. journal' \in Seq(Snapshots)
    BY <2>1, <2>3 DEF Sufficient
  <2>7. TypeOK'
    BY <1>1, <2>1, <2>4, <2>6 DEF IInv, TypeOK
  <2> QED BY <1>1, <2>1, <2>5, <2>7 DEF IInv, Restored, PatchForgets, LoopRestores
<1> QED BY <1>3, <1>4

\* One write of a rollback: a file that tools wrote is back, and the others are left.
LEMMA WriteBackRestores ==
    ASSUME IInv, RollBackFile
    PROVE  /\ rolling \in DOMAIN journal /\ journal[rolling].path \in edited
           /\ files' = [files EXCEPT ![journal[rolling].path] = AsText(base[journal[rolling].path])]
           /\ files' \in [Paths -> States]
<1>1. /\ journal \in Seq(Snapshots) /\ files \in [Paths -> States] /\ base \in [Paths -> States]
      /\ rolling \in 0..Len(journal) /\ rolling > 0
  BY DEF IInv, TypeOK, RollBackFile, SnapshotsLeft
<1>2. rolling \in DOMAIN journal
  BY <1>1
<1>3. journal[rolling] \in Snapshots
  BY <1>1, <1>2
<1>4. journal[rolling].path \in Paths
  BY <1>3 DEF Snapshots
<1>5. journal[rolling].before = AsText(base[journal[rolling].path])
  BY <1>2 DEF IInv, JournalSuffices
<1>6. files' = [files EXCEPT ![journal[rolling].path] = AsText(base[journal[rolling].path])]
  BY <1>5 DEF RollBackFile, WriteBack, Put
<1>7. journal[rolling].path \in edited
  BY <1>2, <1>4 DEF IInv, JournalSuffices, Recorded
<1>8. AsText(base[journal[rolling].path]) \in States
  BY <1>1, <1>4, TextIsState
<1> QED BY <1>1, <1>2, <1>4, <1>6, <1>7, <1>8

\* One write of a rollback takes nothing back.
LEMMA WriteBackProgress ==
    ASSUME IInv, RollBackFile, NEW p \in Paths
    PROVE  /\ Back(p) \/ p = journal[rolling].path => Back(p)'
           /\ p \notin edited => files'[p] = files[p]
<1>1. /\ files' = [files EXCEPT ![journal[rolling].path] = AsText(base[journal[rolling].path])]
      /\ files \in [Paths -> States] /\ base' = base /\ journal[rolling].path \in edited
  BY WriteBackRestores DEF IInv, TypeOK, RollBackFile
<1> QED BY <1>1 DEF Back

\* The end of a rollback: every file is back.
LEMMA RollbackRestores ==
    ASSUME IInv, RollbackDone
    PROVE  \A p \in Paths : Back(p)
<1>1. rolling = 0 /\ journal \in Seq(Snapshots) /\ doing = "rollback"
  BY DEF IInv, TypeOK, RollbackDone, SnapshotsLeft
<1>2. \A i \in DOMAIN journal : i > 0
  BY <1>1
<1>3. ASSUME NEW p \in Paths PROVE Back(p)
  <2>1. CASE Recorded(journal, p)
    <3>1. PICK i \in DOMAIN journal : journal[i].path = p
      BY <2>1 DEF Recorded
    <3> QED BY <1>1, <1>2, <3>1 DEF IInv, Restored
  <2>2. CASE ~Recorded(journal, p)
    BY <2>2 DEF IInv, JournalSuffices
  <2> QED BY <2>1, <2>2
<1> QED BY <1>3

\* A validation command, whatever it writes, keeps the invariant.
LEMMA ValidateKeeps ==
    ASSUME IInv, NEW outcome \in {"passed", "failed"}, NEW after \in [Paths -> States],
           Validate(outcome, after)
    PROVE  IInv'
<1>1. /\ files' = after /\ verdict' = outcome /\ doing = "edits"
      /\ base' = [p \in Paths |-> IF p \in edited THEN base[p] ELSE after[p]]
      /\ UNCHANGED <<journal, patch, faults, edited>>
  BY DEF Validate
<1>2. /\ journal \in Seq(Snapshots) /\ patch = 0 /\ rolling = 0 /\ faults \in Nat
      /\ base \in [Paths -> States] /\ edited \subseteq Paths
      /\ Len(journal) \in Nat /\ DOMAIN journal = 1..Len(journal)
  BY <1>1 DEF IInv, TypeOK
<1>3. \/ doing' = "rollback" /\ rolling' = Len(journal) /\ outcome = "failed"
      \/ doing' = "edits" /\ rolling' = 0 /\ (outcome = "failed" => journal = <<>>)
  BY <1>1, <1>2 DEF Validate
<1>4. base' \in [Paths -> States]
  BY <1>1, <1>2
<1>5. TypeOK'
  BY <1>1, <1>2, <1>3, <1>4 DEF TypeOK
<1>6. \A p \in Paths \ edited : Back(p)'
  BY <1>1, <1>2 DEF Back
<1>7. \A i \in DOMAIN journal : base'[journal[i].path] = base[journal[i].path]
  <2> SUFFICES ASSUME NEW i \in DOMAIN journal
               PROVE  base'[journal[i].path] = base[journal[i].path]
    OBVIOUS
  <2>0. journal[i] \in Snapshots
    BY <1>2
  <2>1. journal[i].path \in Paths
    BY <2>0 DEF Snapshots
  <2>2. journal[i].path \in edited
    BY <2>1 DEF IInv, JournalSuffices, Recorded
  <2> QED BY <1>1, <2>1, <2>2
<1>8. JournalSuffices'
  BY <1>1, <1>6, <1>7 DEF IInv, JournalSuffices, Recorded
<1>9. Restored'
  BY <1>1, <1>2, <1>3 DEF Restored
<1>10. LoopRestores'
  <2>1. journal = <<>> => edited = {}
    BY <1>2 DEF IInv, JournalSuffices, Recorded
  <2> QED BY <1>1, <1>3, <1>6, <2>1 DEF LoopRestores
<1> QED BY <1>1, <1>3, <1>5, <1>8, <1>9, <1>10 DEF IInv, PatchForgets

\* The steps of a rollback keep the invariant.
LEMMA RollbackKeeps ==
    ASSUME IInv, RollBackFile \/ RollbackDone \/ RollbackFails
    PROVE  IInv'
<1>1. CASE RollBackFile
  <2>1. rolling \in DOMAIN journal /\ files' \in [Paths -> States]
    BY <1>1, WriteBackRestores
  <2>2. /\ UNCHANGED <<journal, patch, doing, faults, base, edited, verdict>>
        /\ rolling' = rolling - 1 /\ doing = "rollback"
        /\ journal \in Seq(Snapshots) /\ rolling \in 0..Len(journal) /\ rolling > 0
    BY <1>1 DEF RollBackFile, SnapshotsLeft, IInv, TypeOK
  <2>3. rolling' \in 0..Len(journal)
    BY <2>2
  <2>4. TypeOK'
    BY <2>1, <2>2, <2>3 DEF IInv, TypeOK
  <2>5. \A p \in Paths : Back(p) \/ p = journal[rolling].path => Back(p)'
    BY <1>1, WriteBackProgress
  <2>6. JournalSuffices'
    BY <2>2, <2>5 DEF IInv, JournalSuffices, Recorded
  <2>7. ASSUME NEW i \in DOMAIN journal, i > rolling - 1
        PROVE Back(journal[i].path)'
    <3>1. i \in 1..Len(journal) /\ journal[i].path \in Paths
      <4>1. i \in 1..Len(journal)
        BY <2>2
      <4>2. journal[i] \in Snapshots
        BY <2>2, <4>1
      <4> QED BY <4>1, <4>2 DEF Snapshots
    <3>2. i = rolling \/ i > rolling
      BY <2>2, <2>7, <3>1
    <3>3. Back(journal[i].path) \/ journal[i].path = journal[rolling].path
      BY <2>2, <3>2 DEF IInv, Restored
    <3>4. ASSUME NEW p \in Paths, p = journal[i].path PROVE Back(p)'
      BY <2>5, <3>3, <3>4
    <3> QED BY <2>2, <3>1, <3>4 DEF Back
  <2>8. Restored'
    BY <2>2, <2>7 DEF Restored, Back
  <2> QED BY <2>2, <2>4, <2>6, <2>8 DEF IInv, PatchForgets, LoopRestores
<1>2. CASE RollbackDone
  <2>1. \A p \in Paths : Back(p)
    BY <1>2, RollbackRestores
  <2>2. /\ journal' = <<>> /\ doing' = "edits" /\ rolling' = 0 /\ edited' = {}
        /\ UNCHANGED <<files, patch, faults, base, verdict>>
        /\ doing = "rollback"
    BY <1>2 DEF RollbackDone
  <2>3. TypeOK'
    BY <2>2 DEF IInv, TypeOK
  <2>4. \A p \in Paths : Back(p)'
    BY <2>1, <2>2 DEF Back
  <2> QED BY <2>2, <2>3, <2>4
          DEF IInv, JournalSuffices, Recorded, Restored, PatchForgets, LoopRestores
<1>3. CASE RollbackFails
  <2>1. /\ doing' = "edits" /\ rolling' = 0 /\ verdict' = "none" /\ faults' = faults + 1
        /\ UNCHANGED <<files, journal, patch, base, edited>>
        /\ doing = "rollback"
    BY <1>3 DEF RollbackFails
  <2>2. TypeOK'
    BY <2>1 DEF IInv, TypeOK
  <2> QED BY <2>1, <2>2
          DEF IInv, JournalSuffices, Recorded, Back, Restored, PatchForgets, LoopRestores
<1> QED BY <1>1, <1>2, <1>3

\* Every step keeps the invariant.
LEMMA StepKeeps == IInv /\ [Next]_vars => IInv'
<1> SUFFICES ASSUME IInv, [Next]_vars PROVE IInv'
  OBVIOUS
<1>1. ASSUME NEW p \in Paths, NEW content \in Texts,
             ReplaceInFile(p, content) \/ CreateFileGuarded(p, content) \/ PatchFile(p, content)
      PROVE IInv'
  BY <1>1, EditsKeep DEF Texts
<1>2. ASSUME NEW p \in Paths, NEW q \in Paths, RenameFileGuarded(p, q) PROVE IInv'
  <2>2. CASE Contents # {}
    <3>1. PICK content \in Contents : TRUE
      BY <2>2
    <3> QED BY <1>2, <3>1, EditsKeep
  <2>3. CASE Contents = {}
    <3>1. files[p] = Missing
      BY <2>3 DEF IInv, TypeOK, States
    <3> QED BY <1>2, <3>1 DEF RenameFileGuarded, Exists
  <2> QED BY <2>2, <2>3
<1>3. ASSUME NEW n \in 1..MaxPatchFiles, ApplyUnifiedPatch(n) PROVE IInv'
  <2>1. /\ patch' = n /\ doing' = "patch" /\ verdict' = "none" /\ doing = "edits"
        /\ UNCHANGED <<files, journal, rolling, faults, base, edited>>
    BY <1>3 DEF ApplyUnifiedPatch, Keep
  <2>2. n \in Nat /\ n > 0
    BY JournalAssumption
  <2>3. TypeOK'
    BY <2>1, <2>2 DEF IInv, TypeOK
  <2> QED BY <2>1, <2>3
          DEF IInv, JournalSuffices, Recorded, Back, Restored, PatchForgets, LoopRestores
<1>4. CASE PatchStops
  <2>1. /\ patch' = 0 /\ doing' = "edits" /\ doing = "patch"
        /\ UNCHANGED <<files, journal, rolling, faults, base, edited, verdict>>
    BY <1>4 DEF PatchStops, Keep
  <2>2. TypeOK'
    BY <2>1 DEF IInv, TypeOK
  <2> QED BY <2>1, <2>2
          DEF IInv, JournalSuffices, Recorded, Back, Restored, PatchForgets, LoopRestores
<1>5. CASE \/ \E outcome \in {"passed", "failed"}, after \in [Paths -> States] :
                 Validate(outcome, after)
           \/ RollBackFile \/ RollbackDone \/ RollbackFails
  BY <1>5, ValidateKeeps, RollbackKeeps
<1>6. CASE CrashAndResume
  <2>1. /\ faults' = faults + 1 /\ journal' = <<>> /\ patch' = 0 /\ rolling' = 0
        /\ doing' = "edits" /\ base' = files /\ edited' = {} /\ verdict' = "none"
        /\ files' = files
    BY <1>6 DEF CrashAndResume
  <2>2. TypeOK'
    BY <2>1 DEF IInv, TypeOK
  <2> QED BY <2>1, <2>2
          DEF IInv, JournalSuffices, Recorded, Back, Restored, PatchForgets, LoopRestores
<1>7. CASE UNCHANGED vars
  BY <1>7 DEF vars, IInv, TypeOK, JournalSuffices, Recorded, Back, Restored, PatchForgets, LoopRestores
<1> QED BY <1>1, <1>2, <1>3, <1>4, <1>5, <1>6, <1>7 DEF Next

\* At every moment of every execution, whatever the validation commands write, the
\* journal has what it takes to undo the tools: the text of each file they wrote.
THEOREM JournalAlwaysSuffices == Spec => []JournalSuffices
<1>1. IInv => JournalSuffices
  BY DEF IInv
<1> QED BY <1>1, Initially, StepKeeps, PTL DEF Spec

\* A loop that goes on after a failed validation does so with every file as it would be
\* without the loop's tools, except that a file that is not UTF-8 may have become what
\* UTF-8 makes of it.
THEOREM FailedValidationRollsBack == Spec => []LoopRestores
<1>1. IInv => LoopRestores
  BY DEF IInv
<1> QED BY <1>1, Initially, StepKeeps, PTL DEF Spec

\* The variables keep their types.
THEOREM JournalTypeCorrect == Spec => []TypeOK
<1>1. IInv => TypeOK
  BY DEF IInv
<1> QED BY <1>1, Initially, StepKeeps, PTL DEF Spec

\* A rollback never undoes what it has restored, nor touches a file no tool wrote.
THEOREM RollbackOnlyRestores == Spec => RollbackMakesProgress
<1>1. ASSUME IInv, [Next]_vars
      PROVE [doing = "rollback" /\ doing' = "rollback" =>
               \A p \in Paths : /\ Back(p) => Back(p)'
                                /\ p \notin edited => files'[p] = files[p]]_vars
  <2> SUFFICES ASSUME doing = "rollback", doing' = "rollback", Next, NEW p \in Paths
               PROVE (Back(p) => Back(p)') /\ (p \notin edited => files'[p] = files[p])
    BY <1>1
  <2>1. RollBackFile
    BY DEF Next, ReplaceInFile, CreateFileGuarded, PatchFile, RenameFileGuarded,
           ApplyUnifiedPatch, PatchStops, Validate, RollbackDone, RollbackFails, CrashAndResume
  <2> QED BY <1>1, <2>1, WriteBackProgress
<1> QED BY <1>1, Initially, StepKeeps, PTL DEF Spec, RollbackMakesProgress
=============================================================================
