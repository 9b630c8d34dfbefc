---------------------------- MODULE EditJournal ----------------------------
(***************************************************************************)
(* The edit tools of the gateway (gateway/src/tools/workspaceTools.ts) and  *)
(* the journal the agent loop keeps for them: before a tool first writes a  *)
(* file it records what the file was, and when a validation command fails   *)
(* the loop (agent/toolLoop.ts) writes everything recorded back.            *)
(*                                                                         *)
(* The journal lives in the loop's memory and the files in its worktree, so *)
(* a crash of the gateway loses the one and keeps the other.  It holds text: *)
(* every read is decoded as UTF-8 and every write encoded again, and a file  *)
(* that is not UTF-8 is not the same after it.                               *)
(***************************************************************************)
EXTENDS Naturals, Sequences

CONSTANTS
    Paths,          \* the files of the worktree
    Contents,       \* what a file can contain
    Missing,        \* the content of a path where no file is
    Utf8,           \* what becomes of a content that is read and written as UTF-8
    MaxPatchFiles,  \* bound: files in one unified patch
    MaxFaults       \* bound: crashes, calls of the loop that throw, failed writes

ASSUME JournalAssumption ==
    /\ Missing \notin Contents
    /\ Utf8 \in [Contents -> Contents]
    /\ \A c \in Contents : Utf8[Utf8[c]] = Utf8[c]
    /\ MaxPatchFiles \in Nat /\ MaxFaults \in Nat

States == Contents \cup {Missing}
\* What readFile and writeFile with "utf8" make of a file, and what they leave alone.
AsText(c) == IF c = Missing THEN Missing ELSE Utf8[c]
Texts == {c \in Contents : Utf8[c] = c}
Snapshots == [path : Paths, before : States]

VARIABLES
    files,    \* the worktree
    journal,  \* editJournal
    patch,    \* files a unified patch still has to go through
    rolling,  \* snapshots a rollback still has to write back
    doing,    \* "edits", a "patch" or a "rollback"
    faults,
    base,     \* history: the worktree as it would be without the loop's tools: as the
              \* loop found it, and what its commands have put there since
    edited,   \* history: the paths tools have written since the last rollback
    verdict   \* history: the outcome of the last validation command

vars == <<files, journal, patch, rolling, doing, faults, base, edited, verdict>>

Exists(p) == files[p] # Missing
Recorded(j, p) == \E i \in DOMAIN j : j[i].path = p

\* Mutant: every write is recorded, not only the first to a file.
SnapshotEveryWrite(j, p) == Append(j, [path |-> p, before |-> AsText(files[p])])
\* recordEditSnapshot
Snapshot(j, p) ==
    IF Recorded(j, p) THEN j ELSE Append(j, [path |-> p, before |-> AsText(files[p])])

Put(p, content) == files' = [files EXCEPT ![p] = content]
Keep == UNCHANGED <<rolling, faults, base>>
----------------------------------------------------------------------------
(* The edit tools *)

\* replaceInFile and editLineRange
ReplaceInFile(p, content) ==
    /\ doing = "edits"
    /\ Exists(p)
    /\ journal' = Snapshot(journal, p)
    /\ Put(p, content) /\ edited' = edited \cup {p}
    /\ verdict' = "none"
    /\ UNCHANGED <<patch, doing>> /\ Keep

CreateFileGuarded(p, content) ==
    /\ doing = "edits"
    /\ ~Exists(p)
    /\ journal' = Snapshot(journal, p)
    /\ Put(p, content) /\ edited' = edited \cup {p}
    /\ verdict' = "none"
    /\ UNCHANGED <<patch, doing>> /\ Keep

\* Mutant: only the path a file is renamed to is recorded.
SnapshotsOfDestination(p, q) == Snapshot(journal, q)
\* Both ends of a rename are recorded: as text, though it is bytes that move.
SnapshotsOfRename(p, q) == Snapshot(Snapshot(journal, p), q)

RenameFileGuarded(p, q) ==
    /\ doing = "edits"
    /\ Exists(p) /\ ~Exists(q)
    /\ journal' = SnapshotsOfRename(p, q)
    /\ files' = [files EXCEPT ![p] = Missing, ![q] = files[p]]
    /\ edited' = edited \cup {p, q}
    /\ verdict' = "none"
    /\ UNCHANGED <<patch, doing>> /\ Keep

\* applyUnifiedPatch goes through its files one by one ...
ApplyUnifiedPatch(n) ==
    /\ doing = "edits"
    /\ patch' = n /\ doing' = "patch"
    /\ verdict' = "none"
    /\ UNCHANGED <<files, journal, edited>> /\ Keep

PatchFile(p, content) ==
    /\ doing = "patch"
    /\ journal' = Snapshot(journal, p)
    /\ Put(p, content) /\ edited' = edited \cup {p}
    /\ patch' = patch - 1
    /\ doing' = IF patch = 1 THEN "edits" ELSE "patch"
    /\ UNCHANGED verdict /\ Keep

\* ... and stops at one that is blocked, missing or does not match, leaving what
\* it has written so far in place.
PatchStops ==
    /\ doing = "patch"
    /\ patch' = 0 /\ doing' = "edits"
    /\ UNCHANGED <<files, journal, edited, verdict>> /\ Keep
----------------------------------------------------------------------------
(* Validation and rollback *)

\* A validation command (a build, a test) may leave the worktree as it likes, and no
\* snapshot is taken of what it writes.  The loop rolls back when it failed and there
\* is something to roll back.
Validate(outcome, after) ==
    /\ doing = "edits"
    /\ files' = after
    /\ base' = [p \in Paths |-> IF p \in edited THEN base[p] ELSE after[p]]
    /\ verdict' = outcome
    /\ IF outcome = "failed" /\ journal # <<>>
       THEN doing' = "rollback" /\ rolling' = Len(journal)
       ELSE UNCHANGED <<doing, rolling>>
    /\ UNCHANGED <<journal, patch, faults, edited>>

\* Mutant: the first snapshot taken is never reached.
SnapshotsLeftButFirst == rolling > 1
SnapshotsLeft == rolling > 0

WriteBack == Put(journal[rolling].path, journal[rolling].before)

\* rollbackWorkspaceEditJournal: last snapshot first, the journal emptied at the
\* end only.
RollBackFile ==
    /\ doing = "rollback" /\ SnapshotsLeft
    /\ WriteBack
    /\ rolling' = rolling - 1
    /\ UNCHANGED <<journal, patch, doing, faults, base, edited, verdict>>

RollbackDone ==
    /\ doing = "rollback" /\ ~SnapshotsLeft
    /\ journal' = <<>>
    /\ doing' = "edits" /\ rolling' = 0
    /\ edited' = {}
    /\ UNCHANGED <<files, patch, faults, base, verdict>>

\* A write of the rollback throws: the loop reports ROLLBACK_FAILED_V1 and goes on
\* with the journal as it was.
RollbackFails ==
    /\ doing = "rollback" /\ SnapshotsLeft
    /\ faults < MaxFaults
    /\ faults' = faults + 1
    /\ doing' = "edits" /\ rolling' = 0
    /\ verdict' = "none"
    /\ UNCHANGED <<files, journal, patch, base, edited>>

\* The gateway dies or the loop throws, and the session is resumed in the same
\* worktree with a new journal.
CrashAndResume ==
    /\ faults < MaxFaults
    /\ faults' = faults + 1
    /\ journal' = <<>>
    /\ patch' = 0 /\ rolling' = 0 /\ doing' = "edits"
    /\ base' = files /\ edited' = {}
    /\ verdict' = "none"
    /\ UNCHANGED files
----------------------------------------------------------------------------
Init ==
    /\ files \in [Paths -> States]
    /\ journal = <<>>
    /\ patch = 0 /\ rolling = 0 /\ doing = "edits"
    /\ faults = 0
    /\ base = files /\ edited = {}
    /\ verdict = "none"

Next ==
    \/ \E p \in Paths, content \in Texts :
          ReplaceInFile(p, content) \/ CreateFileGuarded(p, content) \/ PatchFile(p, content)
    \/ \E p, q \in Paths : RenameFileGuarded(p, q)
    \/ \E n \in 1..MaxPatchFiles : ApplyUnifiedPatch(n)
    \/ PatchStops
    \/ \E outcome \in {"passed", "failed"}, after \in [Paths -> States] : Validate(outcome, after)
    \/ RollBackFile \/ RollbackDone \/ RollbackFails
    \/ CrashAndResume

Spec == Init /\ [][Next]_vars
----------------------------------------------------------------------------
(* Properties *)

\* Every variable holds a value of its type, and a rollback or a patch under way
\* is within its bounds.
TypeOK ==
    /\ files \in [Paths -> States]
    /\ journal \in Seq(Snapshots)
    /\ patch \in Nat /\ rolling \in 0..Len(journal)
    /\ doing \in {"edits", "patch", "rollback"}
    /\ doing # "rollback" => rolling = 0
    /\ doing = "patch" <=> patch > 0
    /\ faults \in Nat
    /\ base \in [Paths -> States] /\ edited \subseteq Paths
    /\ verdict \in {"none", "passed", "failed"}

\* A file is as it would be without the loop's tools, or what UTF-8 makes of that: the
\* same, except for a file that is not text.
Back(p) == files[p] \in {base[p], AsText(base[p])}

\* At every moment, in the middle of a patch or of a rollback too, the journal
\* holds what it takes to undo the tools, whatever commands write in between: a
\* snapshot of each path tools wrote, with the text it would have without them, and of
\* no other path.
JournalSuffices ==
    /\ \A p \in Paths : Recorded(journal, p) <=> p \in edited
    /\ \A i \in DOMAIN journal : journal[i].before = AsText(base[journal[i].path])
    /\ \A p \in Paths \ edited : Back(p)

\* When a validation has failed, whatever edits, patches that stopped half-way,
\* commands, earlier rollbacks and failed rollbacks came before, every file the loop
\* goes on with is back, and what the commands wrote elsewhere is still there.
LoopRestores ==
    doing = "edits" /\ verdict = "failed" => \A p \in Paths : Back(p)

\* No write of a rollback undoes what is restored already, so that a rollback that
\* fails half-way can be repeated, and none touches a file that no tool wrote.
RollbackMakesProgress ==
    [][doing = "rollback" /\ doing' = "rollback" =>
          \A p \in Paths : /\ Back(p) => Back(p)'
                           /\ p \notin edited => files'[p] = files[p]]_vars
=============================================================================
