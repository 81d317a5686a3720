---- MODULE Checkpoints ----
(***************************************************************************)
(* Task checkpoints, commits and undo (packages/git/src/service.ts,        *)
(* main/git-wiring.ts, storage/src/repositories/checkpoints.ts) and the    *)
(* change tracker that says which paths are a task's                       *)
(* (core/src/change-tracker.ts), in the repository of one project that the *)
(* user works in at the same time.                                         *)
(*                                                                         *)
(* Every git command is a process of its own and one step; between two     *)
(* commands of one operation anything else may happen, the exit of the     *)
(* application included.  Large files, hooks that reject a commit and a    *)
(* detached HEAD are left out.  A content is a number, 0 for no file.      *)
(***************************************************************************)
EXTENDS Naturals, Sequences

CONSTANTS
  Task, Path, Branch,
  Mine,       \* a content that only tasks write
  Yours,      \* contents that only the user writes
  MaxActs,    \* bound: what the user does, an exit of the application included
  MaxTools,   \* bound: tool calls of each task
  MaxUndos    \* bound: undo calls

ASSUME ContentAssumption == Mine \in Nat \ {0, 1} /\ Yours \subseteq Nat \ {1, Mine}
ASSUME BranchAssumption == Branch # {}
ASSUME BoundsAssumption == MaxActs \in Nat /\ MaxTools \in Nat /\ MaxUndos \in Nat

VARIABLES
  work, index,   \* the working tree and the index
  commits,       \* commit objects: tree and parent
  branch, head,  \* refs/heads/*, HEAD
  merging,       \* a merge or rebase is under way
  base,          \* refs/autoappz/checkpoints/*/base, 0 for none
  saved,         \* checkpoints table
  changes,       \* task_changes table: the paths of a task
  firstSeen,     \* pre-images of this process
  job,           \* what the task's runner is doing
  undo,          \* the undo of a task that is under way
  userCommit,    \* commitAll() has staged
  acts, undos,   \* counted by the bounds
  \* History.
  spared         \* paths that were changed since an undo of the task looked at them

repository == <<work, index, commits, branch, head, merging, base>>
tables     == <<saved, changes>>
taskApart  == <<undo, userCommit, acts, undos, spared>>
repositoryVars == <<repository, tables, firstSeen, job, taskApart>>

FileContent == {0, 1, Mine} \cup Yours
Tree    == [Path -> FileContent]
CommitId  == DOMAIN commits

TreeOf(c) == commits[c].tree
Tip       == branch[head]

IdleJob     == [at |-> "idle", path |-> {}, head |-> 0, aim |-> head, sha |-> 0, tools |-> 0]
NoRow    == [present |-> FALSE, result |-> 0]
NotUndoing == [at |-> "none", left |-> {}, path |-> {}, force |-> FALSE, result |-> 0]
Unseen   == [p \in Path |-> {}]

RepositoryTypeOK ==
  /\ work \in Tree /\ index \in Tree
  /\ \A c \in CommitId : TreeOf(c) \in Tree /\ commits[c].parent \in 0..(c - 1)
  /\ branch \in [Branch -> CommitId] /\ head \in Branch /\ base \in [Task -> CommitId \cup {0}]
  \* A row is the sign that there is something to restore from.
  /\ \A t \in Task : saved[t].present => base[t] # 0
  /\ \A t \in Task : saved[t].result # 0 => saved[t].present /\ saved[t].result \in CommitId
  /\ changes \in [Task -> SUBSET Path] /\ firstSeen \in [Task -> [Path -> SUBSET FileContent]]
  /\ job \in [Task -> [at : {"idle", "tested", "built", "ref", "ready", "tool", "written",
                             "headed", "staged", "aimed", "moved", "over"},
                       path : SUBSET Path, head : Nat, aim : Branch, sha : Nat, tools : 0..MaxTools]]

RepositoryInit ==
  /\ work = [p \in Path |-> 1] /\ index = work
  /\ commits = <<[tree |-> work, parent |-> 0]>>
  /\ branch = [b \in Branch |-> 1] /\ head = CHOOSE b \in Branch : TRUE
  /\ merging = FALSE /\ base = [t \in Task |-> 0]
  /\ saved = [t \in Task |-> NoRow] /\ changes = [t \in Task |-> {}]
  /\ firstSeen = [t \in Task |-> Unseen] /\ job = [t \in Task |-> IdleJob]
  /\ undo = [t \in Task |-> NotUndoing] /\ userCommit = FALSE
  /\ acts = 0 /\ undos = 0 /\ spared = [t \in Task |-> {}]

JobAt(t, at) == job' = [job EXCEPT ![t].at = at]
Committed(tree, parent) == commits' = Append(commits, [tree |-> tree, parent |-> parent])
Changed(paths) == spared' = [t \in Task |-> spared[t] \cup paths]

-----------------------------------------------------------------------------
(* checkpoint(), of the runner before it edits                              *)

jobOnly == <<repository, tables, firstSeen, taskApart>>

\* status(): refused while a merge is under way, and the task with it.
TestCheckpoint(t) ==
  /\ job[t].at = "idle"
  /\ JobAt(t, IF merging THEN "over" ELSE "tested")
  /\ UNCHANGED jobOnly

\* read-tree, add -A, write-tree and commit-tree, in a temporary index.
Snapshot(t) ==
  /\ job[t].at = "tested"
  /\ Committed(work, Tip)
  /\ job' = [job EXCEPT ![t].at = "built", ![t].sha = Len(commits) + 1]
  /\ UNCHANGED <<work, index, branch, head, merging, base, tables, firstSeen, taskApart>>

\* Fault: the row is written before the ref.
KeepSnapshotFault(t) ==
  /\ job[t].at = "built" /\ JobAt(t, "ref")
  /\ saved' = [saved EXCEPT ![t] = [present |-> TRUE, result |-> 0]]
  /\ UNCHANGED <<repository, changes, firstSeen, taskApart>>

KeepSnapshot(t) ==
  /\ job[t].at = "built"
  /\ base' = [base EXCEPT ![t] = job[t].sha] /\ JobAt(t, "ref")
  /\ UNCHANGED <<work, index, commits, branch, head, merging, tables, firstSeen, taskApart>>

\* insert() of the row, when the command has returned.
RecordSnapshot(t) ==
  /\ job[t].at = "ref"
  /\ saved' = [saved EXCEPT ![t] = [present |-> TRUE, result |-> 0]] /\ JobAt(t, "ready")
  /\ UNCHANGED <<repository, changes, firstSeen, taskApart>>

-----------------------------------------------------------------------------
(* Tool calls, between ChangeTracker.before() and after()                   *)

Touch(t, p) ==
  /\ job[t].at = "ready" /\ job[t].tools < MaxTools
  /\ job' = [job EXCEPT ![t].at = "tool", ![t].path = {p}, ![t].tools = @ + 1]
  /\ firstSeen' = [firstSeen EXCEPT ![t][p] = IF @ = {} THEN {work[p]} ELSE @]
  /\ UNCHANGED <<repository, tables, taskApart>>

\* The tool writes or deletes the file, or fails.
WriteFile(t, c) ==
  /\ job[t].at = "tool" /\ c \in {0, Mine}
  /\ work' = [p \in Path |-> IF p \in job[t].path THEN c ELSE work[p]] /\ JobAt(t, "written")
  /\ Changed(job[t].path)
  /\ UNCHANGED <<index, commits, branch, head, merging, base, tables, firstSeen, undo, userCommit,
                 acts, undos>>

\* after(): a file that is as it was first seen leaves the table as it is.
Compare(t) ==
  /\ job[t].at \in {"tool", "written"} /\ JobAt(t, "ready")
  /\ changes' = [changes EXCEPT ![t] = @ \cup {p \in job[t].path : {work[p]} # firstSeen[t][p]}]
  /\ UNCHANGED <<repository, saved, firstSeen, taskApart>>

-----------------------------------------------------------------------------
(* commit(), when the task is done                                          *)

TestCommit(t) ==
  /\ job[t].at = "ready"
  /\ IF changes[t] = {} \/ ~saved[t].present \/ merging THEN JobAt(t, "over")
     ELSE job' = [job EXCEPT ![t].at = "headed", ![t].head = Tip]
  /\ UNCHANGED jobOnly

\* Fault: what the user has staged is committed with it.
TaskTreeFault(t) == [p \in Path |-> IF p \in changes[t] THEN work[p] ELSE index[p]]

\* The task's paths on top of the head that was read, in a temporary index.
TaskTree(t) == [p \in Path |-> IF p \in changes[t] THEN work[p] ELSE TreeOf(job[t].head)[p]]

StageTask(t) ==
  /\ job[t].at = "headed"
  /\ IF TaskTree(t) = TreeOf(job[t].head)
     THEN job' = [job EXCEPT ![t].at = "moved", ![t].sha = 0] /\ UNCHANGED commits
     ELSE /\ Committed(TaskTree(t), job[t].head)
          /\ job' = [job EXCEPT ![t].at = "staged", ![t].sha = Len(commits) + 1]
  /\ UNCHANGED <<work, index, branch, head, merging, base, tables, firstSeen, taskApart>>

\* currentBranch(), read only now.
Aim(t) ==
  /\ job[t].at = "staged"
  /\ job' = [job EXCEPT ![t].at = "aimed", ![t].aim = head]
  /\ UNCHANGED jobOnly

\* Fault: update-ref without the old value.
MoveBranchFault(t) ==
  /\ job[t].at = "aimed"
  /\ branch' = [branch EXCEPT ![job[t].aim] = job[t].sha]
  /\ index' = [p \in Path |-> IF p \in changes[t] THEN work[p] ELSE index[p]]
  /\ JobAt(t, "moved")
  /\ UNCHANGED <<work, commits, head, merging, base, tables, firstSeen, taskApart>>

\* update-ref moves the branch only from the head that was read; after it
\* the real index is brought in line.
MoveBranch(t) ==
  /\ job[t].at = "aimed"
  /\ IF branch[job[t].aim] = job[t].head
     THEN /\ branch' = [branch EXCEPT ![job[t].aim] = job[t].sha]
          /\ index' = [p \in Path |-> IF p \in changes[t] THEN work[p] ELSE index[p]]
          /\ JobAt(t, "moved")
     ELSE JobAt(t, "over") /\ UNCHANGED <<branch, index>>
  /\ UNCHANGED <<work, commits, head, merging, base, tables, firstSeen, taskApart>>

\* setResult().
RecordResult(t) ==
  /\ job[t].at = "moved"
  /\ saved' = [saved EXCEPT ![t].result = job[t].sha] /\ JobAt(t, "over")
  /\ UNCHANGED <<repository, changes, firstSeen, taskApart>>

-----------------------------------------------------------------------------
(* Undo                                                                    *)

undoing == <<commits, branch, head, merging, base, tables, firstSeen, job, userCommit, acts>>

\* gitUndoTask takes the task's paths, gitRestoreFile one of them by force.
StartUndo(t, paths, force) ==
  /\ undo[t].at = "none" /\ undos < MaxUndos /\ saved[t].present
  /\ paths = changes[t] \/ (force /\ \E p \in changes[t] : paths = {p})
  /\ undo' = [undo EXCEPT ![t] = [at |-> "next", left |-> paths, path |-> {}, force |-> force,
                                  result |-> IF paths = changes[t] THEN saved[t].result ELSE 0]]
  /\ undos' = undos + 1
  /\ UNCHANGED <<undoing, work, index, spared>>

\* Fault: the test is made against the branch and not against the result.
TestPathFault(t, p) ==
  LET u == undo[t]
      skip == ~u.force /\ u.result # 0 /\ index[p] # TreeOf(u.result)[p]
  IN /\ u.at = "next" /\ p \in u.left
     /\ undo' = [undo EXCEPT ![t].left = @ \ {p}, ![t].path = IF skip THEN {} ELSE {p},
                             ![t].at = IF skip THEN "next" ELSE "tested"]
     /\ spared' = [spared EXCEPT ![t] = @ \ {p}]
     /\ UNCHANGED <<undoing, work, index, undos>>

\* changedSince(): a path that is not as the task left it is skipped.
TestPath(t, p) ==
  LET u == undo[t]
      skip == ~u.force /\ u.result # 0 /\ work[p] # TreeOf(u.result)[p]
  IN /\ u.at = "next" /\ p \in u.left
     /\ undo' = [undo EXCEPT ![t].left = @ \ {p}, ![t].path = IF skip THEN {} ELSE {p},
                             ![t].at = IF skip THEN "next" ELSE "tested"]
     /\ spared' = [spared EXCEPT ![t] = @ \ {p}]
     /\ UNCHANGED <<undoing, work, index, undos>>

\* checkout of the path from the base, or rm when the base has no such file.
RestorePath(t, p) ==
  /\ undo[t].at = "tested" /\ undo[t].path = {p}
  /\ work' = [work EXCEPT ![p] = TreeOf(base[t])[p]]
  /\ index' = [index EXCEPT ![p] = TreeOf(base[t])[p]]
  /\ undo' = [undo EXCEPT ![t].at = "next", ![t].path = {}]
  /\ Changed({p})
  /\ UNCHANGED <<undoing, undos>>

EndUndo(t) ==
  /\ undo[t].at = "next" /\ undo[t].left = {}
  /\ undo' = [undo EXCEPT ![t] = NotUndoing]
  /\ UNCHANGED <<undoing, work, index, undos, spared>>

-----------------------------------------------------------------------------
(* The user                                                                 *)

userLeaves == <<commits, base, tables, firstSeen, job, undo, undos>>

UserEdits(p, c) ==
  /\ acts < MaxActs /\ acts' = acts + 1 /\ c \in Yours
  /\ work' = [work EXCEPT ![p] = c] /\ Changed({p})
  /\ UNCHANGED <<userLeaves, index, branch, head, merging, userCommit>>

\* git add, and the begin or end of a merge, outside the application.
UserStages(p) ==
  /\ acts < MaxActs /\ acts' = acts + 1
  /\ index[p] # work[p] /\ index' = [index EXCEPT ![p] = work[p]]
  /\ UNCHANGED <<userLeaves, work, branch, head, merging, userCommit, spared>>

UserMerges ==
  /\ acts < MaxActs /\ acts' = acts + 1 /\ merging' = ~merging
  /\ UNCHANGED <<userLeaves, work, index, branch, head, userCommit, spared>>

\* switchBranch(): git refuses to carry a local change of a path in which the
\* two branches differ.
SwitchBranch(b) ==
  LET differ == {p \in Path : TreeOf(Tip)[p] # TreeOf(branch[b])[p]}
  IN /\ ~merging /\ b # head /\ acts < MaxActs /\ acts' = acts + 1
     /\ \A p \in differ : work[p] = TreeOf(Tip)[p] /\ index[p] = work[p]
     /\ head' = b
     /\ work' = [p \in Path |-> IF p \in differ THEN TreeOf(branch[b])[p] ELSE work[p]]
     /\ index' = [p \in Path |-> IF p \in differ THEN TreeOf(branch[b])[p] ELSE index[p]]
     /\ Changed(differ)
     /\ UNCHANGED <<userLeaves, branch, merging, userCommit>>

\* commitAll(): add -A, and when something is staged, commit.
StageAll ==
  /\ ~userCommit /\ acts < MaxActs /\ acts' = acts + 1
  /\ index' = work /\ userCommit' = (work # TreeOf(Tip))
  /\ UNCHANGED <<userLeaves, work, branch, head, merging, spared>>

CommitAll ==
  /\ userCommit /\ userCommit' = FALSE
  /\ IF index = TreeOf(Tip) THEN UNCHANGED <<commits, branch>>
     ELSE Committed(index, Tip) /\ branch' = [branch EXCEPT ![head] = Len(commits) + 1]
  /\ UNCHANGED <<work, index, head, merging, base, tables, firstSeen, job, undo, acts, undos, spared>>

\* The application exits; a task that had begun to edit may be resumed, which
\* goes on behind the checkpoint.
RunnerExits ==
  /\ acts < MaxActs /\ acts' = acts + 1
  /\ firstSeen' = [t \in Task |-> Unseen] /\ userCommit' = FALSE
  /\ undo' = [t \in Task |-> NotUndoing]
  /\ job' = [t \in Task |-> IF job[t].at \in {"idle", "over"} THEN job[t]
                            ELSE [IdleJob EXCEPT !.at = "ready", !.tools = job[t].tools]]
  /\ \E t \in Task : job[t].at \notin {"idle", "over"}
  /\ UNCHANGED <<repository, tables, undos, spared>>

RunnerSteps(t) ==
  \/ TestCheckpoint(t) \/ Snapshot(t) \/ KeepSnapshot(t) \/ RecordSnapshot(t)
  \/ (\E p \in Path : Touch(t, p)) \/ (\E c \in FileContent : WriteFile(t, c)) \/ Compare(t)
  \/ TestCommit(t) \/ StageTask(t) \/ Aim(t) \/ MoveBranch(t) \/ RecordResult(t)

UndoSteps(t) ==
  \/ \E paths \in SUBSET Path, force \in BOOLEAN : StartUndo(t, paths, force)
  \/ \E p \in Path : TestPath(t, p) \/ RestorePath(t, p)
  \/ EndUndo(t)

UserSteps ==
  \/ \E p \in Path : UserStages(p) \/ (\E c \in FileContent : UserEdits(p, c))
  \/ UserMerges \/ (\E b \in Branch : SwitchBranch(b)) \/ StageAll \/ CommitAll \/ RunnerExits

RepositoryNext == (\E t \in Task : RunnerSteps(t) \/ UndoSteps(t)) \/ UserSteps

RepositorySpec == RepositoryInit /\ [][RepositoryNext]_repositoryVars

-----------------------------------------------------------------------------
(* Properties                                                               *)

\* The commits a commit is built on.
Ancestors(c) ==
  LET above[d \in 0..c] == IF d = 0 THEN {} ELSE {d} \cup above[commits[d].parent]
  IN above[c]

\* "Never rewrites history": whatever tasks and the user do at the same time, a
\* branch moves only to a commit that is built on the one it was at.
HistoryOnlyGrows ==
  [][\A b \in Branch : branch'[b] # branch[b] =>
       branch[b] \in Ancestors(commits'[branch'[b]].parent)]_repositoryVars

\* What a task commits differs from the commit before it in paths of that task
\* only: what the user has staged, or commits meanwhile, stays out of it.
TaskCommitsAreOfItsPaths ==
  \A t \in Task, p \in Path :
    LET c == saved[t].result
    IN c # 0 /\ TreeOf(c)[p] # TreeOf(commits[c].parent)[p] => p \in changes[t]

\* Undoing a task that has committed, unless by force, overwrites a content
\* that is not the task's own only where the user, another task or another undo
\* has changed the file after undo has looked at it.
UndoSparesLaterEdits ==
  [][\A t \in Task, p \in Path :
       RestorePath(t, p) /\ ~undo[t].force /\ undo[t].result # 0
         => work[p] = TreeOf(undo[t].result)[p] \/ p \in spared[t]]_repositoryVars
====
