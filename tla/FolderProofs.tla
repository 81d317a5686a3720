---- MODULE FolderProofs ----
(***************************************************************************)
(* Proofs about what happens in a project's folder, for any tasks, paths,  *)
(* branches, files, runs and bounds: the inductive invariants of           *)
(* FolderInvariant, and with them what Checkpoints, ProjectFiles,          *)
(* ContextIndex and Validation promise.                                    *)
(***************************************************************************)
EXTENDS FolderInvariant, WellFoundedInduction, FiniteSetTheorems, TLAPS

-----------------------------------------------------------------------------
(* Commits: there are only ever more of them                                *)

Commits == [tree : Tree, parent : Nat]

\* No commit object changes, and a task's paths stay its own.
Grows ==
  /\ CommitId \subseteq CommitId' /\ \A c \in CommitId : commits'[c] = commits[c]
  /\ \A t \in Task : changes[t] \subseteq changes'[t]

LEMMA CommitIds ==
  ASSUME RepositoryTyped
  PROVE  CommitId = 1..Len(commits) /\ Len(commits) \in Nat /\ CommitId \subseteq Nat \ {0}
  <1>1. commits \in Seq(Commits)
    BY DEF RepositoryTyped, Commits
  <1> QED BY <1>1 DEF CommitId

\* What commit-tree adds.
LEMMA CommitAdds ==
  ASSUME RepositoryTyped, NEW tree \in Tree, NEW parent \in CommitId, Committed(tree, parent)
  PROVE  /\ commits' \in Seq(Commits)
         /\ CommitId' = CommitId \cup {Len(commits) + 1} /\ Len(commits) + 1 \in Nat \ {0}
         /\ \A c \in CommitId : commits'[c] = commits[c]
         /\ commits'[Len(commits) + 1] = [tree |-> tree, parent |-> parent]
         /\ \A c \in CommitId' : TreeOf(c)' \in Tree /\ commits'[c].parent \in 0..(c - 1)
  <1>1. commits \in Seq(Commits) /\ Len(commits) \in Nat /\ CommitId = 1..Len(commits)
    BY DEF RepositoryTyped, Commits, CommitId
  <1>2. parent \in Nat /\ parent <= Len(commits) /\ [tree |-> tree, parent |-> parent] \in Commits
    BY <1>1 DEF Commits
  <1>3. /\ commits' \in Seq(Commits) /\ Len(commits') = Len(commits) + 1
        /\ \A c \in 1..Len(commits) : commits'[c] = commits[c]
        /\ commits'[Len(commits) + 1] = [tree |-> tree, parent |-> parent]
    BY <1>1, <1>2 DEF Committed
  <1>4. CommitId' = 1..(Len(commits) + 1)
    BY <1>3 DEF CommitId
  <1>5. \A c \in CommitId' : TreeOf(c)' \in Tree /\ commits'[c].parent \in 0..(c - 1)
    <2> TAKE c \in CommitId'
    <2>1. CASE c \in CommitId
      BY <1>1, <1>3, <2>1 DEF TreeOf, RepositoryTyped, RepositoryTypeOK
    <2>2. CASE c = Len(commits) + 1
      BY <1>1, <1>2, <1>3, <2>2 DEF TreeOf
    <2> QED BY <1>1, <1>4, <2>1, <2>2
  <1> QED BY <1>1, <1>3, <1>4, <1>5

\* What a task has committed stays a change of its paths.
LEMMA IsOfStays ==
  ASSUME Grows, NEW t \in Task
  PROVE  \A c : IsOf(c, t) => IsOf(c, t)'
  BY DEF Grows, IsOf, TreeOf

LEMMA DeliveredStays ==
  ASSUME Grows, NEW t \in Task, Delivered(t), saved'[t].result \in {0, saved[t].result}
  PROVE  Delivered(t)'
  BY DEF Delivered, Grows, IsOf, TreeOf

LEMMA InHandStays ==
  ASSUME Grows, NEW t \in Task, InHand(t), job'[t] = job[t], base'[t] = base[t],
         saved[t].present => saved'[t].present
  PROVE  InHand(t)'
  <1>1. job[t].sha \in CommitId => commits'[job[t].sha] = commits[job[t].sha]
    BY DEF Grows
  <1>2. job[t].head \in CommitId => job'[t].head \in CommitId'
    BY DEF Grows
  <1>3. job[t].at \in {"staged", "aimed", "moved"} /\ job[t].sha # 0 => IsOf(job[t].sha, t)'
    BY DEF InHand, Grows, IsOf, TreeOf
  <1>4. IsOf(job[t].sha, t) => job[t].sha \in CommitId
    BY DEF IsOf
  <1> QED BY <1>1, <1>2, <1>3, <1>4 DEF InHand, Grows

LEMMA KnowsStays ==
  ASSUME RepositoryTyped, Grows, NEW t \in Task, Knows(t), undo'[t] = undo[t],
         saved[t].present => saved'[t].present,
         \A p \in Path : \/ p \in spared'[t]
                         \/ work'[p] = work[p] /\ p \notin spared[t]
  PROVE  Knows(t)'
  <1>1. undo[t].path \subseteq Path
    BY DEF RepositoryTyped
  <1> QED BY <1>1 DEF Knows, Grows, TreeOf

\* When nothing of it moves.
LEMMA TaskStays ==
  ASSUME RepositoryInv, Grows, NEW t \in Task,
         job'[t] = job[t], base'[t] = base[t], saved'[t] = saved[t], undo'[t] = undo[t],
         \A p \in Path : \/ p \in spared'[t]
                         \/ work'[p] = work[p] /\ p \notin spared[t]
  PROVE  InHand(t)' /\ Knows(t)' /\ Delivered(t)'
  BY InHandStays, KnowsStays, DeliveredStays DEF RepositoryInv

\* When one task moves: what is left to show is about it.
LEMMA OneMoves ==
  ASSUME RepositoryInv, Grows, RepositoryTyped', NEW t \in Task,
         \A u \in Task \ {t} : /\ job'[u] = job[u] /\ base'[u] = base[u]
                               /\ saved'[u] = saved[u] /\ undo'[u] = undo[u],
         \A u \in Task \ {t}, p \in Path : \/ p \in spared'[u]
                                           \/ work'[p] = work[p] /\ p \notin spared[u],
         InHand(t)', Knows(t)', Delivered(t)'
  PROVE  RepositoryInv'
  <1>1. ASSUME NEW u \in Task
        PROVE  InHand(u)' /\ Knows(u)' /\ Delivered(u)'
    <2>1. CASE u = t
      BY <2>1
    <2>2. CASE u # t
      BY <2>2, TaskStays
    <2> QED BY <2>1, <2>2
  <1> QED BY <1>1 DEF RepositoryInv

\* When a runner takes a step that leaves the working tree and the undo alone.
LEMMA RunnerMoves ==
  ASSUME RepositoryInv, Grows, RepositoryTyped', NEW t \in Task,
         \A u \in Task \ {t} : job'[u] = job[u] /\ base'[u] = base[u] /\ saved'[u] = saved[u],
         UNCHANGED <<work, undo, spared>>,
         saved[t].present => saved'[t].present,
         InHand(t)', saved'[t].result \in {0, saved[t].result} \/ Delivered(t)'
  PROVE  RepositoryInv'
  <1>1. RepositoryTyped /\ Knows(t) /\ Delivered(t)
    BY DEF RepositoryInv
  <1>2. Knows(t)'
    BY <1>1, KnowsStays
  <1>3. Delivered(t)'
    BY <1>1, DeliveredStays
  <1> QED BY <1>2, <1>3, OneMoves

JobStates == {"idle", "tested", "built", "ref", "ready", "tool", "written", "headed", "staged",
              "aimed", "moved", "over"}
JobRecord == [at : JobStates, path : SUBSET Path, head : Nat, aim : Branch, sha : Nat, tools : 0..MaxTools]

\* A step of the runner that keeps what it has in hand.
LEMMA JobMoves ==
  ASSUME RepositoryTyped, NEW t \in Task, NEW at \in JobStates, JobAt(t, at)
  PROVE  /\ job' \in [Task -> JobRecord]
         /\ job'[t] = [job[t] EXCEPT !.at = at] /\ job'[t].at = at
         /\ job'[t].head = job[t].head /\ job'[t].sha = job[t].sha
         /\ \A u \in Task \ {t} : job'[u] = job[u]
  <1>1. job \in [Task -> JobRecord] /\ job[t] \in JobRecord
    BY DEF RepositoryTyped, RepositoryTypeOK, JobRecord, JobStates
  <1> DEFINE moved == [job[t] EXCEPT !.at = at]
  <1>2. moved \in JobRecord /\ moved.at = at /\ moved.head = job[t].head /\ moved.sha = job[t].sha
    BY <1>1 DEF JobRecord
  <1>3. job' = [job EXCEPT ![t] = moved]
    BY DEF JobAt
  <1> HIDE DEF moved
  <1>4. job' \in [Task -> JobRecord] /\ job'[t] = moved /\ \A u \in Task \ {t} : job'[u] = job[u]
    BY <1>1, <1>2, <1>3
  <1> QED BY <1>2, <1>4 DEF moved

\* The types, one by one.
LEMMA Retyped ==
  ASSUME RepositoryTyped,
         work' = work \/ work' \in Tree, index' = index \/ index' \in Tree,
         commits' = commits, branch' = branch \/ branch' \in [Branch -> CommitId],
         head' = head \/ head' \in Branch,
         base' = base \/ base' \in [Task -> CommitId \cup {0}],
         saved' = saved \/ saved' \in [Task -> [present : BOOLEAN, result : Nat]],
         \A t \in Task : saved'[t].present => base'[t] # 0,
         \A t \in Task : saved'[t].result # 0 => saved'[t].present /\ saved'[t].result \in CommitId,
         changes' = changes \/ changes' \in [Task -> SUBSET Path],
         firstSeen' = firstSeen \/ firstSeen' \in [Task -> [Path -> SUBSET FileContent]],
         job' = job \/ job' \in [Task -> JobRecord],
         undo' = undo \/ undo' \in [Task -> [at : {"none", "next", "tested"}, left : SUBSET Path,
                                             path : SUBSET Path, force : BOOLEAN, result : Nat]],
         spared' = spared \/ spared' \in [Task -> SUBSET Path]
  PROVE  RepositoryTyped'
  <1>1. CommitId' = CommitId /\ \A c \in CommitId : TreeOf(c)' = TreeOf(c)
    BY DEF CommitId, TreeOf
  <1>2. /\ work' \in Tree /\ index' \in Tree /\ head' \in Branch /\ branch' \in [Branch -> CommitId]
        /\ base' \in [Task -> CommitId \cup {0}]
        /\ changes' \in [Task -> SUBSET Path] /\ firstSeen' \in [Task -> [Path -> SUBSET FileContent]]
    BY DEF RepositoryTyped, RepositoryTypeOK
  <1>3. /\ saved' \in [Task -> [present : BOOLEAN, result : Nat]]
        /\ spared' \in [Task -> SUBSET Path]
        /\ undo' \in [Task -> [at : {"none", "next", "tested"}, left : SUBSET Path,
                               path : SUBSET Path, force : BOOLEAN, result : Nat]]
        /\ commits' \in Seq([tree : Tree, parent : Nat])
    BY DEF RepositoryTyped
  <1>4. job' \in [Task -> JobRecord]
    BY DEF RepositoryTyped, RepositoryTypeOK, JobRecord, JobStates
  <1>5. \A c \in CommitId : TreeOf(c) \in Tree /\ commits[c].parent \in 0..(c - 1)
    BY DEF RepositoryTyped, RepositoryTypeOK
  <1>6. RepositoryTypeOK'
    BY <1>1, <1>2, <1>4, <1>5 DEF RepositoryTypeOK, JobRecord, JobStates
  <1> QED BY <1>3, <1>6 DEF RepositoryTyped

-----------------------------------------------------------------------------
(* The steps of a runner                                                    *)


LEMMA TestCheckpointKeeps ==
  ASSUME RepositoryInv, NEW t \in Task, TestCheckpoint(t)
  PROVE  RepositoryInv'
  <1> USE DEF jobOnly, repository, tables, taskApart
  <1>1. RepositoryTyped
    BY DEF RepositoryInv
  <1>2. PICK at \in {"over", "tested"} : JobAt(t, at)
    BY DEF TestCheckpoint
  <1>3. /\ job' \in [Task -> JobRecord] /\ job'[t].at = at
        /\ \A u \in Task \ {t} : job'[u] = job[u]
    BY <1>1, <1>2, JobMoves DEF JobStates
  <1>4. RepositoryTyped'
    BY <1>1, <1>3, Retyped DEF TestCheckpoint, RepositoryTyped, RepositoryTypeOK
  <1>5. Grows
    BY DEF TestCheckpoint, Grows, CommitId
  <1>6. InHand(t)'
    BY <1>3 DEF InHand
  <1> QED BY <1>3, <1>4, <1>5, <1>6, RunnerMoves DEF TestCheckpoint

\* With a commit added, the rest that may move is a branch and a runner.
LEMMA RetypedWithCommit ==
  ASSUME RepositoryTyped, NEW tree \in Tree, NEW parent \in CommitId, Committed(tree, parent),
         UNCHANGED <<work, index, head, base, saved, changes, firstSeen, undo, spared>>,
         branch' \in [Branch -> CommitId'], job' \in [Task -> JobRecord]
  PROVE  RepositoryTyped' /\ Grows
  <1>1. /\ commits' \in Seq(Commits)
        /\ CommitId' = CommitId \cup {Len(commits) + 1} /\ \A c \in CommitId : commits'[c] = commits[c]
        /\ \A c \in CommitId' : TreeOf(c)' \in Tree /\ commits'[c].parent \in 0..(c - 1)
    BY CommitAdds
  <1>2. /\ work' \in Tree /\ index' \in Tree /\ head' \in Branch
        /\ base' \in [Task -> CommitId' \cup {0}]
        /\ changes' \in [Task -> SUBSET Path] /\ firstSeen' \in [Task -> [Path -> SUBSET FileContent]]
    BY <1>1 DEF RepositoryTyped, RepositoryTypeOK
  <1>3. /\ saved' \in [Task -> [present : BOOLEAN, result : Nat]]
        /\ spared' \in [Task -> SUBSET Path]
        /\ undo' \in [Task -> [at : {"none", "next", "tested"}, left : SUBSET Path,
                               path : SUBSET Path, force : BOOLEAN, result : Nat]]
        /\ commits' \in Seq([tree : Tree, parent : Nat])
    BY <1>1 DEF RepositoryTyped, Commits
  <1>4. /\ \A t \in Task : saved'[t].present => base'[t] # 0
        /\ \A t \in Task : saved'[t].result # 0 => saved'[t].present /\ saved'[t].result \in CommitId'
    BY <1>1 DEF RepositoryTyped, RepositoryTypeOK
  <1>5. RepositoryTypeOK'
    BY <1>1, <1>2, <1>4 DEF RepositoryTypeOK, JobRecord, JobStates
  <1>6. Grows
    BY <1>1 DEF Grows
  <1> QED BY <1>3, <1>5, <1>6 DEF RepositoryTyped

LEMMA SnapshotKeeps ==
  ASSUME RepositoryInv, NEW t \in Task, Snapshot(t)
  PROVE  RepositoryInv'
  <1> USE DEF tables, taskApart
  <1>1. RepositoryTyped /\ work \in Tree /\ Tip \in CommitId
    BY DEF RepositoryInv, RepositoryTyped, RepositoryTypeOK, Tip
  <1>2. CommitId' = CommitId \cup {Len(commits) + 1} /\ Len(commits) + 1 \in Nat \ {0}
    BY <1>1, CommitAdds DEF Snapshot
  <1>3. /\ job' \in [Task -> JobRecord]
        /\ job'[t].at = "built" /\ job'[t].sha = Len(commits) + 1
        /\ \A u \in Task \ {t} : job'[u] = job[u]
    <2>1. job \in [Task -> JobRecord] /\ job[t] \in JobRecord
      BY <1>1 DEF RepositoryTyped, RepositoryTypeOK, JobRecord, JobStates
    <2> DEFINE moved == [job[t] EXCEPT !.at = "built", !.sha = Len(commits) + 1]
    <2>2. moved \in JobRecord /\ moved.at = "built" /\ moved.sha = Len(commits) + 1
      BY <1>2, <2>1 DEF JobRecord, JobStates
    <2>3. job' = [job EXCEPT ![t] = moved]
      BY DEF Snapshot
    <2> HIDE DEF moved
    <2> QED BY <2>1, <2>2, <2>3
  <1>4. branch' \in [Branch -> CommitId']
    BY <1>1, <1>2 DEF RepositoryTyped, RepositoryTypeOK, Snapshot
  <1>5. RepositoryTyped' /\ Grows
    BY <1>1, <1>3, <1>4, RetypedWithCommit DEF Snapshot
  <1>6. InHand(t)'
    BY <1>2, <1>3 DEF InHand
  <1> QED BY <1>3, <1>5, <1>6, RunnerMoves DEF Snapshot

LEMMA KeepSnapshotKeeps ==
  ASSUME RepositoryInv, NEW t \in Task, KeepSnapshot(t)
  PROVE  RepositoryInv'
  <1> USE DEF tables, taskApart
  <1>1. RepositoryTyped /\ job[t].sha \in CommitId /\ job[t].sha # 0 /\ base \in [Task -> CommitId \cup {0}]
    BY CommitIds DEF RepositoryInv, InHand, KeepSnapshot, RepositoryTyped, RepositoryTypeOK
  <1>2. /\ base' \in [Task -> CommitId \cup {0}] /\ base'[t] # 0
        /\ \A u \in Task \ {t} : base'[u] = base[u]
    BY <1>1 DEF KeepSnapshot
  <1>3. /\ job' \in [Task -> JobRecord] /\ job'[t].at = "ref" /\ \A u \in Task \ {t} : job'[u] = job[u]
    BY <1>1, JobMoves DEF KeepSnapshot, JobStates
  <1>4. RepositoryTyped'
    BY <1>1, <1>2, <1>3, Retyped DEF KeepSnapshot, RepositoryTyped, RepositoryTypeOK
  <1>5. Grows
    BY DEF KeepSnapshot, Grows, CommitId
  <1>6. InHand(t)'
    BY <1>2, <1>3 DEF InHand
  <1> QED BY <1>2, <1>3, <1>4, <1>5, <1>6, RunnerMoves DEF KeepSnapshot

LEMMA RecordSnapshotKeeps ==
  ASSUME RepositoryInv, NEW t \in Task, RecordSnapshot(t)
  PROVE  RepositoryInv'
  <1> USE DEF repository, taskApart
  <1>1. RepositoryTyped /\ base[t] # 0 /\ saved \in [Task -> [present : BOOLEAN, result : Nat]]
    BY DEF RepositoryInv, InHand, RecordSnapshot, RepositoryTyped
  <1>2. /\ saved' \in [Task -> [present : BOOLEAN, result : Nat]]
        /\ saved'[t].present /\ saved'[t].result = 0 /\ \A u \in Task \ {t} : saved'[u] = saved[u]
    BY <1>1 DEF RecordSnapshot
  <1>3. /\ job' \in [Task -> JobRecord] /\ job'[t].at = "ready" /\ \A u \in Task \ {t} : job'[u] = job[u]
    BY <1>1, JobMoves DEF RecordSnapshot, JobStates
  <1>4. RepositoryTyped'
    BY <1>1, <1>2, <1>3, Retyped DEF RecordSnapshot, RepositoryTyped, RepositoryTypeOK
  <1>5. Grows
    BY DEF RecordSnapshot, Grows, CommitId
  <1>6. InHand(t)'
    BY <1>3 DEF InHand
  <1> QED BY <1>2, <1>3, <1>4, <1>5, <1>6, RunnerMoves DEF RecordSnapshot

LEMMA TouchKeeps ==
  ASSUME RepositoryInv, NEW t \in Task, NEW p \in Path, Touch(t, p)
  PROVE  RepositoryInv'
  <1> USE DEF repository, tables, taskApart
  <1>1. RepositoryTyped /\ job \in [Task -> JobRecord] /\ job[t] \in JobRecord
    BY DEF RepositoryInv, RepositoryTyped, RepositoryTypeOK, JobRecord, JobStates
  <1>2. /\ job' \in [Task -> JobRecord] /\ job'[t].at = "tool" /\ \A u \in Task \ {t} : job'[u] = job[u]
    <2> DEFINE moved == [job[t] EXCEPT !.at = "tool", !.path = {p}, !.tools = @ + 1]
    <2>1. job[t].tools + 1 \in 0..MaxTools
      BY <1>1, BoundsAssumption DEF JobRecord, Touch
    <2>2. moved \in JobRecord /\ moved.at = "tool"
      BY <1>1, <2>1 DEF JobRecord, JobStates
    <2>3. job' = [job EXCEPT ![t] = moved]
      BY DEF Touch
    <2> HIDE DEF moved
    <2> QED BY <1>1, <2>2, <2>3
  <1>3. firstSeen' \in [Task -> [Path -> SUBSET FileContent]]
    <2>1. firstSeen \in [Task -> [Path -> SUBSET FileContent]] /\ work[p] \in FileContent
      BY <1>1 DEF RepositoryTyped, RepositoryTypeOK, Tree
    <2> QED BY <2>1 DEF Touch
  <1>4. RepositoryTyped'
    BY <1>1, <1>2, <1>3, Retyped DEF Touch, RepositoryTyped, RepositoryTypeOK
  <1>5. Grows
    BY DEF Touch, Grows, CommitId
  <1>6. InHand(t)'
    BY <1>2 DEF InHand
  <1> QED BY <1>2, <1>4, <1>5, <1>6, RunnerMoves DEF Touch

LEMMA WriteFileKeeps ==
  ASSUME RepositoryInv, NEW t \in Task, NEW c \in FileContent, WriteFile(t, c)
  PROVE  RepositoryInv'
  <1> USE DEF tables, Changed
  <1>1. RepositoryTyped /\ job[t].path \subseteq Path /\ work \in Tree /\ spared \in [Task -> SUBSET Path]
    BY DEF RepositoryInv, RepositoryTyped, RepositoryTypeOK
  <1>2. work' \in Tree /\ spared' \in [Task -> SUBSET Path]
    BY <1>1 DEF WriteFile, Tree
  <1>3. /\ job' \in [Task -> JobRecord] /\ job'[t].at = "written" /\ \A u \in Task \ {t} : job'[u] = job[u]
    BY <1>1, JobMoves DEF WriteFile, JobStates
  <1>4. RepositoryTyped'
    BY <1>1, <1>2, <1>3, Retyped DEF WriteFile, RepositoryTyped, RepositoryTypeOK
  <1>5. Grows
    BY DEF WriteFile, Grows, CommitId
  <1>6. InHand(t)'
    BY <1>3 DEF InHand
  <1>7. \A u \in Task, p \in Path : \/ p \in spared'[u]
                                    \/ work'[p] = work[p] /\ p \notin spared[u]
    BY <1>1 DEF WriteFile
  <1>8. Knows(t)' /\ Delivered(t)'
    BY <1>1, <1>5, <1>7, KnowsStays, DeliveredStays DEF RepositoryInv, WriteFile
  <1> QED BY <1>3, <1>4, <1>5, <1>6, <1>7, <1>8, OneMoves DEF WriteFile

LEMMA CompareKeeps ==
  ASSUME RepositoryInv, NEW t \in Task, Compare(t)
  PROVE  RepositoryInv'
  <1> USE DEF repository, taskApart
  <1>1. RepositoryTyped /\ job[t].path \subseteq Path /\ changes \in [Task -> SUBSET Path]
    BY DEF RepositoryInv, RepositoryTyped, RepositoryTypeOK
  <1>2. changes' \in [Task -> SUBSET Path] /\ \A u \in Task : changes[u] \subseteq changes'[u]
    BY <1>1 DEF Compare
  <1>3. /\ job' \in [Task -> JobRecord] /\ job'[t].at = "ready" /\ \A u \in Task \ {t} : job'[u] = job[u]
    BY <1>1, JobMoves DEF Compare, JobStates
  <1>4. RepositoryTyped'
    BY <1>1, <1>2, <1>3, Retyped DEF Compare, RepositoryTyped, RepositoryTypeOK
  <1>5. Grows
    BY <1>2 DEF Compare, Grows, CommitId
  <1>6. InHand(t)'
    BY <1>3 DEF InHand
  <1> QED BY <1>3, <1>4, <1>5, <1>6, RunnerMoves DEF Compare

LEMMA TestCommitKeeps ==
  ASSUME RepositoryInv, NEW t \in Task, TestCommit(t)
  PROVE  RepositoryInv'
  <1> USE DEF jobOnly, repository, tables, taskApart
  <1>1. RepositoryTyped /\ job \in [Task -> JobRecord] /\ job[t] \in JobRecord
        /\ Tip \in CommitId /\ CommitId \subseteq Nat
    BY CommitIds DEF RepositoryInv, RepositoryTyped, RepositoryTypeOK, JobRecord, JobStates, Tip
  <1>2. /\ job' \in [Task -> JobRecord] /\ \A u \in Task \ {t} : job'[u] = job[u]
        /\ job'[t].at \in {"over", "headed"}
        /\ job'[t].at = "headed" => job'[t].head = Tip /\ saved[t].present
    <2>1. CASE JobAt(t, "over")
      BY <1>1, <2>1, JobMoves DEF JobStates
    <2>2. CASE ~JobAt(t, "over")
      <3> DEFINE moved == [job[t] EXCEPT !.at = "headed", !.head = Tip]
      <3>1. moved \in JobRecord /\ moved.at = "headed" /\ moved.head = Tip
        BY <1>1 DEF JobRecord, JobStates
      <3>2. job' = [job EXCEPT ![t] = moved] /\ saved[t].present
        BY <2>2 DEF TestCommit
      <3> HIDE DEF moved
      <3> QED BY <1>1, <3>1, <3>2
    <2> QED BY <2>1, <2>2
  <1>3. RepositoryTyped'
    BY <1>1, <1>2, Retyped DEF TestCommit, RepositoryTyped, RepositoryTypeOK
  <1>4. Grows
    BY DEF TestCommit, Grows, CommitId
  <1>5. InHand(t)'
    BY <1>1, <1>2 DEF InHand, TestCommit, CommitId
  <1> QED BY <1>2, <1>3, <1>4, <1>5, RunnerMoves DEF TestCommit

LEMMA StageTaskKeeps ==
  ASSUME RepositoryInv, NEW t \in Task, StageTask(t)
  PROVE  RepositoryInv'
  <1> USE DEF tables, taskApart
  <1>1. RepositoryTyped /\ job \in [Task -> JobRecord] /\ job[t] \in JobRecord
        /\ InHand(t) /\ job[t].head \in CommitId /\ saved[t].present
    BY DEF RepositoryInv, RepositoryTyped, RepositoryTypeOK, JobRecord, JobStates, InHand, StageTask
  <1>2. CASE UNCHANGED commits /\ job' = [job EXCEPT ![t].at = "moved", ![t].sha = 0]
    <2>1. /\ job' \in [Task -> JobRecord] /\ \A u \in Task \ {t} : job'[u] = job[u]
          /\ job'[t].at = "moved" /\ job'[t].sha = 0
      <3> DEFINE moved == [job[t] EXCEPT !.at = "moved", !.sha = 0]
      <3>1. moved \in JobRecord /\ moved.at = "moved" /\ moved.sha = 0
        BY <1>1 DEF JobRecord, JobStates
      <3>2. job' = [job EXCEPT ![t] = moved]
        BY <1>2
      <3> HIDE DEF moved
      <3> QED BY <1>1, <3>1, <3>2
    <2>2. RepositoryTyped'
      BY <1>1, <1>2, <2>1, Retyped DEF StageTask, RepositoryTyped, RepositoryTypeOK
    <2>3. Grows
      BY <1>2 DEF StageTask, Grows, CommitId
    <2>4. InHand(t)'
      BY <1>1, <2>1 DEF InHand, StageTask
    <2> QED BY <2>1, <2>2, <2>3, <2>4, RunnerMoves DEF StageTask
  <1>3. CASE /\ Committed(TaskTree(t), job[t].head)
             /\ job' = [job EXCEPT ![t].at = "staged", ![t].sha = Len(commits) + 1]
    <2>1. TaskTree(t) \in Tree /\ \A p \in Path : p \notin changes[t] => TaskTree(t)[p] = TreeOf(job[t].head)[p]
      BY <1>1 DEF TaskTree, Tree, TreeOf, RepositoryTyped, RepositoryTypeOK
    <2>2. /\ CommitId' = CommitId \cup {Len(commits) + 1} /\ Len(commits) + 1 \in Nat \ {0}
          /\ commits'[job[t].head] = commits[job[t].head]
          /\ commits'[Len(commits) + 1] = [tree |-> TaskTree(t), parent |-> job[t].head]
      BY <1>1, <1>3, <2>1, CommitAdds
    <2>3. /\ job' \in [Task -> JobRecord] /\ \A u \in Task \ {t} : job'[u] = job[u]
          /\ job'[t].at = "staged" /\ job'[t].sha = Len(commits) + 1 /\ job'[t].head = job[t].head
      <3> DEFINE moved == [job[t] EXCEPT !.at = "staged", !.sha = Len(commits) + 1]
      <3>1. moved \in JobRecord /\ moved.at = "staged" /\ moved.sha = Len(commits) + 1
            /\ moved.head = job[t].head
        BY <1>1, <2>2 DEF JobRecord, JobStates
      <3>2. job' = [job EXCEPT ![t] = moved]
        BY <1>3
      <3> HIDE DEF moved
      <3> QED BY <1>1, <3>1, <3>2
    <2>4. branch' \in [Branch -> CommitId']
      BY <1>1, <2>2 DEF StageTask, RepositoryTyped, RepositoryTypeOK
    <2>5. RepositoryTyped' /\ Grows
      BY <1>1, <1>3, <2>1, <2>3, <2>4, RetypedWithCommit DEF StageTask
    <2>6. IsOf(job[t].sha, t)'
      BY <1>1, <2>1, <2>2, <2>3 DEF IsOf, TreeOf, StageTask
    <2>7. InHand(t)'
      BY <1>1, <2>2, <2>3, <2>6 DEF InHand, StageTask
    <2> QED BY <2>3, <2>5, <2>7, RunnerMoves DEF StageTask
  <1> QED BY <1>2, <1>3 DEF StageTask

LEMMA AimKeeps ==
  ASSUME RepositoryInv, NEW t \in Task, Aim(t)
  PROVE  RepositoryInv'
  <1> USE DEF jobOnly, repository, tables, taskApart
  <1>1. RepositoryTyped /\ job \in [Task -> JobRecord] /\ job[t] \in JobRecord /\ head \in Branch /\ InHand(t)
    BY DEF RepositoryInv, RepositoryTyped, RepositoryTypeOK, JobRecord, JobStates
  <1>2. /\ job' \in [Task -> JobRecord] /\ \A u \in Task \ {t} : job'[u] = job[u]
        /\ job'[t].at = "aimed" /\ job'[t].sha = job[t].sha /\ job'[t].head = job[t].head
    <2> DEFINE moved == [job[t] EXCEPT !.at = "aimed", !.aim = head]
    <2>1. moved \in JobRecord /\ moved.at = "aimed" /\ moved.sha = job[t].sha /\ moved.head = job[t].head
      BY <1>1 DEF JobRecord, JobStates
    <2>2. job' = [job EXCEPT ![t] = moved]
      BY DEF Aim
    <2> HIDE DEF moved
    <2> QED BY <1>1, <2>1, <2>2
  <1>3. RepositoryTyped'
    BY <1>1, <1>2, Retyped DEF Aim, RepositoryTyped, RepositoryTypeOK
  <1>4. Grows
    BY DEF Aim, Grows, CommitId
  <1>5. IsOf(job[t].sha, t) => IsOf(job[t].sha, t)'
    BY <1>2, <1>4 DEF IsOf, TreeOf, Grows
  <1>6. InHand(t)'
    BY <1>1, <1>2, <1>5 DEF InHand, Aim, IsOf
  <1> QED BY <1>2, <1>3, <1>4, <1>6, RunnerMoves DEF Aim

LEMMA MoveBranchKeeps ==
  ASSUME RepositoryInv, NEW t \in Task, MoveBranch(t)
  PROVE  RepositoryInv'
  <1> USE DEF tables, taskApart
  <1>1. /\ RepositoryTyped /\ InHand(t) /\ saved[t].present
        /\ job[t].sha \in CommitId /\ IsOf(job[t].sha, t)
    BY DEF RepositoryInv, InHand, IsOf, MoveBranch
  <1>2. branch \in [Branch -> CommitId] /\ index \in Tree /\ work \in Tree /\ job[t].aim \in Branch
    BY <1>1 DEF RepositoryTyped, RepositoryTypeOK
  <1>3. branch' \in [Branch -> CommitId] /\ index' \in Tree
    BY <1>1, <1>2 DEF MoveBranch, Tree
  <1>4. /\ job' \in [Task -> JobRecord] /\ \A u \in Task \ {t} : job'[u] = job[u]
        /\ job'[t].at \in {"moved", "over"} /\ job'[t].sha = job[t].sha
    BY <1>1, JobMoves DEF MoveBranch, JobStates
  <1>5. RepositoryTyped'
    BY <1>1, <1>3, <1>4, Retyped DEF MoveBranch, RepositoryTyped, RepositoryTypeOK
  <1>6. Grows
    BY DEF MoveBranch, Grows, CommitId
  <1>7. IsOf(job[t].sha, t)'
    BY <1>1, <1>4, <1>6 DEF IsOf, TreeOf, Grows
  <1>8. InHand(t)'
    BY <1>1, <1>4, <1>7 DEF InHand, MoveBranch
  <1> QED BY <1>4, <1>5, <1>6, <1>8, RunnerMoves DEF MoveBranch

LEMMA RecordResultKeeps ==
  ASSUME RepositoryInv, NEW t \in Task, RecordResult(t)
  PROVE  RepositoryInv'
  <1> USE DEF repository, taskApart
  <1>1. /\ RepositoryTyped /\ saved[t].present
        /\ job[t].sha # 0 => IsOf(job[t].sha, t) /\ job[t].sha \in CommitId
    BY DEF RepositoryInv, InHand, IsOf, RecordResult
  <1>2. job[t].sha \in Nat /\ saved \in [Task -> [present : BOOLEAN, result : Nat]]
    BY <1>1 DEF RepositoryTyped, RepositoryTypeOK
  <1>3. /\ saved' \in [Task -> [present : BOOLEAN, result : Nat]]
        /\ saved'[t].present /\ saved'[t].result = job[t].sha /\ \A u \in Task \ {t} : saved'[u] = saved[u]
    BY <1>1, <1>2 DEF RecordResult
  <1>4. /\ job' \in [Task -> JobRecord] /\ job'[t].at = "over" /\ \A u \in Task \ {t} : job'[u] = job[u]
    BY <1>1, JobMoves DEF RecordResult, JobStates
  <1>5. RepositoryTyped'
    BY <1>1, <1>3, <1>4, Retyped DEF RecordResult, RepositoryTyped, RepositoryTypeOK
  <1>6. Grows
    BY DEF RecordResult, Grows, CommitId
  <1>7. Delivered(t)'
    BY <1>1, <1>3, <1>6 DEF Delivered, IsOf, TreeOf, Grows
  <1>8. InHand(t)'
    BY <1>4 DEF InHand
  <1> QED BY <1>3, <1>4, <1>5, <1>6, <1>7, <1>8, RunnerMoves DEF RecordResult

LEMMA RunnerKeeps ==
  ASSUME RepositoryInv, NEW t \in Task, RunnerSteps(t)
  PROVE  RepositoryInv'
  BY TestCheckpointKeeps, SnapshotKeeps, KeepSnapshotKeeps, RecordSnapshotKeeps, TouchKeeps,
     WriteFileKeeps, CompareKeeps, TestCommitKeeps, StageTaskKeeps, AimKeeps, MoveBranchKeeps,
     RecordResultKeeps DEF RunnerSteps

-----------------------------------------------------------------------------
(* Undo                                                                     *)

UndoRecord == [at : {"none", "next", "tested"}, left : SUBSET Path, path : SUBSET Path,
               force : BOOLEAN, result : Nat]

\* A step of an undo that leaves the runners and the commits alone.
LEMMA UndoMoves ==
  ASSUME RepositoryInv, NEW t \in Task, UNCHANGED undoing,
         work' = work \/ work' \in Tree, index' = index \/ index' \in Tree,
         undo' \in [Task -> UndoRecord], \A u \in Task \ {t} : undo'[u] = undo[u],
         spared' \in [Task -> SUBSET Path],
         \A u \in Task \ {t}, p \in Path : \/ p \in spared'[u]
                                           \/ work'[p] = work[p] /\ p \notin spared[u],
         Knows(t)'
  PROVE  RepositoryInv'
  <1> USE DEF undoing, tables
  <1>1. RepositoryTyped
    BY DEF RepositoryInv
  <1>2. RepositoryTyped'
    BY <1>1, Retyped DEF RepositoryTyped, RepositoryTypeOK, UndoRecord
  <1>3. Grows
    BY DEF Grows, CommitId
  <1>4. InHand(t)' /\ Delivered(t)'
    BY <1>3, InHandStays, DeliveredStays DEF RepositoryInv
  <1> QED BY <1>2, <1>3, <1>4, OneMoves

LEMMA StartUndoKeeps ==
  ASSUME RepositoryInv, NEW t \in Task, NEW paths \in SUBSET Path, NEW force \in BOOLEAN,
         StartUndo(t, paths, force)
  PROVE  RepositoryInv'
  <1> DEFINE started == [at |-> "next", left |-> paths, path |-> {}, force |-> force,
                         result |-> IF paths = changes[t] THEN saved[t].result ELSE 0]
  <1>1. RepositoryTyped /\ undo \in [Task -> UndoRecord] /\ spared \in [Task -> SUBSET Path]
    BY DEF RepositoryInv, RepositoryTyped, UndoRecord
  <1>2. /\ saved[t].present /\ saved[t].result \in Nat
        /\ saved[t].result # 0 => saved[t].result \in CommitId
    BY <1>1 DEF RepositoryTyped, RepositoryTypeOK, StartUndo
  <1>3. /\ started \in UndoRecord /\ started.at = "next"
        /\ started.result # 0 => started.result \in CommitId
    BY <1>2 DEF UndoRecord
  <1>4. undo' = [undo EXCEPT ![t] = started] /\ UNCHANGED <<undoing, work, index, spared>>
    BY DEF StartUndo
  <1> HIDE DEF started
  <1>5. undo' \in [Task -> UndoRecord] /\ undo'[t] = started /\ \A u \in Task \ {t} : undo'[u] = undo[u]
    BY <1>1, <1>3, <1>4
  <1>6. Knows(t)'
    BY <1>2, <1>3, <1>4, <1>5 DEF Knows, undoing, tables, CommitId
  <1> QED BY <1>1, <1>4, <1>5, <1>6, UndoMoves

LEMMA TestPathKeeps ==
  ASSUME RepositoryInv, NEW t \in Task, NEW p \in Path, TestPath(t, p)
  PROVE  RepositoryInv'
  <1> DEFINE skip == ~undo[t].force /\ undo[t].result # 0 /\ work[p] # TreeOf(undo[t].result)[p]
             tested == [undo[t] EXCEPT !.left = @ \ {p}, !.path = IF skip THEN {} ELSE {p},
                                       !.at = IF skip THEN "next" ELSE "tested"]
  <1>1. /\ RepositoryTyped /\ undo \in [Task -> UndoRecord] /\ spared \in [Task -> SUBSET Path]
        /\ undo[t] \in UndoRecord /\ Knows(t)
    BY DEF RepositoryInv, RepositoryTyped, UndoRecord
  <1>2. /\ tested \in UndoRecord /\ tested.at \in {"next", "tested"}
        /\ tested.force = undo[t].force /\ tested.result = undo[t].result
        /\ tested.path \subseteq {p} /\ (skip => tested.path = {})
    BY <1>1 DEF UndoRecord
  <1>3. /\ undo' = [undo EXCEPT ![t] = tested] /\ undo[t].at = "next"
        /\ spared' = [spared EXCEPT ![t] = @ \ {p}] /\ UNCHANGED <<undoing, work, index>>
    BY DEF TestPath
  <1> HIDE DEF tested
  <1>4. undo' \in [Task -> UndoRecord] /\ undo'[t] = tested /\ \A u \in Task \ {t} : undo'[u] = undo[u]
    BY <1>1, <1>2, <1>3
  <1>5. spared' \in [Task -> SUBSET Path] /\ \A u \in Task \ {t} : spared'[u] = spared[u]
    BY <1>1, <1>3
  <1>6. Knows(t)'
    BY <1>1, <1>2, <1>3, <1>4 DEF Knows, undoing, tables, CommitId, TreeOf
  <1> QED BY <1>3, <1>4, <1>5, <1>6, UndoMoves

LEMMA RestorePathKeeps ==
  ASSUME RepositoryInv, NEW t \in Task, NEW p \in Path, RestorePath(t, p)
  PROVE  RepositoryInv'
  <1> DEFINE restored == [undo[t] EXCEPT !.at = "next", !.path = {}]
  <1>1. /\ RepositoryTyped /\ undo \in [Task -> UndoRecord] /\ spared \in [Task -> SUBSET Path]
        /\ undo[t] \in UndoRecord /\ Knows(t) /\ work \in Tree /\ index \in Tree
    BY DEF RepositoryInv, RepositoryTyped, RepositoryTypeOK, UndoRecord
  <1>2. restored \in UndoRecord /\ restored.at = "next" /\ restored.result = undo[t].result
    BY <1>1 DEF UndoRecord
  <1>3. undo' = [undo EXCEPT ![t] = restored] /\ UNCHANGED undoing /\ undo[t].at = "tested"
    BY DEF RestorePath
  <1> HIDE DEF restored
  <1>4. undo' \in [Task -> UndoRecord] /\ undo'[t] = restored /\ \A u \in Task \ {t} : undo'[u] = undo[u]
    BY <1>1, <1>2, <1>3
  <1>5. base[t] \in CommitId /\ TreeOf(base[t]) \in Tree
    BY <1>1, <1>3 DEF Knows, RepositoryTyped, RepositoryTypeOK
  <1>6. work' \in Tree /\ index' \in Tree
    BY <1>1, <1>5 DEF RestorePath, Tree
  <1>7. /\ spared' \in [Task -> SUBSET Path]
        /\ \A u \in Task, q \in Path : \/ q \in spared'[u]
                                       \/ work'[q] = work[q] /\ q \notin spared[u]
    BY <1>1 DEF RestorePath, Changed, Tree
  <1>8. Knows(t)'
    BY <1>1, <1>2, <1>3, <1>4 DEF Knows, undoing, tables, CommitId
  <1> QED BY <1>3, <1>4, <1>6, <1>7, <1>8, UndoMoves

LEMMA EndUndoKeeps ==
  ASSUME RepositoryInv, NEW t \in Task, EndUndo(t)
  PROVE  RepositoryInv'
  <1>1. RepositoryTyped /\ undo \in [Task -> UndoRecord] /\ spared \in [Task -> SUBSET Path]
    BY DEF RepositoryInv, RepositoryTyped, UndoRecord
  <1>2. NotUndoing \in UndoRecord /\ NotUndoing.at = "none" /\ NotUndoing.result = 0
    BY DEF NotUndoing, UndoRecord
  <1>3. /\ undo' \in [Task -> UndoRecord] /\ undo'[t].at = "none" /\ undo'[t].result = 0
        /\ \A u \in Task \ {t} : undo'[u] = undo[u]
    BY <1>1, <1>2 DEF EndUndo
  <1>4. Knows(t)'
    BY <1>3 DEF Knows
  <1> QED BY <1>1, <1>3, <1>4, UndoMoves DEF EndUndo

LEMMA UndoKeeps ==
  ASSUME RepositoryInv, NEW t \in Task, UndoSteps(t)
  PROVE  RepositoryInv'
  BY StartUndoKeeps, TestPathKeeps, RestorePathKeeps, EndUndoKeeps DEF UndoSteps

-----------------------------------------------------------------------------
(* The user                                                                 *)

LEMMA UserMoves ==
  ASSUME RepositoryInv, UNCHANGED userLeaves, UNCHANGED branch,
         work' = work \/ work' \in Tree, index' = index \/ index' \in Tree,
         head' = head \/ head' \in Branch, spared' \in [Task -> SUBSET Path],
         \A t \in Task, p \in Path : \/ p \in spared'[t]
                                     \/ work'[p] = work[p] /\ p \notin spared[t]
  PROVE  RepositoryInv'
  <1> USE DEF userLeaves, tables
  <1>1. RepositoryTyped
    BY DEF RepositoryInv
  <1>2. RepositoryTyped'
    BY <1>1, Retyped DEF RepositoryTyped, RepositoryTypeOK
  <1>3. Grows
    BY DEF Grows, CommitId
  <1>4. \A t \in Task : InHand(t)' /\ Knows(t)' /\ Delivered(t)'
    BY <1>3, TaskStays
  <1> QED BY <1>2, <1>4 DEF RepositoryInv

LEMMA UserStepsKeep ==
  ASSUME RepositoryInv,
         \/ \E p \in Path : UserStages(p) \/ (\E c \in FileContent : UserEdits(p, c))
         \/ UserMerges \/ (\E b \in Branch : SwitchBranch(b)) \/ StageAll
  PROVE  RepositoryInv'
  <1>1. /\ RepositoryTyped /\ work \in Tree /\ index \in Tree /\ spared \in [Task -> SUBSET Path]
        /\ branch \in [Branch -> CommitId] /\ Tip \in CommitId
        /\ \A d \in CommitId : TreeOf(d) \in Tree
    BY DEF RepositoryInv, RepositoryTyped, RepositoryTypeOK, Tip
  <1>2. ASSUME NEW p \in Path, UserStages(p) PROVE RepositoryInv'
    <2>1. index' \in Tree
      BY <1>1, <1>2 DEF UserStages, Tree
    <2> QED BY <1>1, <1>2, <2>1, UserMoves DEF UserStages
  <1>3. ASSUME NEW p \in Path, NEW c \in FileContent, UserEdits(p, c) PROVE RepositoryInv'
    <2>1. work' \in Tree
      BY <1>1, <1>3 DEF UserEdits, Tree
    <2>2. /\ spared' \in [Task -> SUBSET Path]
          /\ \A t \in Task, q \in Path : \/ q \in spared'[t]
                                         \/ work'[q] = work[q] /\ q \notin spared[t]
      BY <1>1, <1>3 DEF UserEdits, Changed, Tree
    <2> QED BY <1>3, <2>1, <2>2, UserMoves DEF UserEdits
  <1>4. CASE UserMerges
    BY <1>1, <1>4, UserMoves DEF UserMerges
  <1>5. ASSUME NEW b \in Branch, SwitchBranch(b) PROVE RepositoryInv'
    <2>1. work' \in Tree /\ index' \in Tree
      BY <1>1, <1>5 DEF SwitchBranch, Tree
    <2>2. /\ spared' \in [Task -> SUBSET Path]
          /\ \A t \in Task, q \in Path : \/ q \in spared'[t]
                                         \/ work'[q] = work[q] /\ q \notin spared[t]
      BY <1>1, <1>5 DEF SwitchBranch, Changed
    <2> QED BY <1>5, <2>1, <2>2, UserMoves DEF SwitchBranch
  <1>6. CASE StageAll
    BY <1>1, <1>6, UserMoves DEF StageAll
  <1> QED BY <1>2, <1>3, <1>4, <1>5, <1>6

LEMMA CommitAllKeeps ==
  ASSUME RepositoryInv, CommitAll
  PROVE  RepositoryInv'
  <1> USE DEF tables
  <1>1. /\ RepositoryTyped /\ index \in Tree /\ Tip \in CommitId /\ job \in [Task -> JobRecord]
        /\ branch \in [Branch -> CommitId]
    BY DEF RepositoryInv, RepositoryTyped, RepositoryTypeOK, Tip, JobRecord, JobStates
  <1>2. RepositoryTyped' /\ Grows
    <2>1. CASE UNCHANGED <<commits, branch>>
      <3>1. RepositoryTyped'
        BY <1>1, <2>1, Retyped DEF CommitAll, RepositoryTyped, RepositoryTypeOK
      <3> QED BY <2>1, <3>1 DEF CommitAll, Grows, CommitId
    <2>2. CASE Committed(index, Tip) /\ branch' = [branch EXCEPT ![head] = Len(commits) + 1]
      <3>1. CommitId' = CommitId \cup {Len(commits) + 1}
        BY <1>1, <2>2, CommitAdds
      <3>2. branch' \in [Branch -> CommitId']
        BY <1>1, <2>2, <3>1
      <3> QED BY <1>1, <2>2, <3>2, RetypedWithCommit DEF CommitAll
    <2> QED BY <2>1, <2>2 DEF CommitAll
  <1>3. \A t \in Task : InHand(t)' /\ Knows(t)' /\ Delivered(t)'
    <2> TAKE t \in Task
    <2>1. /\ job'[t] = job[t] /\ base'[t] = base[t] /\ saved'[t] = saved[t] /\ undo'[t] = undo[t]
          /\ work' = work /\ spared' = spared
      BY DEF CommitAll
    <2> QED BY <1>2, <2>1, TaskStays
  <1> QED BY <1>2, <1>3 DEF RepositoryInv

LEMMA RunnerExitsKeeps ==
  ASSUME RepositoryInv, RunnerExits
  PROVE  RepositoryInv'
  <1> USE DEF repository, tables
  <1>1. RepositoryTyped /\ job \in [Task -> JobRecord] /\ head \in Branch
    BY DEF RepositoryInv, RepositoryTyped, RepositoryTypeOK, JobRecord, JobStates
  <1>2. ASSUME NEW t \in Task
        PROVE  /\ job'[t] \in JobRecord
               /\ job'[t] = job[t] \/ job'[t].at = "ready"
    <2> DEFINE again == [IdleJob EXCEPT !.at = "ready", !.tools = job[t].tools]
    <2>1. job[t] \in JobRecord
      BY <1>1
    <2>2. again \in JobRecord /\ again.at = "ready"
      BY <1>1, <2>1 DEF IdleJob, JobRecord, JobStates
    <2>3. job'[t] = IF job[t].at \in {"idle", "over"} THEN job[t] ELSE again
      BY DEF RunnerExits
    <2> HIDE DEF again
    <2> QED BY <2>1, <2>2, <2>3
  <1>3. job' \in [Task -> JobRecord]
    BY <1>2 DEF RunnerExits
  <1>4. firstSeen' \in [Task -> [Path -> SUBSET FileContent]]
    BY DEF RunnerExits, Unseen
  <1>5. undo' \in [Task -> UndoRecord] /\ \A t \in Task : undo'[t].at = "none" /\ undo'[t].result = 0
    <2>1. NotUndoing \in UndoRecord /\ NotUndoing.at = "none" /\ NotUndoing.result = 0
      BY DEF NotUndoing, UndoRecord
    <2> QED BY <2>1 DEF RunnerExits
  <1>6. RepositoryTyped'
    BY <1>1, <1>3, <1>4, <1>5, Retyped DEF RunnerExits, RepositoryTyped, RepositoryTypeOK, UndoRecord
  <1>7. Grows
    BY DEF RunnerExits, Grows, CommitId
  <1>8. ASSUME NEW t \in Task
        PROVE  InHand(t)' /\ Knows(t)' /\ Delivered(t)'
    <2>1. InHand(t)'
      <3>1. CASE job'[t] = job[t]
        BY <1>7, <3>1, InHandStays DEF RunnerExits, RepositoryInv
      <3>2. CASE job'[t].at = "ready"
        BY <3>2 DEF InHand
      <3> QED BY <1>2, <3>1, <3>2
    <2>2. Knows(t)'
      BY <1>5 DEF Knows
    <2>3. Delivered(t)'
      BY <1>7, DeliveredStays DEF RunnerExits, RepositoryInv
    <2> QED BY <2>1, <2>2, <2>3
  <1> QED BY <1>6, <1>8 DEF RepositoryInv

LEMMA RepositoryInitInv ==
  ASSUME RepositoryInit
  PROVE  RepositoryInv
  <1> USE DEF RepositoryInit
  <1>1. work \in Tree /\ index \in Tree /\ head \in Branch
    BY BranchAssumption DEF Tree, FileContent
  <1>2. commits = <<[tree |-> work, parent |-> 0]>> /\ commits \in Seq([tree : Tree, parent : Nat])
    BY <1>1
  <1>3. CommitId = {1} /\ commits[1].tree = work /\ commits[1].parent = 0
    BY <1>2 DEF CommitId
  <1>4. branch \in [Branch -> CommitId] /\ base \in [Task -> CommitId \cup {0}]
    BY <1>3
  <1>5. /\ saved \in [Task -> [present : BOOLEAN, result : Nat]]
        /\ \A t \in Task : saved[t].present = FALSE /\ saved[t].result = 0
    BY DEF NoRow
  <1>6. changes \in [Task -> SUBSET Path] /\ firstSeen \in [Task -> [Path -> SUBSET FileContent]]
        /\ spared \in [Task -> SUBSET Path]
    BY DEF Unseen
  <1>7. job \in [Task -> JobRecord] /\ \A t \in Task : job[t].at = "idle"
    <2>1. IdleJob \in JobRecord /\ IdleJob.at = "idle"
      BY <1>1, BoundsAssumption DEF IdleJob, JobRecord, JobStates
    <2> QED BY <2>1
  <1>8. undo \in [Task -> UndoRecord] /\ \A t \in Task : undo[t].at = "none" /\ undo[t].result = 0
    <2>1. NotUndoing \in UndoRecord /\ NotUndoing.at = "none" /\ NotUndoing.result = 0
      BY DEF NotUndoing, UndoRecord
    <2> QED BY <2>1
  <1>9. \A c \in CommitId : TreeOf(c) \in Tree /\ commits[c].parent \in 0..(c - 1)
    BY <1>1, <1>3 DEF TreeOf
  <1>10. RepositoryTypeOK
    BY <1>1, <1>4, <1>5, <1>6, <1>7, <1>9 DEF RepositoryTypeOK, JobRecord, JobStates
  <1>11. RepositoryTyped
    BY <1>2, <1>5, <1>6, <1>8, <1>10 DEF RepositoryTyped, UndoRecord
  <1>12. \A t \in Task : InHand(t) /\ Knows(t) /\ Delivered(t)
    BY <1>5, <1>7, <1>8 DEF InHand, Knows, Delivered
  <1> QED BY <1>11, <1>12 DEF RepositoryInv

LEMMA RepositoryStutters ==
  ASSUME RepositoryInv, UNCHANGED repositoryVars
  PROVE  RepositoryInv'
  <1> USE DEF repositoryVars, repository, tables, taskApart
  <1>1. RepositoryTyped
    BY DEF RepositoryInv
  <1>2. RepositoryTyped'
    BY <1>1, Retyped DEF RepositoryTyped, RepositoryTypeOK
  <1>3. Grows
    BY DEF Grows, CommitId
  <1>4. spared \in [Task -> SUBSET Path]
    BY <1>1 DEF RepositoryTyped
  <1>5. \A t \in Task : InHand(t)' /\ Knows(t)' /\ Delivered(t)'
    BY <1>3, <1>4, TaskStays
  <1> QED BY <1>2, <1>5 DEF RepositoryInv

\* Everything the git service and the runners rely on between two commands
\* (packages/git/src/service.ts): rows have their snapshots, what is staged is
\* of the task's paths and on the head that was read, undo knows what it saw.
THEOREM RepositoryInvHolds == RepositorySpec => []RepositoryInv
  <1>1. RepositoryInit => RepositoryInv
    BY RepositoryInitInv
  <1>2. RepositoryInv /\ [RepositoryNext]_repositoryVars => RepositoryInv'
    <2> SUFFICES ASSUME RepositoryInv, [RepositoryNext]_repositoryVars
                 PROVE  RepositoryInv'
      OBVIOUS
    <2>1. CASE UNCHANGED repositoryVars
      BY <2>1, RepositoryStutters
    <2>2. ASSUME NEW t \in Task, RunnerSteps(t) \/ UndoSteps(t)
          PROVE  RepositoryInv'
      BY <2>2, RunnerKeeps, UndoKeeps
    <2>3. CASE UserSteps
      BY <2>3, UserStepsKeep, CommitAllKeeps, RunnerExitsKeeps DEF UserSteps
    <2> QED BY <2>1, <2>2, <2>3 DEF RepositoryNext
  <1> QED BY <1>1, <1>2, PTL DEF RepositorySpec

\* What a task commits is of its paths only (commit()'s temporary index in
\* packages/git/src/service.ts), for any tasks, paths and bounds.
THEOREM TaskCommitsHold == RepositorySpec => []TaskCommitsAreOfItsPaths
  <1>1. RepositoryInv => TaskCommitsAreOfItsPaths
    BY DEF RepositoryInv, Delivered, IsOf, TaskCommitsAreOfItsPaths
  <1> QED BY <1>1, RepositoryInvHolds, PTL

\* Undoing a task that has committed, unless by force, spares what was changed
\* before it looked; what is changed between its look and its restore it
\* overwrites (changedSince() and the loop of undoTask() in
\* packages/git/src/service.ts).
THEOREM UndoSparesHolds == RepositorySpec => UndoSparesLaterEdits
  <1>1. RepositoryInv /\ [RepositoryNext]_repositoryVars =>
          \A t \in Task, p \in Path :
            RestorePath(t, p) /\ ~undo[t].force /\ undo[t].result # 0
              => work[p] = TreeOf(undo[t].result)[p] \/ p \in spared[t]
    BY DEF RepositoryInv, Knows, RestorePath
  <1> QED BY <1>1, RepositoryInvHolds, PTL DEF RepositorySpec, UndoSparesLaterEdits

-----------------------------------------------------------------------------
(* History                                                                  *)

\* above, as Ancestors defines it, on the first commits.
AboveTo(n, f) == f = [d \in 0..n |-> IF d = 0 THEN {} ELSE {d} \cup f[commits[d].parent]]

\* There is such a function, because a parent is older than its child.
LEMMA AboveIsThere ==
  ASSUME RepositoryTyped
  PROVE  \A n \in 0..Len(commits) : \E f : AboveTo(n, f)
  <1>1. Len(commits) \in Nat /\ CommitId = 1..Len(commits)
    BY CommitIds
  <1> DEFINE Without == {n \in 0..Len(commits) : ~\E f : AboveTo(n, f)}
  <1>2. SUFFICES ASSUME Without # {} PROVE FALSE
    OBVIOUS
  <1>3. Without \subseteq Nat
    BY <1>1
  <1>4. PICK n \in Without : \A m \in Without : ~(<<m, n>> \in OpToRel(<, Nat))
    BY <1>2, <1>3, NatLessThanWellFounded, WFMin
  <1>5. n \in 0..Len(commits) /\ ~\E f : AboveTo(n, f)
    OBVIOUS
  <1>6. CASE n = 0
    <2>1. AboveTo(0, [d \in 0..0 |-> {}])
      BY DEF AboveTo
    <2> QED BY <1>5, <1>6, <2>1
  <1>7. CASE n # 0
    <2>1. n - 1 \in 0..Len(commits) /\ n \in CommitId
      BY <1>1, <1>5, <1>7
    <2>2. n - 1 \notin Without
      <3>1. n \in Nat /\ n - 1 \in Nat /\ n - 1 < n
        BY <1>1, <1>5, <1>7
      <3>2. <<n - 1, n>> \in OpToRel(<, Nat)
        BY <3>1 DEF OpToRel
      <3> HIDE DEF Without
      <3> QED BY <1>4, <3>2
    <2>3. PICK g : AboveTo(n - 1, g)
      BY <2>1, <2>2
    <2>4. commits[n].parent \in 0..(n - 1)
      BY <2>1 DEF RepositoryTyped, RepositoryTypeOK
    <2> DEFINE f == [d \in 0..n |-> IF d = n THEN {n} \cup g[commits[n].parent] ELSE g[d]]
    <2>5. ASSUME NEW d \in 0..n
          PROVE  f[d] = IF d = 0 THEN {} ELSE {d} \cup f[commits[d].parent]
      <3>1. CASE d = n
        <4>1. f[commits[n].parent] = g[commits[n].parent]
          BY <1>5, <2>4
        <4> QED BY <1>7, <3>1, <4>1
      <3>2. CASE d # n
        <4>1. d \in 0..(n - 1) /\ f[d] = g[d]
          BY <1>1, <1>5, <3>2
        <4>2. g[d] = IF d = 0 THEN {} ELSE {d} \cup g[commits[d].parent]
          BY <2>3, <4>1 DEF AboveTo
        <4>3. d # 0 => commits[d].parent \in 0..(d - 1)
          BY <1>1, <1>5, <4>1 DEF RepositoryTyped, RepositoryTypeOK
        <4>4. d # 0 => f[commits[d].parent] = g[commits[d].parent]
          BY <1>5, <4>1, <4>3
        <4> QED BY <4>1, <4>2, <4>4
      <3> QED BY <3>1, <3>2
    <2>6. AboveTo(n, f)
      BY <2>5 DEF AboveTo
    <2> QED BY <1>5, <2>6
  <1> QED BY <1>6, <1>7

\* A commit is built on itself.
LEMMA OwnAncestor ==
  ASSUME RepositoryTyped, NEW c \in CommitId
  PROVE  c \in Ancestors(c)
  <1>1. c \in 0..Len(commits) /\ c \in 0..c /\ c # 0
    BY CommitIds
  <1> DEFINE above == CHOOSE f : AboveTo(c, f)
  <1>2. AboveTo(c, above)
    BY <1>1, AboveIsThere
  <1>3. above[c] = {c} \cup above[commits[c].parent]
    BY <1>1, <1>2 DEF AboveTo
  <1>4. Ancestors(c) = above[c]
    BY DEF Ancestors, AboveTo
  <1> QED BY <1>3, <1>4

\* A branch that moves, moves to a child of where it is.
LEMMA BranchesMoveOn ==
  ASSUME RepositoryInv, [RepositoryNext]_repositoryVars, NEW b \in Branch, branch'[b] # branch[b]
  PROVE  branch[b] \in CommitId /\ commits'[branch'[b]].parent = branch[b]
  <1>1. RepositoryTyped /\ branch \in [Branch -> CommitId] /\ Tip \in CommitId /\ index \in Tree
    BY DEF RepositoryInv, RepositoryTyped, RepositoryTypeOK, Tip
  <1>2. ASSUME NEW t \in Task, MoveBranch(t)
        PROVE  commits'[branch'[b]].parent = branch[b]
    <2>1. /\ branch' = [branch EXCEPT ![job[t].aim] = job[t].sha] /\ branch[job[t].aim] = job[t].head
          /\ commits' = commits
      BY <1>2 DEF MoveBranch
    <2>2. b = job[t].aim /\ branch'[b] = job[t].sha
      BY <1>1, <2>1
    <2>3. commits[job[t].sha].parent = job[t].head
      BY <1>2 DEF RepositoryInv, InHand, MoveBranch
    <2> QED BY <2>1, <2>2, <2>3
  <1>3. ASSUME CommitAll
        PROVE  commits'[branch'[b]].parent = branch[b]
    <2>1. Committed(index, Tip) /\ branch' = [branch EXCEPT ![head] = Len(commits) + 1]
      BY <1>3 DEF CommitAll
    <2>2. b = head /\ branch'[b] = Len(commits) + 1
      BY <1>1, <2>1
    <2>3. commits'[Len(commits) + 1] = [tree |-> index, parent |-> Tip]
      BY <1>1, <2>1, CommitAdds
    <2> QED BY <2>2, <2>3 DEF Tip
  <1>4. (\E t \in Task : MoveBranch(t)) \/ CommitAll
    <2> USE DEF repositoryVars, repository, tables, taskApart, jobOnly, undoing, userLeaves
    <2>1. ASSUME NEW t \in Task, RunnerSteps(t) PROVE MoveBranch(t)
      BY <2>1 DEF RunnerSteps, TestCheckpoint, Snapshot, KeepSnapshot, RecordSnapshot, Touch, WriteFile,
                  Compare, TestCommit, StageTask, Aim, RecordResult
    <2>2. ASSUME NEW t \in Task, UndoSteps(t) PROVE FALSE
      BY <2>2 DEF UndoSteps, StartUndo, TestPath, RestorePath, EndUndo
    <2>3. ASSUME UserSteps PROVE CommitAll
      BY <2>3 DEF UserSteps, UserStages, UserEdits, UserMerges, SwitchBranch, StageAll, RunnerExits
    <2> QED BY <2>1, <2>2, <2>3 DEF RepositoryNext
  <1> QED BY <1>1, <1>2, <1>3, <1>4

\* "Never rewrites history" (update-ref with the old value in commit() of
\* packages/git/src/service.ts), for any tasks, branches and bounds.
THEOREM HistoryHolds == RepositorySpec => HistoryOnlyGrows
  <1>1. RepositoryInv /\ [RepositoryNext]_repositoryVars =>
          \A b \in Branch : branch'[b] # branch[b] =>
            branch[b] \in Ancestors(commits'[branch'[b]].parent)
    <2> SUFFICES ASSUME RepositoryInv, [RepositoryNext]_repositoryVars, NEW b \in Branch,
                        branch'[b] # branch[b]
                 PROVE  branch[b] \in Ancestors(commits'[branch'[b]].parent)
      OBVIOUS
    <2>1. branch[b] \in CommitId /\ commits'[branch'[b]].parent = branch[b]
      BY BranchesMoveOn
    <2>2. branch[b] \in Ancestors(branch[b])
      BY <2>1, OwnAncestor DEF RepositoryInv
    <2> QED BY <2>1, <2>2
  <1> QED BY <1>1, RepositoryInvHolds, PTL DEF RepositorySpec, HistoryOnlyGrows

-----------------------------------------------------------------------------
(* Files                                                                    *)

FileTools == {"none", "fs.write", "fs.patch", "fs.delete", "fs.rename"}
CallRecord ==
  [at : {"none", "tracked", "checked", "ran"}, tool : FileTools,
   folder : BOOLEAN, from : SUBSET File, to : SUBSET File, ok : BOOLEAN, raced : BOOLEAN]
Left == [calls : Nat, walks : Nat, versions : Nat]

\* What the types say of a file.
LEMMA FileTypes ==
  ASSUME FilesInv
  PROVE  /\ versions \in Nat /\ disk \in [File -> 0..versions] /\ ledger \in [File -> 0..versions]
         /\ preimage \in [File -> SUBSET (0..versions)]
         /\ change \in [File -> SUBSET ((0..versions) \X (0..versions))]
         /\ left \in Left /\ call \in CallRecord /\ PathsOf(call) \subseteq File
         /\ written \subseteq handed /\ handed \cup carried \subseteq 1..versions /\ told \subseteq File
  BY DEF FilesInv, FilesTypeOK, CallInv, CallRecord, FileTools, Left

LEMMA FilesStay ==
  ASSUME FilesInv, UNCHANGED ofTask, left' \in Left, told' \subseteq File
  PROVE  FilesInv'
  <1> USE DEF ofTask, tracked, hashes
  <1>1. FilesTypeOK'
    BY DEF FilesInv, FilesTypeOK, PathsOf, Left
  <1>2. CallInv' /\ PreimagesAreOld'
    BY DEF FilesInv, CallInv, PreimagesAreOld, PathsOf
  <1>3. ASSUME NEW f \in File, call'.at = "none" \/ f \notin PathsOf(call')
        PROVE  Listed(f)'
    BY <1>3 DEF FilesInv, Listed, PathsOf
  <1> QED BY <1>1, <1>2, <1>3 DEF FilesInv, PathsOf

LEMMA ReadFileKeeps ==
  ASSUME FilesInv, NEW f \in File, ReadFile(f)
  PROVE  FilesInv'
  <1> USE FileTypes DEF ReadFile, tracked, hashes
  <1>1. disk[f] \in 1..versions
    OBVIOUS
  <1>2. /\ ledger' \in [File -> 0..versions]
        /\ handed' = handed \cup {disk[f]} /\ handed' \subseteq 1..versions
        /\ \A g \in File : ledger'[g] \in handed' \cup {0}
    <2>1. handed' = handed \cup {disk[f]}
      OBVIOUS
    <2>2. \A g \in File : ledger'[g] \in {disk[f], ledger[g]}
      OBVIOUS
    <2> QED BY <1>1, <2>1, <2>2 DEF FilesInv, FilesTypeOK
  <1>3. FilesTypeOK'
    BY <1>2 DEF FilesInv, FilesTypeOK, PathsOf
  <1>4. CallInv' /\ PreimagesAreOld'
    BY <1>2 DEF FilesInv, CallInv, PreimagesAreOld, PathsOf
  <1>5. ASSUME NEW g \in File PROVE Listed(g)'
    BY DEF FilesInv, Listed
  <1> QED BY <1>3, <1>4, <1>5 DEF FilesInv

LEMMA TrackKeeps ==
  ASSUME FilesInv, NEW tool \in FileTools, NEW folder \in BOOLEAN,
         NEW from \in SUBSET File, NEW to \in SUBSET File,
         ~folder => \E f \in File : from = {f},
         folder => tool \in {"fs.delete", "fs.rename"},
         ~folder /\ tool = "fs.rename" => \E g \in File : to = {g} /\ g \notin from,
         tool # "fs.rename" => to = {},
         Track(tool, folder, from, to)
  PROVE  FilesInv'
  <1> USE DEF tracked, hashes
  <1>1. /\ call' \in CallRecord /\ call'.at = "tracked" /\ call'.tool = tool
        /\ call'.folder = folder /\ call'.from = from /\ call'.to = to
        /\ PathsOf(call') = IF folder THEN {} ELSE from \cup to
    BY DEF Track, NoCall, CallRecord, FileTools, PathsOf
  <1>2. left' \in Left
    BY FileTypes DEF Track, Left
  <1>3. /\ disk' = disk /\ versions' = versions /\ ledger' = ledger /\ handed' = handed /\ carried' = carried /\ change' = change
        /\ told' = told /\ written' = written /\ clobbered' = clobbered /\ call.at = "none"
    BY DEF Track
  <1>4. preimage' = [f \in File |-> IF f \in PathsOf(call') /\ preimage[f] = {} THEN {disk[f]} ELSE preimage[f]]
    BY <1>1 DEF Track
  <1>5. preimage' \in [File -> SUBSET (0..versions)]
    BY <1>4, FileTypes
  <1>6. FilesTypeOK'
    <2>1. ASSUME NEW f \in File, NEW c \in change[f] PROVE {c[1]} = preimage'[f]
      BY <1>4, <2>1 DEF FilesInv, FilesTypeOK
    <2> QED BY <1>1, <1>2, <1>3, <1>5, <2>1, FileTypes DEF FilesInv, FilesTypeOK, CallRecord, Left
  <1>7. CallInv'
    <2>1. \A f \in PathsOf(call') : preimage'[f] # {}
      BY <1>1, <1>4
    <2> QED BY <1>1, <2>1 DEF CallInv, CallRecord, FileTools
  <1>8. PreimagesAreOld'
    BY <1>3, <1>4 DEF FilesInv, PreimagesAreOld
  <1>9. ASSUME NEW f \in File, f \notin PathsOf(call') PROVE Listed(f)'
    <2>1. preimage'[f] = preimage[f] /\ Listed(f)
      BY <1>1, <1>3, <1>4, <1>9 DEF FilesInv
    <2> QED BY <1>3, <2>1 DEF Listed
  <1> QED BY <1>1, <1>3, <1>6, <1>7, <1>8, <1>9 DEF FilesInv

LEMMA ExamineKeeps ==
  ASSUME FilesInv, Examine
  PROVE  FilesInv'
  <1> USE DEF tracked, hashes
  <1>1. /\ call' \in CallRecord /\ call'.at = "checked" /\ call'.tool = call.tool
        /\ call'.folder = call.folder /\ call'.from = call.from /\ call'.to = call.to
        /\ PathsOf(call') = PathsOf(call)
        /\ call.at = "tracked"
    BY FileTypes DEF Examine, CallRecord, PathsOf
  <1>2. /\ disk' = disk /\ versions' = versions /\ ledger' = ledger /\ handed' = handed /\ carried' = carried /\ change' = change
        /\ preimage' = preimage /\ told' = told /\ written' = written /\ clobbered' = clobbered /\ left' = left
    BY DEF Examine
  <1>3. FilesTypeOK'
    BY <1>1, <1>2 DEF FilesInv, FilesTypeOK
  <1>4. PreimagesAreOld'
    BY <1>2 DEF FilesInv, PreimagesAreOld
  <1>5. CallInv'
    <2>1. call.tool \in {"fs.write", "fs.patch"} => \E f \in File : call.from = {f}
      BY <1>1 DEF FilesInv, CallInv
    <2>2. call.tool \in {"fs.write", "fs.patch"} => \A f \in call.from : disk[f] \in handed \cup {0}
      <3>1. \A f \in File, v \in 0..versions : Expected(f, v) => disk[f] \in handed \cup {0}
        BY DEF FilesInv, FilesTypeOK, Expected
      <3> QED BY <2>1, <3>1 DEF Examine
    <2>3. call.tool = "fs.rename" => \A g \in call.to : disk[g] = 0
      BY DEF Examine
    <2> QED BY <1>1, <1>2, <2>1, <2>2, <2>3 DEF FilesInv, CallInv, CallRecord, FileTools
  <1>6. ASSUME NEW f \in File, f \notin PathsOf(call') PROVE Listed(f)'
    BY <1>1, <1>2, <1>6 DEF FilesInv, Listed
  <1> QED BY <1>1, <1>2, <1>3, <1>4, <1>5, <1>6 DEF FilesInv

LEMMA RefusedKeeps ==
  ASSUME FilesInv, Refused
  PROVE  FilesInv'
  <1> USE DEF tracked, hashes
  <1>1. /\ call' \in CallRecord /\ call'.at = "ran" /\ call'.tool = call.tool
        /\ call'.folder = call.folder /\ call'.from = call.from /\ call'.to = call.to
        /\ PathsOf(call') = PathsOf(call)
        /\ call.at \in {"tracked", "checked"}
    BY FileTypes DEF Refused, CallRecord, PathsOf
  <1>2. /\ disk' = disk /\ versions' = versions /\ ledger' = ledger /\ handed' = handed /\ carried' = carried /\ change' = change
        /\ preimage' = preimage /\ told' = told /\ written' = written /\ clobbered' = clobbered /\ left' = left
    BY DEF Refused
  <1>3. FilesTypeOK'
    BY <1>1, <1>2 DEF FilesInv, FilesTypeOK
  <1>4. PreimagesAreOld' /\ CallInv'
    BY <1>1, <1>2 DEF FilesInv, PreimagesAreOld, CallInv, CallRecord, FileTools
  <1>5. ASSUME NEW f \in File, f \notin PathsOf(call') PROVE Listed(f)'
    BY <1>1, <1>2, <1>5 DEF FilesInv, Listed
  <1> QED BY <1>1, <1>2, <1>3, <1>4, <1>5 DEF FilesInv

LEMMA ConflictKeeps ==
  ASSUME FilesInv, Conflict
  PROVE  FilesInv'
  <1> USE DEF tracked, hashes
  <1>1. /\ call' \in CallRecord /\ call'.at = "ran" /\ call'.tool = call.tool
        /\ call'.folder = call.folder /\ call'.from = call.from /\ call'.to = call.to
        /\ PathsOf(call') = PathsOf(call) /\ call.at = "tracked"
    BY FileTypes DEF Conflict, CallRecord, PathsOf
  <1>2. /\ disk' = disk /\ versions' = versions /\ ledger' = ledger /\ change' = change
        /\ preimage' = preimage /\ told' = told /\ written' = written /\ clobbered' = clobbered /\ left' = left
        /\ carried' = carried
    BY DEF Conflict
  <1>3. handed \subseteq handed' /\ handed' \subseteq 1..versions
    <2>1. PICK f \in call.from : disk[f] # 0 /\ handed' = handed \cup {disk[f]}
      BY DEF Conflict
    <2>2. disk[f] \in 1..versions
      BY <2>1, FileTypes DEF CallRecord
    <2> QED BY <2>1, <2>2, FileTypes
  <1>4. FilesTypeOK'
    BY <1>1, <1>2, <1>3 DEF FilesInv, FilesTypeOK
  <1>5. PreimagesAreOld' /\ CallInv'
    BY <1>1, <1>2 DEF FilesInv, PreimagesAreOld, CallInv, CallRecord, FileTools
  <1>6. ASSUME NEW f \in File, f \notin PathsOf(call') PROVE Listed(f)'
    BY <1>1, <1>2, <1>6 DEF FilesInv, Listed
  <1> QED BY <1>1, <1>2, <1>4, <1>5, <1>6 DEF FilesInv

\* What a tool that has run leaves of its call.
LEMMA RanCall ==
  ASSUME FilesInv, call.at = "checked", Ran
  PROVE  /\ call' \in CallRecord /\ call'.at = "ran" /\ call'.tool = call.tool
         /\ call'.folder = call.folder /\ call'.from = call.from /\ call'.to = call.to
        /\ PathsOf(call') = PathsOf(call)
  BY FileTypes DEF Ran, CallRecord, PathsOf

LEMMA PutKeeps ==
  ASSUME FilesInv, Put(versions + 1)
  PROVE  FilesInv'
  <1> USE DEF tracked, hashes
  <1> DEFINE v == versions + 1
  <1>1. PICK f \in File : call.from = {f} /\ ~call.folder
    BY DEF FilesInv, CallInv, Put
  <1>2. /\ call' \in CallRecord /\ call'.at = "ran" /\ call'.tool = call.tool
        /\ call'.folder = call.folder /\ call'.from = call.from /\ call'.to = call.to
        /\ PathsOf(call') = PathsOf(call)
    BY RanCall DEF Put
  <1>3. /\ versions' = v /\ disk' = [disk EXCEPT ![f] = v] /\ ledger' = [ledger EXCEPT ![f] = v]
        /\ handed' = handed \cup {v} /\ carried' = carried /\ written' = written \cup {v} /\ versions \in Nat /\ v \in Nat
        /\ left' = left /\ change' = change /\ preimage' = preimage /\ told' = told
    BY <1>1, FileTypes DEF Put, NewVersion
  <1>4. f \in PathsOf(call) /\ preimage[f] # {} /\ \A g \in PathsOf(call) : preimage[g] # {}
    BY <1>1 DEF FilesInv, CallInv, Put, PathsOf
  <1>5. clobbered' = {}
    <2>1. call.raced \/ disk[f] \in handed \cup {0}
      BY <1>1 DEF FilesInv, CallInv, Put
    <2> QED BY <1>1, <2>1 DEF FilesInv, Put, Overwritten
  <1>6. 0..versions \subseteq 0..v /\ v \in 0..v /\ v \notin 0..versions
    BY <1>3
  <1> HIDE DEF v
  <1>7. /\ disk' \in [File -> 0..v] /\ ledger' \in [File -> 0..v]
        /\ \A g \in File \ {f} : disk'[g] = disk[g] /\ ledger'[g] = ledger[g]
        /\ disk'[f] = v /\ ledger'[f] = v
    BY <1>3, <1>6, FileTypes
  <1>8. FilesTypeOK'
    <2>1. \A g \in File : ledger'[g] \in handed' \cup {0}
      BY <1>3, <1>7 DEF FilesInv, FilesTypeOK
    <2>2. written' \subseteq handed' /\ handed' \cup carried' \subseteq 1..v
      BY <1>3, FileTypes DEF v
    <2>3. preimage' \in [File -> SUBSET (0..v)] /\ change' \in [File -> SUBSET ((0..v) \X (0..v))]
      BY <1>3, <1>6, FileTypes
    <2>4. \A g \in File : \A c \in change'[g] : {c[1]} = preimage'[g]
      BY <1>3 DEF FilesInv, FilesTypeOK
    <2>5. /\ PathsOf(call') \subseteq File /\ call'.at \in {"none", "tracked", "checked", "ran"}
          /\ left' \in Left /\ told' \subseteq File
      BY <1>2, <1>3, FileTypes
    <2> QED BY <1>3, <1>7, <2>1, <2>2, <2>3, <2>4, <2>5 DEF FilesTypeOK, Left
  <1>9. CallInv'
    BY <1>2, <1>3, <1>4 DEF FilesInv, CallInv, CallRecord, FileTools, Put
  <1>10. PreimagesAreOld'
    <2> SUFFICES ASSUME NEW g \in File
                 PROVE  /\ preimage[g] \cap written' \subseteq carried /\ \A x, y \in preimage[g] : x = y
                        /\ preimage[g] = {} => disk'[g] \notin written' \ carried
      BY <1>3 DEF PreimagesAreOld
    <2>1. preimage[g] \subseteq 0..versions /\ disk[g] \in 0..versions
      BY FileTypes
    <2>2. g # f \/ preimage[g] # {}
      BY <1>4
    <2> QED BY <1>3, <1>6, <1>7, <2>1, <2>2 DEF FilesInv, PreimagesAreOld
  <1>11. ASSUME NEW g \in File, g \notin PathsOf(call') PROVE Listed(g)'
    <2>1. g # f /\ disk'[g] = disk[g] /\ disk[g] # v /\ Listed(g)
      BY <1>2, <1>4, <1>6, <1>7, <1>11, FileTypes DEF FilesInv
    <2> QED BY <1>3, <2>1 DEF Listed
  <1> QED BY <1>2, <1>5, <1>8, <1>9, <1>10, <1>11 DEF FilesInv

LEMMA RemoveKeeps ==
  ASSUME FilesInv, Remove
  PROVE  FilesInv'
  <1> USE DEF tracked, hashes
  <1>1. /\ call' \in CallRecord /\ call'.at = "ran" /\ call'.tool = call.tool
        /\ call'.folder = call.folder /\ call'.from = call.from /\ call'.to = call.to
        /\ PathsOf(call') = PathsOf(call)
        /\ call.at = "checked"
    BY RanCall DEF Remove
  <1>2. /\ versions' = versions /\ handed' = handed /\ carried' = carried /\ change' = change /\ left' = left
        /\ preimage' = preimage /\ told' = told /\ written' = written /\ clobbered' = clobbered
        /\ disk' = [f \in File |-> IF f \in call.from THEN 0 ELSE disk[f]]
        /\ ledger' = [f \in File |-> IF f \in PathsOf(call) THEN 0 ELSE ledger[f]]
    BY DEF Remove
  <1>3. disk' \in [File -> 0..versions] /\ ledger' \in [File -> 0..versions] /\ 0 \notin written
    BY <1>2, FileTypes
  <1>4. FilesTypeOK'
    BY <1>1, <1>2, <1>3, FileTypes DEF FilesInv, FilesTypeOK
  <1>5. CallInv' /\ PreimagesAreOld'
    BY <1>1, <1>2, <1>3 DEF FilesInv, PreimagesAreOld, CallInv, CallRecord, FileTools
  <1>6. ASSUME NEW f \in File, f \notin PathsOf(call') PROVE Listed(f)'
    <2>1. Listed(f)
      BY <1>1, <1>6 DEF FilesInv
    <2>2. disk'[f] \in {0, disk[f]}
      BY <1>2
    <2>3. disk'[f] \in written \ carried => disk'[f] = disk[f]
      BY <1>3, <2>2
    <2> QED BY <1>2, <2>1, <2>3 DEF Listed
  <1> QED BY <1>1, <1>2, <1>4, <1>5, <1>6 DEF FilesInv

LEMMA RenameKeeps ==
  ASSUME FilesInv, Rename
  PROVE  FilesInv'
  <1> USE DEF tracked, hashes
  <1>1. /\ call' \in CallRecord /\ call'.at = "ran" /\ call'.tool = call.tool
        /\ call'.folder = call.folder /\ call'.from = call.from /\ call'.to = call.to
        /\ PathsOf(call') = PathsOf(call)
        /\ call.at = "checked" /\ call.tool = "fs.rename" /\ ~call.folder
    BY RanCall DEF Rename
  <1>2. PICK f \in File, g \in File : call.from = {f} /\ call.to = {g} /\ g # f
    BY <1>1 DEF FilesInv, CallInv
  <1>3. /\ versions' = versions /\ handed' = handed /\ carried' = carried /\ change' = change /\ left' = left
        /\ preimage' = preimage /\ told' = told /\ written' = written
        /\ disk' = [disk EXCEPT ![g] = disk[f], ![f] = 0]
        /\ ledger' = [ledger EXCEPT ![g] = IF ledger[f] # 0 THEN ledger[f] ELSE @, ![f] = 0]
    BY <1>2 DEF Rename
  <1>4. clobbered' = {}
    <2>1. call.raced \/ disk[g] = 0
      BY <1>1, <1>2 DEF FilesInv, CallInv
    <2> QED BY <1>2, <2>1 DEF FilesInv, Rename, Overwritten
  <1>5. /\ disk' \in [File -> 0..versions] /\ ledger' \in [File -> 0..versions]
        /\ \A h \in File \ {f, g} : disk'[h] = disk[h] /\ ledger'[h] = ledger[h]
        /\ ledger'[f] = 0 /\ ledger'[g] \in {ledger[f], ledger[g]}
    BY <1>2, <1>3, FileTypes
  <1>6. FilesTypeOK'
    <2>1. \A h \in File : ledger[h] \in handed \cup {0}
      BY DEF FilesInv, FilesTypeOK
    <2>2. \A h \in File : ledger'[h] \in handed' \cup {0}
      BY <1>3, <1>5, <2>1
    <2> QED BY <1>1, <1>3, <1>5, <2>2, FileTypes DEF FilesInv, FilesTypeOK
  <1>7. CallInv'
    BY <1>1, <1>3 DEF FilesInv, CallInv, CallRecord, FileTools
  <1>8. PreimagesAreOld'
    <2>1. f \in PathsOf(call) /\ g \in PathsOf(call)
      BY <1>1, <1>2 DEF PathsOf
    <2>2. preimage[f] # {} /\ preimage[g] # {}
      BY <1>1, <2>1 DEF FilesInv, CallInv
    <2> QED BY <1>3, <1>5, <2>2 DEF FilesInv, PreimagesAreOld
  <1>9. ASSUME NEW h \in File, h \notin PathsOf(call') PROVE Listed(h)'
    <2>1. h \notin {f, g} /\ Listed(h)
      BY <1>1, <1>2, <1>9 DEF FilesInv, PathsOf
    <2> QED BY <1>3, <1>5, <2>1 DEF Listed
  <1> QED BY <1>1, <1>4, <1>6, <1>7, <1>8, <1>9 DEF FilesInv

LEMMA RenameFolderKeeps ==
  ASSUME FilesInv, RenameFolder
  PROVE  FilesInv'
  <1> USE DEF tracked, hashes
  <1>1. /\ call' \in CallRecord /\ call'.at = "ran" /\ call'.tool = call.tool
        /\ call'.folder = call.folder /\ call'.from = call.from /\ call'.to = call.to
        /\ PathsOf(call') = {} /\ PathsOf(call) = {}
        /\ call.at = "checked" /\ call.folder
    BY RanCall DEF RenameFolder, PathsOf
  <1>2. /\ versions' = versions /\ handed' = handed /\ change' = change /\ left' = left
        /\ preimage' = preimage /\ told' = told /\ written' = written /\ clobbered' = clobbered
        /\ ledger' = ledger /\ carried' = carried \cup ({disk[f] : f \in call.from} \ {0})
    BY DEF RenameFolder
  <1>3. PICK whence \in [call.to -> call.from] :
          disk' = [h \in File |-> IF h \in call.to THEN disk[whence[h]]
                                 ELSE IF h \in call.from THEN 0 ELSE disk[h]]
    BY DEF RenameFolder
  <1>4. call.from \subseteq File /\ call.to \subseteq File
    BY FileTypes DEF CallRecord
  <1>5. disk' \in [File -> 0..versions]
    BY <1>3, <1>4, FileTypes
  <1>6. \A h \in File : disk'[h] \in carried' \cup {0, disk[h]}
    <2>1. ASSUME NEW h \in File, h \in call.to
          PROVE  disk'[h] \in carried' \cup {0}
      <3>1. whence[h] \in call.from /\ disk'[h] = disk[whence[h]]
        BY <1>3, <2>1
      <3> QED BY <1>2, <3>1
    <2> QED BY <1>3, <2>1
  <1>7. carried \subseteq carried' /\ carried' \subseteq 1..versions
    <2>1. \A f \in call.from : disk[f] \in 0..versions
      BY <1>4, FileTypes
    <2> QED BY <1>2, <2>1, FileTypes
  <1>8. 0 \notin written
    BY FileTypes
  <1>9. FilesTypeOK'
    BY <1>1, <1>2, <1>5, <1>7, FileTypes DEF FilesInv, FilesTypeOK
  <1>10. CallInv'
    BY <1>1, <1>2 DEF FilesInv, CallInv, CallRecord, FileTools
  <1>11. PreimagesAreOld'
    BY <1>2, <1>6, <1>7, <1>8 DEF FilesInv, PreimagesAreOld
  <1>12. ASSUME NEW h \in File PROVE Listed(h)'
    <2>1. Listed(h)
      BY <1>1 DEF FilesInv
    <2> QED BY <1>2, <1>6, <1>7, <1>8, <2>1 DEF Listed
  <1> QED BY <1>1, <1>2, <1>9, <1>10, <1>11, <1>12 DEF FilesInv

\* What the tracker lists holds what the task wrote, but for large files.
LEMMA ReportLists ==
  ASSUME FilesInv, Report, NEW f \in File
  PROVE  Listed(f)'
  <1> USE DEF tracked, hashes
  <1>1. /\ change' = [g \in File |-> IF g \in PathsOf(call) /\ CompareAfter(g)
                               THEN {<<CHOOSE v \in preimage[g] : TRUE, disk[g]>>} ELSE change[g]]
        /\ disk' = disk /\ preimage' = preimage /\ written' = written /\ carried' = carried /\ call.at = "ran"
    BY DEF Report
  <1>2. CASE f \notin PathsOf(call)
    <2>1. Listed(f) /\ change'[f] = change[f]
      BY <1>1, <1>2 DEF FilesInv
    <2> QED BY <1>1, <2>1 DEF Listed
  <1>3. CASE f \in PathsOf(call) /\ CompareAfter(f)
    <2> DEFINE pre == CHOOSE v \in preimage[f] : TRUE
    <2>1. change'[f] = {<<pre, disk[f]>>}
      BY <1>1, <1>3
    <2>2. <<pre, disk[f]>>[2] = disk[f]
      OBVIOUS
    <2>3. \E c \in change'[f] : c[2] = disk'[f]
      BY <1>1, <2>1, <2>2
    <2> QED BY <2>3 DEF Listed
  <1>4. CASE f \in PathsOf(call) /\ ~CompareAfter(f)
    <2> DEFINE pre == CHOOSE v \in preimage[f] : TRUE
    <2>1. preimage[f] # {}
      BY <1>1, <1>4 DEF FilesInv, CallInv
    <2>2. pre \in preimage[f] /\ pre \notin written \ carried /\ \A v \in preimage[f] : v = pre
      BY <2>1 DEF FilesInv, PreimagesAreOld
    <2>3. Kept(pre) = Kept(disk[f])
      BY <1>4 DEF CompareAfter
    <2>4. (pre \in Large /\ disk[f] \in Large) \/ pre = disk[f]
      BY <2>3 DEF Kept
    <2> QED BY <1>1, <2>2, <2>4 DEF Listed
  <1> QED BY <1>2, <1>3, <1>4

\* Nothing is asked of no call.
LEMMA NoCallStands ==
  ASSUME call' = NoCall
  PROVE  CallInv'
  <1>1. /\ NoCall \in CallRecord /\ NoCall.at = "none" /\ NoCall.folder = FALSE
    BY DEF NoCall, CallRecord, FileTools
  <1> QED BY <1>1 DEF CallInv, CallRecord, FileTools

LEMMA ReportKeeps ==
  ASSUME FilesInv, Report
  PROVE  FilesInv'
  <1> USE DEF tracked, hashes
  <1>1. /\ versions' = versions /\ handed' = handed /\ carried' = carried /\ left' = left /\ ledger' = ledger /\ disk' = disk
        /\ preimage' = preimage /\ told' \subseteq File /\ written' = written /\ clobbered' = clobbered
        /\ call' = NoCall /\ call.at = "ran"
    BY FileTypes DEF Report
  <1>2. NoCall \in CallRecord /\ NoCall.at = "none" /\ PathsOf(NoCall) = {}
    BY DEF NoCall, CallRecord, FileTools, PathsOf
  <1>3. ASSUME NEW f \in File, NEW c \in change'[f]
        PROVE  c \in (0..versions) \X (0..versions) /\ {c[1]} = preimage[f]
    <2>1. CASE f \in PathsOf(call) /\ CompareAfter(f)
      <3> DEFINE pre == CHOOSE v \in preimage[f] : TRUE
      <3>1. c = <<pre, disk[f]>>
        BY <1>3, <2>1 DEF Report
      <3>2. preimage[f] # {}
        BY <1>1, <2>1 DEF FilesInv, CallInv
      <3>3. pre \in preimage[f] /\ \A v \in preimage[f] : v = pre
        BY <3>2 DEF FilesInv, PreimagesAreOld
      <3>4. pre \in 0..versions /\ disk[f] \in 0..versions
        BY <3>3, FileTypes
      <3> HIDE DEF pre
      <3> QED BY <3>1, <3>3, <3>4
    <2>2. CASE ~(f \in PathsOf(call) /\ CompareAfter(f))
      <3>1. c \in change[f]
        BY <1>3, <2>2 DEF Report
      <3> QED BY <3>1, FileTypes DEF FilesInv, FilesTypeOK
    <2> QED BY <2>1, <2>2
  <1>4. change' \in [File -> SUBSET ((0..versions) \X (0..versions))]
    <2>1. change' = [f \in File |-> change'[f]]
      BY DEF Report
    <2>2. \A f \in File : change'[f] \subseteq (0..versions) \X (0..versions)
      BY <1>3
    <2> QED BY <2>1, <2>2
  <1>5. FilesTypeOK'
    BY <1>1, <1>2, <1>3, <1>4, FileTypes DEF FilesInv, FilesTypeOK
  <1>6. CallInv' /\ PreimagesAreOld'
    <2>1. CallInv'
      BY <1>1, NoCallStands
    <2>2. PreimagesAreOld'
      BY <1>1 DEF FilesInv, PreimagesAreOld
    <2> QED BY <2>1, <2>2
  <1>7. \A f \in File : Listed(f)'
    BY ReportLists
  <1> QED BY <1>1, <1>5, <1>6, <1>7 DEF FilesInv

LEMMA UserSavesKeeps ==
  ASSUME FilesInv, NEW f \in File, NEW v \in {0, versions + 1}, UserSaves(f, v)
  PROVE  FilesInv'
  <1> USE DEF tracked, hashes
  <1>1. /\ disk' = [disk EXCEPT ![f] = v] /\ handed' = handed /\ carried' = carried /\ left' = left /\ ledger' = ledger
        /\ preimage' = preimage /\ change' = change /\ told' = told /\ written' = written
        /\ clobbered' = clobbered
    BY DEF UserSaves
  <1>2. /\ versions' \in Nat /\ versions \in Nat /\ versions <= versions' /\ v \in 0..versions'
        /\ v \notin written
    <2>1. versions' = IF v = 0 THEN versions ELSE versions + 1
      BY DEF UserSaves, NewVersion
    <2>2. written \subseteq 1..versions /\ versions \in Nat
      BY FileTypes
    <2> QED BY <2>1, <2>2
  <1>3. 0..versions \subseteq 0..versions' /\ 1..versions \subseteq 1..versions'
    BY <1>2
  <1>4. /\ disk' \in [File -> 0..versions'] /\ disk'[f] = v /\ \A g \in File \ {f} : disk'[g] = disk[g]
    BY <1>1, <1>2, <1>3, FileTypes
  <1>5. /\ call' \in CallRecord /\ call'.at = call.at /\ call'.tool = call.tool
        /\ call'.folder = call.folder /\ call'.from = call.from /\ call'.to = call.to
        /\ PathsOf(call') = PathsOf(call)
        /\ call'.raced \/ call' = call
        /\ call.at = "checked" /\ f \in call.from \cup call.to => call'.raced
    BY FileTypes DEF UserSaves, CallRecord, PathsOf
  <1>6. FilesTypeOK'
    BY <1>1, <1>2, <1>3, <1>4, <1>5, FileTypes DEF FilesInv, FilesTypeOK
  <1>7. CallInv'
    <2>1. ASSUME call.at = "checked", ~call'.raced
          PROVE  f \notin call.from \cup call.to /\ ~call.raced
      BY <1>5, <2>1
    <2> QED BY <1>1, <1>4, <1>5, <2>1 DEF FilesInv, CallInv, CallRecord, FileTools, PathsOf
  <1>8. PreimagesAreOld'
    BY <1>1, <1>2, <1>4 DEF FilesInv, PreimagesAreOld
  <1>9. ASSUME NEW g \in File, call'.at = "none" \/ g \notin PathsOf(call') PROVE Listed(g)'
    BY <1>1, <1>2, <1>4, <1>5, <1>9 DEF FilesInv, Listed
  <1> QED BY <1>1, <1>6, <1>7, <1>8, <1>9 DEF FilesInv

LEMMA TracksKeep ==
  ASSUME FilesInv
  PROVE  /\ \A f \in File, tool \in {"fs.write", "fs.patch", "fs.delete"} :
              Track(tool, FALSE, {f}, {}) => FilesInv'
         /\ \A f, g \in File : f # g /\ Track("fs.rename", FALSE, {f}, {g}) => FilesInv'
         /\ \A from \in SUBSET File : Track("fs.delete", TRUE, from, {}) => FilesInv'
         /\ \A from, to \in SUBSET File : Track("fs.rename", TRUE, from, to) => FilesInv'
  <1>1. ASSUME NEW f \in File, NEW tool \in {"fs.write", "fs.patch", "fs.delete"}, Track(tool, FALSE, {f}, {})
        PROVE  FilesInv'
    <2>1. tool \in FileTools /\ tool # "fs.rename" /\ {f} \in SUBSET File /\ {} \in SUBSET File
      BY DEF FileTools
    <2>2. \E g \in File : {f} = {g}
      OBVIOUS
    <2> QED BY <1>1, <2>1, <2>2, TrackKeeps
  <1>2. ASSUME NEW f \in File, NEW g \in File, f # g, Track("fs.rename", FALSE, {f}, {g})
        PROVE  FilesInv'
    <2>1. "fs.rename" \in FileTools /\ {f} \in SUBSET File /\ {g} \in SUBSET File
      BY DEF FileTools
    <2>2. (\E h \in File : {f} = {h}) /\ \E h \in File : {g} = {h} /\ h \notin {f}
      BY <1>2
    <2> QED BY <1>2, <2>1, <2>2, TrackKeeps
  <1>3. ASSUME NEW from \in SUBSET File, Track("fs.delete", TRUE, from, {})
        PROVE  FilesInv'
    <2>1. "fs.delete" \in FileTools /\ {} \in SUBSET File
      BY DEF FileTools
    <2> QED BY <1>3, <2>1, TrackKeeps
  <1>4. ASSUME NEW from \in SUBSET File, NEW to \in SUBSET File, Track("fs.rename", TRUE, from, to)
        PROVE  FilesInv'
    <2>1. "fs.rename" \in FileTools
      BY DEF FileTools
    <2> QED BY <1>4, <2>1, TrackKeeps
  <1> QED BY <1>1, <1>2, <1>3, <1>4

LEMMA TaskStepsKeep ==
  ASSUME FilesInv, TaskSteps
  PROVE  FilesInv'
  <1>1. CASE \E f \in File : ReadFile(f)
    BY <1>1, ReadFileKeeps
  <1>2. CASE Examine \/ Refused \/ Conflict
    BY <1>2, ExamineKeeps, RefusedKeeps, ConflictKeeps
  <1>3. CASE Put(versions + 1) \/ Remove \/ Rename \/ RenameFolder \/ Report
    BY <1>3, PutKeeps, RemoveKeeps, RenameKeeps, RenameFolderKeeps, ReportKeeps
  <1>4. CASE \E f \in File, tool \in {"fs.write", "fs.patch", "fs.delete"} : Track(tool, FALSE, {f}, {})
    BY <1>4, TracksKeep
  <1>5. CASE \E f, g \in File : f # g /\ Track("fs.rename", FALSE, {f}, {g})
    BY <1>5, TracksKeep
  <1>6. CASE \E from \in SUBSET File : from # {} /\ Track("fs.delete", TRUE, from, {})
    BY <1>6, TracksKeep
  <1>7. CASE \E from, to \in SUBSET File :
               /\ from # {} /\ from \cap to = {} /\ Cardinality(from) = Cardinality(to)
               /\ Track("fs.rename", TRUE, from, to)
    BY <1>7, TracksKeep
  <1> QED BY <1>1, <1>2, <1>3, <1>4, <1>5, <1>6, <1>7 DEF TaskSteps

-----------------------------------------------------------------------------
(* The index                                                                *)

WalkRecord == [on : BOOLEAN, unread : SUBSET File, todo : SUBSET File, listed : SUBSET File]

\* The types, one by one.
LEMMA TablesAgain ==
  ASSUME FilesInv', rows' \in [File -> 0..versions'], linked' \in [File -> SUBSET File],
         indexing' \in {"idle", "indexing", "ready", "error"}, walk' \in WalkRecord,
         walk'.on => indexing' = "indexing" /\ walk'.todo \subseteq walk'.listed,
         walk'.listed \cap walk'.unread = {}, ~walk'.on => walk' = NoWalk,
         \A f \in File : linked'[f] \subseteq AllLinks(rows')[f] /\ rows'[f] \notin Huge,
         WholeAtRest'
  PROVE  IndexInv'
  <1>1. IndexTypeOK'
    BY DEF IndexTypeOK, FilesInv, AllLinks, Indexed
  <1> QED BY <1>1 DEF IndexInv, TablesInv, WalkRecord

LEMMA TableTypes ==
  ASSUME IndexInv
  PROVE  /\ FilesInv /\ rows \in [File -> 0..versions] /\ linked \in [File -> SUBSET File]
         /\ indexing \in {"idle", "indexing", "ready", "error"} /\ walk \in WalkRecord
         /\ walk.on => indexing = "indexing" /\ walk.todo \subseteq walk.listed
         /\ walk.listed \cap walk.unread = {} /\ (~walk.on => walk = NoWalk)
         /\ \A f \in File : linked[f] \subseteq AllLinks(rows)[f] /\ rows[f] \notin Huge
         /\ WholeAtRest
  BY DEF IndexInv, TablesInv, IndexTypeOK, WalkRecord

LEMMA NoWalkIs == /\ NoWalk \in WalkRecord /\ NoWalk.on = FALSE
                  /\ NoWalk.todo = {} /\ NoWalk.unread = {} /\ NoWalk.listed = {}
  BY DEF NoWalk, WalkRecord

\* All the links there can be, and more of them with more rows.
LEMMA LinksOf ==
  ASSUME NEW r \in [File -> Nat]
  PROVE  /\ AllLinks(r) \in [File -> SUBSET File]
         /\ \A s \in [File -> Nat] : (\A f \in File : r[f] # 0 => s[f] # 0) =>
              \A f \in File : AllLinks(r)[f] \subseteq AllLinks(s)[f]
  BY DEF AllLinks, Indexed

\* The index is as it was when only files have changed.
LEMMA IndexStays ==
  ASSUME IndexInv, FilesInv', versions <= versions', UNCHANGED <<table, indexing, walk, broken>>
  PROVE  IndexInv'
  <1> USE DEF table
  <1>1. versions \in Nat /\ versions' \in Nat
    BY FileTypes DEF IndexInv, FilesInv, FilesTypeOK
  <1>2. rows' \in [File -> 0..versions']
    BY <1>1, TableTypes
  <1>3. WholeAtRest'
    BY TableTypes DEF WholeAtRest, AllLinks, Indexed
  <1> QED BY <1>2, <1>3, TableTypes, TablesAgain

LEMMA FileStepsKeep ==
  ASSUME IndexInv, UNCHANGED <<table, indexing, walk, broken>>,
         TaskSteps \/ \E f \in File, v \in {0, versions + 1} : UserSaves(f, v)
  PROVE  IndexInv'
  <1>1. FilesInv' /\ versions \in Nat
    BY TaskStepsKeep, UserSavesKeeps, FileTypes DEF IndexInv
  <1>2. versions' \in {versions, versions + 1}
    <2>1. CASE TaskSteps
      BY <2>1 DEF TaskSteps, ReadFile, Track, Examine, Refused, Conflict, Put, NewVersion, Remove, Rename,
                  RenameFolder, Report
    <2>2. CASE \E f \in File, v \in {0, versions + 1} : UserSaves(f, v)
      BY <2>2 DEF UserSaves, NewVersion
    <2> QED BY <2>1, <2>2
  <1> QED BY <1>1, <1>2, IndexStays

LEMMA StartWalkKeeps ==
  ASSUME IndexInv, NEW forced \in BOOLEAN, StartWalk(forced)
  PROVE  IndexInv'
  <1> USE DEF ofTask, tracked, table
  <1>1. left' \in Left
    <2>1. left \in Left /\ left.walks > 0
      BY TableTypes, FileTypes DEF StartWalk
    <2>2. left.walks - 1 \in Nat
      BY <2>1 DEF Left
    <2> QED BY <2>1, <2>2 DEF StartWalk, Left
  <1>2. FilesInv'
    BY <1>1, TableTypes, FileTypes, FilesStay DEF StartWalk
  <1>3. /\ walk' \in WalkRecord /\ walk'.on = TRUE /\ walk'.todo = {} /\ walk'.listed = {}
        /\ indexing' = "indexing"
    BY NoWalkIs DEF StartWalk, WalkRecord
  <1>4. rows' = rows /\ linked' = linked /\ versions' = versions
    BY DEF StartWalk
  <1>5. WholeAtRest'
    BY <1>3 DEF WholeAtRest
  <1> QED BY <1>2, <1>3, <1>4, <1>5, TableTypes, TablesAgain

LEMMA ListDirectoryKeeps ==
  ASSUME IndexInv, NEW files \in SUBSET File, ListDirectory(files)
  PROVE  IndexInv'
  <1> USE DEF fileVars, tracked, table
  <1> DEFINE there == {f \in files : disk[f] # 0}
  <1>1. FilesInv'
    BY TableTypes, FileTypes, FilesStay DEF ListDirectory, ofTask
  <1>2. /\ walk' \in WalkRecord /\ walk'.on = TRUE /\ walk'.todo = walk.todo \cup there
        /\ walk'.listed = walk.listed \cup there /\ walk'.unread = walk.unread \ files
    BY TableTypes DEF ListDirectory, WalkRecord
  <1>3. /\ rows' = rows /\ linked' = linked /\ versions' = versions /\ indexing' = indexing
        /\ walk.on /\ files \subseteq walk.unread
    BY DEF ListDirectory
  <1>4. WholeAtRest'
    BY <1>2 DEF WholeAtRest
  <1>5. walk'.listed \cap walk'.unread = {} /\ walk'.todo \subseteq walk'.listed
    BY <1>2, <1>3, TableTypes
  <1> QED BY <1>1, <1>2, <1>3, <1>4, <1>5, TableTypes, TablesAgain

LEMMA VisitKeeps ==
  ASSUME IndexInv, NEW f \in File, Visit(f)
  PROVE  IndexInv'
  <1> USE DEF fileVars, tracked
  <1>1. FilesInv'
    BY TableTypes, FileTypes, FilesStay DEF Visit, ofTask
  <1>2. /\ walk' \in WalkRecord /\ walk'.on = TRUE /\ walk'.todo = walk.todo \ {f}
        /\ walk'.listed = walk.listed /\ walk'.unread = walk.unread
    BY TableTypes DEF Visit, WalkRecord
  <1>3. /\ versions' = versions /\ indexing' = indexing /\ walk.on
        /\ versions \in Nat /\ disk \in [File -> 0..versions]
    BY TableTypes, FileTypes DEF Visit
  <1>4. \/ rows' = rows /\ linked' = linked
        \/ /\ rows' = [rows EXCEPT ![f] = disk[f]] /\ linked' = [linked EXCEPT ![f] = {}]
           /\ disk[f] \notin Huge \cup {0}
    BY DEF Visit, IndexOne, Tables
  <1>5. /\ rows' \in [File -> 0..versions] /\ linked' \in [File -> SUBSET File]
        /\ \A g \in File : /\ rows'[g] \notin Huge /\ (rows[g] # 0 => rows'[g] # 0)
                           /\ linked'[g] \subseteq linked[g]
    BY <1>3, <1>4, TableTypes
  <1>6. \A g \in File : linked'[g] \subseteq AllLinks(rows')[g]
    <2>1. rows \in [File -> Nat] /\ rows' \in [File -> Nat]
      BY <1>3, <1>5, TableTypes
    <2>2. \A g \in File : AllLinks(rows)[g] \subseteq AllLinks(rows')[g]
      BY <1>5, <2>1, LinksOf
    <2> QED BY <1>5, <2>2, TableTypes
  <1>7. WholeAtRest'
    BY <1>2 DEF WholeAtRest
  <1> QED BY <1>1, <1>2, <1>3, <1>5, <1>6, <1>7, TableTypes, TablesAgain

LEMMA FinishWalkKeeps ==
  ASSUME IndexInv, FinishWalk
  PROVE  IndexInv'
  <1> USE DEF fileVars, tracked
  <1>1. FilesInv'
    BY TableTypes, FileTypes, FilesStay DEF FinishWalk, ofTask
  <1>2. /\ versions' = versions /\ versions \in Nat /\ walk' = NoWalk /\ indexing' = "ready"
        /\ rows' = [f \in File |-> IF f \in File \ walk.listed THEN 0 ELSE rows[f]]
        /\ linked' = AllLinks(rows')
    BY TableTypes, FileTypes DEF FinishWalk, RemovePaths, Tables
  <1>3. rows' \in [File -> 0..versions] /\ rows' \in [File -> Nat] /\ \A f \in File : rows'[f] \notin Huge
    BY <1>2, TableTypes, LargeAssumption
  <1>4. linked' \in [File -> SUBSET File]
    BY <1>2, <1>3, LinksOf
  <1>5. WholeAtRest'
    BY <1>2 DEF WholeAtRest, AllLinks, Indexed
  <1> QED BY <1>1, <1>2, <1>3, <1>4, <1>5, NoWalkIs, TablesAgain

LEMMA WalkFailsKeeps ==
  ASSUME IndexInv, WalkFails
  PROVE  IndexInv'
  <1> USE DEF fileVars, tracked, table
  <1>1. FilesInv'
    BY TableTypes, FileTypes, FilesStay DEF WalkFails, ofTask
  <1>2. /\ versions' = versions /\ walk' = NoWalk /\ indexing' = "error" /\ broken'
        /\ rows' = rows /\ linked' = linked
    BY DEF WalkFails
  <1>3. WholeAtRest'
    BY <1>2 DEF WholeAtRest
  <1> QED BY <1>1, <1>2, <1>3, NoWalkIs, TableTypes, TablesAgain

LEMMA NotifyKeeps ==
  ASSUME IndexInv, Notify
  PROVE  IndexInv'
  <1> USE DEF ofTask, tracked
  <1> DEFINE gone  == {f \in told : disk[f] = 0 /\ rows[f] # 0}
             fresh == {f \in told : IndexOne(f, Tables) # Tables}
             r     == [f \in File |-> IF f \in fresh THEN disk[f] ELSE IF f \in gone THEN 0 ELSE rows[f]]
             l     == [f \in File |-> IF f \in fresh THEN {} ELSE IF f \in gone THEN {} ELSE linked[f] \ gone]
  <1>1. FilesInv'
    BY TableTypes, FileTypes, FilesStay DEF Notify
  <1>2. /\ versions' = versions /\ versions \in Nat /\ walk' = walk /\ told \subseteq File
        /\ disk \in [File -> 0..versions]
    BY TableTypes, FileTypes DEF Notify
  <1>3. /\ rows' = r /\ linked' = IF gone \cup fresh = {} THEN l ELSE AllLinks(r)
        /\ indexing' = IF gone \cup fresh # {} /\ indexing = "idle" THEN "ready" ELSE indexing
        /\ broken' = (broken /\ gone \cup fresh = {})
    <2>1. \A f \in File : RemovePaths(gone, Tables).rows[f] = IF f \in gone THEN 0 ELSE rows[f]
      BY DEF RemovePaths, Tables
    <2>2. \A f \in File : RemovePaths(gone, Tables).linked[f] = IF f \in gone THEN {} ELSE linked[f] \ gone
      BY DEF RemovePaths, Tables
    <2> DEFINE t == [rows |-> [f \in File |-> IF f \in fresh THEN disk[f] ELSE RemovePaths(gone, Tables).rows[f]],
                     linked |-> [f \in File |-> IF f \in fresh THEN {} ELSE RemovePaths(gone, Tables).linked[f]]]
    <2>3. t.rows = r /\ t.linked = l
      BY <2>1, <2>2
    <2>4. ResolveFor(told, t).rows = t.rows /\ ResolveFor(told, t).linked = AllLinks(t.rows)
      BY DEF ResolveFor
    <2>5. /\ rows' = (IF gone \cup fresh = {} THEN t ELSE ResolveFor(told, t)).rows
          /\ linked' = (IF gone \cup fresh = {} THEN t ELSE ResolveFor(told, t)).linked
          /\ indexing' = IF gone \cup fresh # {} /\ indexing = "idle" THEN "ready" ELSE indexing
          /\ broken' = (broken /\ gone \cup fresh = {})
      BY DEF Notify
    <2> HIDE DEF t, gone, fresh, r, l
    <2> QED BY <2>3, <2>4, <2>5
  <1>4. \A f \in fresh : disk[f] \notin Huge \cup {0}
    BY DEF IndexOne, Tables
  <1>5. rows' \in [File -> 0..versions] /\ rows' \in [File -> Nat] /\ \A f \in File : rows'[f] \notin Huge
    BY <1>2, <1>3, <1>4, TableTypes, LargeAssumption
  <1>6. CASE gone \cup fresh = {}
    <2>1. rows' = rows /\ linked' = linked
      <3>1. r = rows /\ l = linked
        BY <1>6, TableTypes
      <3> QED BY <1>3, <1>6, <3>1
    <2>2. indexing' = indexing /\ (~broken' => ~broken)
      <3> HIDE DEF gone, fresh
      <3> QED BY <1>3, <1>6
    <2>3. WholeAtRest'
      BY <1>2, <2>1, <2>2, TableTypes DEF WholeAtRest, AllLinks, Indexed
    <2> QED BY <1>1, <1>2, <2>1, <2>2, <2>3, TableTypes, TablesAgain
  <1>7. CASE gone \cup fresh # {}
    <2>1. linked' = AllLinks(rows') /\ linked' \in [File -> SUBSET File]
      BY <1>3, <1>5, <1>7, LinksOf
    <2>2. indexing' \in {"idle", "indexing", "ready", "error"} /\ (walk.on => indexing' = "indexing")
      BY <1>3, TableTypes
    <2>3. WholeAtRest'
      BY <2>1 DEF WholeAtRest, AllLinks, Indexed
    <2> QED BY <1>1, <1>2, <1>5, <2>1, <2>2, <2>3, TableTypes, TablesAgain
  <1> QED BY <1>6, <1>7

LEMMA RestartKeeps ==
  ASSUME IndexInv, NEW emptied \in BOOLEAN, Restart(emptied)
  PROVE  IndexInv'
  <1>1. /\ disk' = disk /\ versions' = versions /\ clobbered' = clobbered /\ call' = NoCall
        /\ ledger' = Forgotten /\ handed' = {} /\ written' = {} /\ carried' = {} /\ told' = {}
        /\ preimage' = Untracked /\ change' = Untracked /\ walk' = NoWalk
    BY DEF Restart
  <1>2. left' \in Left
    <2>1. left \in Left /\ left.walks > 0
      BY TableTypes, FileTypes DEF Restart
    <2>2. left.walks - 1 \in Nat
      BY <2>1 DEF Left
    <2> QED BY <2>1, <2>2 DEF Restart, Left
  <1>3. /\ NoCall \in CallRecord /\ NoCall.at = "none" /\ PathsOf(NoCall) = {}
        /\ versions \in Nat /\ disk \in [File -> 0..versions]
    BY TableTypes, FileTypes DEF NoCall, CallRecord, FileTools, PathsOf
  <1>4. FilesTypeOK'
    <2>1. /\ ledger' \in [File -> 0..versions]
          /\ \A f \in File : ledger'[f] \in handed' \cup {0}
      BY <1>1, <1>3 DEF Forgotten
    <2>2. /\ preimage' \in [File -> SUBSET (0..versions)]
          /\ change' \in [File -> SUBSET ((0..versions) \X (0..versions))]
          /\ \A f \in File : \A c \in change'[f] : {c[1]} = preimage'[f]
      BY <1>1 DEF Untracked
    <2> QED BY <1>1, <1>2, <1>3, <2>1, <2>2 DEF FilesTypeOK, Left, CallRecord
  <1>5. CallInv' /\ PreimagesAreOld'
    <2>1. CallInv'
      BY <1>1, NoCallStands
    <2>2. PreimagesAreOld'
      BY <1>1 DEF PreimagesAreOld, Untracked
    <2> QED BY <2>1, <2>2
  <1>6. FilesInv'
    BY <1>1, <1>4, <1>5, TableTypes DEF FilesInv, Listed
  <1>7. CASE emptied
    <2>1. rows' = Forgotten /\ linked' = Untracked /\ ~broken' /\ indexing' \in {"ready", "idle"}
      BY <1>7 DEF Restart
    <2>2. /\ rows' \in [File -> 0..versions] /\ linked' \in [File -> SUBSET File]
          /\ linked' = AllLinks(rows') /\ \A f \in File : rows'[f] \notin Huge
      BY <1>3, <2>1, LargeAssumption DEF Forgotten, Untracked, AllLinks
    <2>3. WholeAtRest'
      BY <2>2 DEF WholeAtRest, AllLinks, Indexed
    <2> QED BY <1>1, <1>6, <2>1, <2>2, <2>3, NoWalkIs, TablesAgain
  <1>8. CASE ~emptied
    <2>1. /\ rows' = rows /\ linked' = linked /\ broken' = (broken \/ walk.on)
          /\ indexing' \in {"ready", "idle"}
      BY <1>8 DEF Restart
    <2>2. WholeAtRest'
      BY <1>1, <2>1, TableTypes DEF WholeAtRest, AllLinks, Indexed
    <2> QED BY <1>1, <1>6, <2>1, <2>2, NoWalkIs, TableTypes, TablesAgain
  <1> QED BY <1>7, <1>8

LEMMA IndexInitInv ==
  ASSUME IndexInit
  PROVE  IndexInv
  <1> USE DEF IndexInit, FilesInit
  <1>1. versions \in Nat /\ disk \in [File -> 0..versions] /\ left \in Left
    BY FileAssumption, BudgetAssumption, FS_CardinalityType DEF Left
  <1>2. NoCall \in CallRecord /\ NoCall.at = "none" /\ PathsOf(NoCall) = {}
    BY DEF NoCall, CallRecord, FileTools, PathsOf
  <1>3. FilesTypeOK
    <2>1. ledger \in [File -> 0..versions] /\ \A f \in File : ledger[f] \in handed \cup {0}
      BY <1>1 DEF Forgotten
    <2>2. /\ preimage \in [File -> SUBSET (0..versions)]
          /\ change \in [File -> SUBSET ((0..versions) \X (0..versions))]
          /\ \A f \in File : \A c \in change[f] : {c[1]} = preimage[f]
      BY DEF Untracked
    <2> QED BY <1>1, <1>2, <2>1, <2>2 DEF FilesTypeOK, Left, CallRecord
  <1>4. CallInv /\ PreimagesAreOld
    <2>1. call = NoCall /\ NoCall.folder = FALSE
      BY DEF NoCall
    <2>2. CallInv
      BY <1>2, <2>1 DEF CallInv, CallRecord, FileTools
    <2>3. PreimagesAreOld
      BY DEF PreimagesAreOld, Untracked
    <2> QED BY <2>2, <2>3
  <1>5. FilesInv
    BY <1>3, <1>4 DEF FilesInv, Listed
  <1>6. /\ rows \in [File -> 0..versions] /\ linked \in [File -> SUBSET File]
        /\ linked = AllLinks(rows) /\ \A f \in File : rows[f] \notin Huge
    BY <1>1, LargeAssumption DEF Forgotten, Untracked, AllLinks
  <1>7. IndexTypeOK
    BY <1>3, <1>6, NoWalkIs DEF IndexTypeOK
  <1> QED BY <1>5, <1>6, <1>7, NoWalkIs DEF IndexInv, TablesInv, WalkRecord, WholeAtRest

LEMMA IndexStepKeeps ==
  ASSUME IndexInv, [IndexNext]_indexVars
  PROVE  IndexInv'
  <1>1. CASE UNCHANGED indexVars
    <2> USE DEF indexVars, fileVars, tracked, table
    <2>1. FilesInv'
      BY <1>1, TableTypes, FileTypes, FilesStay DEF ofTask
    <2>2. versions \in Nat
      BY TableTypes, FileTypes
    <2> QED BY <1>1, <2>1, <2>2, IndexStays
  <1>2. CASE TaskSteps /\ UNCHANGED <<table, indexing, everFull, walk, broken>>
    BY <1>2, FileStepsKeep
  <1>3. CASE /\ \E f \in File, v \in {0, versions + 1} : UserSaves(f, v)
             /\ UNCHANGED <<table, indexing, everFull, walk, broken>>
    BY <1>3, FileStepsKeep
  <1>4. CASE (\E forced \in BOOLEAN : StartWalk(forced)) \/ FinishWalk \/ WalkFails
    BY <1>4, StartWalkKeeps, FinishWalkKeeps, WalkFailsKeeps
  <1>5. CASE (\E files \in SUBSET File : ListDirectory(files)) \/ (\E f \in File : Visit(f))
    BY <1>5, ListDirectoryKeeps, VisitKeeps
  <1>6. CASE Notify \/ (\E emptied \in BOOLEAN : Restart(emptied))
    BY <1>6, NotifyKeeps, RestartKeeps
  <1> QED BY <1>1, <1>2, <1>3, <1>4, <1>5, <1>6 DEF IndexNext

\* What a tool has tested of a file holds until the user saves it, pre-images
\* are the task's own writing only where that was moved with its folder, and
\* links are whole whenever no walk is
\* under way (packages/tools/src/tools/fs.ts, core/src/change-tracker.ts,
\* context/src/indexer.ts).
THEOREM IndexInvHolds == IndexSpec => []IndexInv
  <1> QED BY IndexInitInv, IndexStepKeeps, PTL DEF IndexSpec

\* "Never a silent overwrite" (checkWriteConflict in packages/tools/src/tools/fs.ts
\* with the read ledger) of content whose hash the task was not given, unless
\* it was saved between the test and the write, for any files, calls and saves.
THEOREM NothingIsClobberedHolds == IndexSpec => []NothingIsClobbered
  <1>1. IndexInv => NothingIsClobbered
    BY DEF IndexInv, FilesInv, NothingIsClobbered
  <1> QED BY <1>1, IndexInvHolds, PTL

\* The changes of a task list what it wrote, but for large files and for what
\* it moved with a folder (before() and after() of
\* packages/core/src/change-tracker.ts).
THEOREM EditsAreListedHolds == IndexSpec => []EditsAreListed
  <1>1. IndexInv => EditsAreListed
    BY DEF IndexInv, FilesInv, EditsAreListed, Listed
  <1> QED BY <1>1, IndexInvHolds, PTL

\* An index that is ready has every link (resolveImportsFor and removePaths of
\* packages/context/src/indexer.ts), whatever walks and updates overlap.
THEOREM ImportGraphIsWholeHolds == IndexSpec => []ImportGraphIsWhole
  <1>1. IndexInv => ImportGraphIsWhole
    BY TableTypes DEF WholeAtRest, ImportGraphIsWhole
  <1> QED BY <1>1, IndexInvHolds, PTL

-----------------------------------------------------------------------------
(* Checks                                                                   *)

LEMMA Tiers ==
  /\ Validator = {"syntax", "typecheck", "lint", "tests", "build"}
  /\ \A v \in Validator : Tier[v] \in 0..3
  /\ \A i \in 1..5 : Order[i] \in Validator
  /\ \A i, j \in 1..5 : Order[i] = Order[j] => i = j
  /\ \A v \in Validator : \E i \in 1..5 : v = Order[i]
  <1>1. /\ Order[1] = "syntax" /\ Order[2] = "typecheck" /\ Order[3] = "lint"
        /\ Order[4] = "tests" /\ Order[5] = "build"
    BY DEF Order
  <1>2. Validator = {"syntax", "typecheck", "lint", "tests", "build"}
    BY <1>1 DEF Validator
  <1>3. \A v \in Validator : Tier[v] \in 0..3
    BY <1>2 DEF Tier
  <1> QED BY <1>1, <1>2, <1>3 DEF Validator

\* Where the run goes on, and what it says of those it leaves behind.
LEMMA PushedIs ==
  ASSUME NEW c \in CheckRecord, c.next <= 5,
         NEW status \in {"none", "passed", "failed", "error", "skipped"}
  PROVE  LET d == Pushed(c, status) IN
         /\ d \in CheckRecord /\ d.next > c.next
         /\ d.at = c.at /\ d.by = c.by /\ d.maxTier = c.maxTier /\ d.failedTier = c.failedTier
         /\ d.aborted = c.aborted /\ d.quiet = c.quiet /\ d.sure = c.sure
         /\ d.status[Order[c.next]] = status
         /\ \A i \in 1..5 : i < c.next \/ i >= d.next => d.status[Order[i]] = c.status[Order[i]]
         /\ \A i \in 1..5 : i > c.next /\ i < d.next => d.status[Order[i]] = "skipped" /\ Skips(c, Order[i])
  <1> DEFINE later == {i \in 1..5 : i > c.next /\ ~Skips(c, Order[i])} \cup {6}
             next  == CHOOSE i \in later : \A j \in later : i <= j
             said  == [v \in Validator |-> CASE v = Order[c.next] -> status
                                             [] \E i \in c.next + 1..next - 1 : v = Order[i] -> "skipped"
                                             [] OTHER -> c.status[v]]
             d     == [c EXCEPT !.next = next, !.status = said]
  <1>1. c.next \in 1..5 /\ c.status \in [Validator -> {"none", "passed", "failed", "error", "skipped"}]
    BY DEF CheckRecord
  <1>2. next \in later /\ \A j \in later : next <= j
    <2>1. later \subseteq Nat /\ 6 \in later
      OBVIOUS
    <2>2. PICK i \in later : \A j \in later : ~(<<j, i>> \in OpToRel(<, Nat))
      <3> HIDE DEF later
      <3> QED BY <2>1, NatLessThanWellFounded, WFMin
    <2>3. \A j \in later : i <= j
      <3> HIDE DEF later
      <3> TAKE j \in later
      <3>1. ~(j < i)
        BY <2>1, <2>2 DEF OpToRel
      <3> QED BY <2>1, <3>1
    <2> HIDE DEF later
    <2> QED BY <2>2, <2>3
  <1>3. next \in 1..6 /\ next > c.next
    BY <1>1, <1>2
  <1>4. \A i \in 1..5 : i > c.next /\ i < next => Skips(c, Order[i])
    <2> TAKE i \in 1..5
    <2>1. i > c.next /\ ~Skips(c, Order[i]) => i \in later
      OBVIOUS
    <2> HIDE DEF later, next
    <2> QED BY <1>2, <1>3, <2>1
  <1> HIDE DEF later, next
  <1>5. said \in [Validator -> {"none", "passed", "failed", "error", "skipped"}]
    BY <1>1
  <1>6. said[Order[c.next]] = status
    <2>1. Order[c.next] \in Validator
      BY <1>1, Tiers
    <2>2. ~\E j \in c.next + 1..next - 1 : Order[c.next] = Order[j]
      <3> SUFFICES ASSUME NEW j \in c.next + 1..next - 1, Order[c.next] = Order[j] PROVE FALSE
        OBVIOUS
      <3>1. j \in 1..5 /\ c.next # j
        BY <1>1, <1>3
      <3> QED BY <1>1, <3>1, Tiers
    <2> QED BY <2>1, <2>2
  <1>7. \A i \in 1..5 : i < c.next \/ i >= next => said[Order[i]] = c.status[Order[i]]
    <2> SUFFICES ASSUME NEW i \in 1..5, i < c.next \/ i >= next
                 PROVE  said[Order[i]] = c.status[Order[i]]
      OBVIOUS
    <2>1. Order[i] \in Validator /\ Order[i] # Order[c.next]
      BY <1>1, <1>3, Tiers
    <2>2. ~\E j \in c.next + 1..next - 1 : Order[i] = Order[j]
      <3> SUFFICES ASSUME NEW j \in c.next + 1..next - 1, Order[i] = Order[j] PROVE FALSE
        OBVIOUS
      <3>1. j \in 1..5 /\ i # j
        BY <1>1, <1>3
      <3> QED BY <3>1, Tiers
    <2> QED BY <2>1, <2>2
  <1>8. \A i \in 1..5 : i > c.next /\ i < next => said[Order[i]] = "skipped"
    <2> SUFFICES ASSUME NEW i \in 1..5, i > c.next, i < next
                 PROVE  said[Order[i]] = "skipped"
      OBVIOUS
    <2>1. Order[i] \in Validator /\ Order[i] # Order[c.next]
      BY <1>1, <1>3, Tiers
    <2>2. i \in c.next + 1..next - 1
      BY <1>1, <1>3
    <2> QED BY <2>1, <2>2
  <1> HIDE DEF said
  <1>9. /\ d \in CheckRecord /\ d.next = next /\ d.status = said
        /\ d.at = c.at /\ d.by = c.by /\ d.maxTier = c.maxTier /\ d.failedTier = c.failedTier
        /\ d.aborted = c.aborted /\ d.quiet = c.quiet /\ d.sure = c.sure
    BY <1>3, <1>5 DEF CheckRecord
  <1>10. Pushed(c, status) = d
    BY DEF Pushed, d, said, next, later
  <1> HIDE DEF d
  <1> QED BY <1>3, <1>4, <1>6, <1>7, <1>8, <1>9, <1>10

\* What an answer that is sure says of the files.
LEMMA AnswersAreEarned ==
  ASSUME NEW v \in Validator, NEW a \in Answers(v), NEW killed \in BOOLEAN
  PROVE  LET b == IF killed THEN StoppedTool(v, a) ELSE a IN
         /\ b.status \in {"passed", "failed", "error"} /\ b.sure \in BOOLEAN
         /\ b.sure /\ ~killed => /\ b.status # "error"
                                 /\ b.status = "failed" => v \in faulty
                                 /\ b.status = "passed" => v \notin faulty
  <1>1. \A status, sure : Answer(status, sure).status = status /\ Answer(status, sure).sure = sure
    BY DEF Answer
  <1>2. /\ a.status \in {"passed", "failed", "error"} /\ a.sure \in BOOLEAN
        /\ a.sure => /\ a.status # "error"
                     /\ a.status = "failed" => v \in faulty
                     /\ a.status = "passed" => v \notin faulty
    <2>1. CASE v = "syntax"
      <3>1. a \in SyntaxAnswers
        BY <2>1 DEF Answers
      <3>2. \/ a \in {Answer("failed", TRUE), Answer("passed", FALSE)} /\ v \in faulty
            \/ a \in {Answer("passed", TRUE), Answer("failed", FALSE)} /\ v \notin faulty
        BY <2>1, <3>1 DEF SyntaxAnswers
      <3>3. CASE a = Answer("failed", TRUE) /\ v \in faulty
        BY <3>3 DEF Answer
      <3>4. CASE a = Answer("passed", TRUE) /\ v \notin faulty
        BY <3>4 DEF Answer
      <3>5. CASE a = Answer("passed", FALSE)
        BY <3>5 DEF Answer
      <3>6. CASE a = Answer("failed", FALSE)
        BY <3>6 DEF Answer
      <3> QED BY <3>2, <3>3, <3>4, <3>5, <3>6
    <2>2. CASE v = "lint"
      <3>1. a \in LintAnswers
        BY <2>2 DEF Answers
      <3>2. CASE a = Answer("error", FALSE)
        BY <3>2 DEF Answer
      <3>3. CASE a # Answer("error", FALSE)
        <4>1. PICK read \in Diagnosed("lint") :
                a = IF read THEN Answer("failed", TRUE) ELSE Answer("passed", "lint" \notin faulty)
          BY <3>1, <3>3 DEF LintAnswers
        <4>2. read \in BOOLEAN /\ (read => "lint" \in faulty)
          BY <4>1 DEF Diagnosed
        <4> QED BY <2>2, <4>1, <4>2 DEF Answer
      <3> QED BY <3>2, <3>3
    <2>3. CASE v \notin {"syntax", "lint"}
      <3>1. a \in ToolAnswers(v)
        BY <2>3 DEF Answers
      <3>2. CASE \E read \in Diagnosed(v) :
                   a = IF read THEN Answer("failed", TRUE) ELSE Answer("error", FALSE)
        <4>1. PICK read \in Diagnosed(v) :
                a = IF read THEN Answer("failed", TRUE) ELSE Answer("error", FALSE)
          BY <3>2
        <4>2. read \in BOOLEAN /\ (read => v \in faulty)
          BY <4>1 DEF Diagnosed
        <4> QED BY <4>1, <4>2 DEF Answer
      <3>3. CASE v \notin faulty /\ a = Answer("passed", TRUE)
        BY <3>3 DEF Answer
      <3> QED BY <3>1, <3>2, <3>3 DEF ToolAnswers
    <2> QED BY <2>1, <2>2, <2>3
  <1> QED BY <1>1, <1>2 DEF StoppedTool

\* When one run moves.
LEMMA RunMoves ==
  ASSUME ValidationInv, NEW r \in Check, NEW c \in CheckRecord, check' = [check EXCEPT ![r] = c],
         faulty' = faulty, editions' = editions, RunInv(c),
         \A i \in 1..5 : c.status[Order[i]] = "none" <=> i >= c.next,
         running' = {s \in Check : check'[s].at = "running" /\ check'[s].by = "user"},
         \A s, u \in running' : s = u,
         latest' \subseteq Check, \A s \in latest' : check'[s].at = "done" /\ check'[s].by = "user"
  PROVE  ValidationInv'
  <1>1. check \in [Check -> CheckRecord] /\ \A s \in Check : RunInv(check[s])
    BY DEF ValidationInv
  <1>2. check' \in [Check -> CheckRecord] /\ check'[r] = c /\ \A s \in Check \ {r} : check'[s] = check[s]
    BY <1>1
  <1>3. \A s \in Check : RunInv(check'[s])
    BY <1>1, <1>2
  <1>4. \A s \in Check : RunInv(check[s])'
    BY <1>3 DEF RunInv, Spoken, PassedOver
  <1>5. ValidationTypeOK'
    BY <1>2 DEF ValidationInv, ValidationTypeOK, CheckRecord
  <1> QED BY <1>2, <1>4, <1>5 DEF ValidationInv

\* A run's record before its first validator and after its last.
LEMMA FreshRun ==
  ASSUME NEW c, c.next = 1, c.failedTier = NoFailedTier, c.status = [v \in Validator |-> "none"]
  PROVE  RunInv(c) /\ \A i \in 1..5 : c.status[Order[i]] = "none" <=> i >= c.next
  <1>1. \A i \in 1..5 : c.status[Order[i]] = "none" /\ i >= c.next
    BY Tiers
  <1> QED BY <1>1 DEF RunInv

LEMMA NoCheckIs ==
  /\ NoCheck \in CheckRecord /\ NoCheck.next = 1 /\ NoCheck.failedTier = NoFailedTier
  /\ NoCheck.status = [v \in Validator |-> "none"] /\ NoCheck.at = "none"
  BY DEF NoCheck, CheckRecord, NoFailedTier

LEMMA CheckTypes ==
  ASSUME ValidationInv
  PROVE  /\ check \in [Check -> CheckRecord]
         /\ \A r \in Check : \A i \in 1..5 : check[r].status[Order[i]] = "none" <=> i >= check[r].next
         /\ running = {r \in Check : check[r].at = "running" /\ check[r].by = "user"}
         /\ \A r, s \in running : r = s
         /\ latest \subseteq Check /\ \A r \in latest : check[r].at = "done" /\ check[r].by = "user"
  BY DEF ValidationInv, ValidationTypeOK

LEMMA StartCheckKeeps ==
  ASSUME ValidationInv, NEW r \in Check, NEW by \in {"task", "user"}, NEW tier \in 1..3,
         StartCheck(r, by, tier)
  PROVE  ValidationInv'
  <1> DEFINE c == [NoCheck EXCEPT !.at = "running", !.by = by, !.maxTier = tier]
  <1>1. /\ c \in CheckRecord /\ RunInv(c) /\ c.at = "running" /\ c.by = by
        /\ \A i \in 1..5 : c.status[Order[i]] = "none" <=> i >= c.next
    <2>1. tier \in 0..3
      OBVIOUS
    <2>2. /\ c \in CheckRecord /\ c.at = "running" /\ c.by = by /\ c.next = 1
          /\ c.failedTier = NoFailedTier /\ c.status = [v \in Validator |-> "none"]
      BY <2>1, NoCheckIs DEF CheckRecord
    <2> HIDE DEF c
    <2> QED BY <2>2, FreshRun
  <1>2. /\ check' = [check EXCEPT ![r] = c] /\ check[r].at = "none" /\ (by = "user" => running = {})
        /\ running' = (IF by = "user" THEN {r} ELSE running) /\ latest' = latest
        /\ faulty' = faulty /\ editions' = editions
    BY DEF StartCheck
  <1> HIDE DEF c
  <1>3. check'[r] = c /\ \A s \in Check \ {r} : check'[s] = check[s]
    BY <1>1, <1>2, CheckTypes
  <1>4. running' = {s \in Check : check'[s].at = "running" /\ check'[s].by = "user"}
    BY <1>1, <1>2, <1>3, CheckTypes
  <1>5. \A s, u \in running' : s = u
    BY <1>2, CheckTypes
  <1>6. \A s \in latest' : check'[s].at = "done" /\ check'[s].by = "user"
    <2> SUFFICES ASSUME NEW s \in latest PROVE check'[s].at = "done" /\ check'[s].by = "user"
      BY <1>2
    <2>1. check[s].at = "done" /\ check[s].by = "user" /\ s # r
      BY <1>2, CheckTypes
    <2>2. check'[s] = check[s]
      BY <1>2, <2>1, CheckTypes
    <2> QED BY <2>1, <2>2
  <1> QED BY <1>1, <1>2, <1>4, <1>5, <1>6, CheckTypes, RunMoves

LEMMA FinishCheckKeeps ==
  ASSUME ValidationInv, NEW r \in Check, FinishCheck(r)
  PROVE  ValidationInv'
  <1> DEFINE c == [NoCheck EXCEPT !.at = "done", !.by = check[r].by]
  <1>1. /\ c \in CheckRecord /\ RunInv(c) /\ c.at = "done" /\ c.by = check[r].by
        /\ \A i \in 1..5 : c.status[Order[i]] = "none" <=> i >= c.next
    <2>1. check[r].by \in {"task", "user"}
      BY CheckTypes DEF CheckRecord
    <2>2. /\ c \in CheckRecord /\ c.at = "done" /\ c.by = check[r].by /\ c.next = 1
          /\ c.failedTier = NoFailedTier /\ c.status = [v \in Validator |-> "none"]
      BY <2>1, NoCheckIs DEF CheckRecord
    <2> HIDE DEF c
    <2> QED BY <2>2, FreshRun
  <1>2. /\ check' = [check EXCEPT ![r] = c] /\ running' = running \ {r}
        /\ latest' = (IF check[r].by = "user" THEN {r} ELSE latest)
        /\ faulty' = faulty /\ editions' = editions
    BY DEF FinishCheck
  <1> HIDE DEF c
  <1>3. check'[r] = c /\ \A s : s # r => check'[s] = check[s]
    BY <1>1, <1>2, CheckTypes
  <1>4. running' = {s \in Check : check'[s].at = "running" /\ check'[s].by = "user"}
    BY <1>1, <1>2, <1>3, CheckTypes
  <1>5. \A s, u \in running' : s = u
    BY <1>2, CheckTypes
  <1>6. \A s \in latest' : check'[s].at = "done" /\ check'[s].by = "user"
    BY <1>1, <1>2, <1>3, CheckTypes
  <1> QED BY <1>1, <1>2, <1>4, <1>5, <1>6, CheckTypes, RunMoves

\* What a run has said stays so: with a validator passed over ...
LEMMA SkipKeeps ==
  ASSUME NEW c \in CheckRecord, RunInv(c), c.at = "running", c.next <= 5, Skips(c, Order[c.next])
  PROVE  RunInv(Pushed(c, "skipped"))
  <1> DEFINE d == Pushed(c, "skipped")
  <1>1. /\ d \in CheckRecord /\ d.next > c.next
        /\ d.at = c.at /\ d.maxTier = c.maxTier /\ d.failedTier = c.failedTier
        /\ d.aborted = c.aborted /\ d.quiet = c.quiet /\ d.sure = c.sure
        /\ d.status[Order[c.next]] = "skipped"
        /\ \A i \in 1..5 : i < c.next \/ i >= d.next => d.status[Order[i]] = c.status[Order[i]]
        /\ \A i \in 1..5 : i > c.next /\ i < d.next => d.status[Order[i]] = "skipped" /\ Skips(c, Order[i])
    BY PushedIs
  <1> HIDE DEF d
  <1>2. c.next \in Nat /\ d.next \in Nat /\ c.next \in 1..5
    BY <1>1 DEF CheckRecord
  <1>3. ASSUME NEW i \in 1..5, i < d.next
        PROVE  Spoken(d, i)
    <2>1. CASE i < c.next
      <3>1. Spoken(c, i) /\ d.status[Order[i]] = c.status[Order[i]]
        BY <1>1, <2>1 DEF RunInv
      <3> QED BY <1>1, <3>1 DEF Spoken, PassedOver
    <2>2. CASE i >= c.next
      <3>1. d.status[Order[i]] = "skipped" /\ Skips(c, Order[i])
        BY <1>1, <1>2, <1>3, <2>2
      <3> QED BY <1>1, <3>1 DEF Spoken, PassedOver, Skips
    <2> QED BY <1>2, <2>1, <2>2
  <1>4. d.failedTier # NoFailedTier => \E i \in 1..5 : i < d.next /\ d.status[Order[i]] = "failed"
    <2> SUFFICES ASSUME d.failedTier # NoFailedTier
                 PROVE  \E i \in 1..5 : i < d.next /\ d.status[Order[i]] = "failed"
      OBVIOUS
    <2>1. PICK i \in 1..5 : i < c.next /\ c.status[Order[i]] = "failed"
      BY <1>1 DEF RunInv
    <2> QED BY <1>1, <1>2, <2>1
  <1> QED BY <1>1, <1>3, <1>4 DEF RunInv, d

\* ... and with one that has answered.
LEMMA AnswerKeeps ==
  ASSUME NEW b \in CheckRecord, RunInv(b), b.at = "running", b.next <= 5, ~Skips(b, Order[b.next]),
         NEW c \in CheckRecord, NEW status \in {"passed", "failed", "error"},
         c.at = b.at, c.next = b.next, c.status = b.status, c.maxTier = b.maxTier, c.quiet = b.quiet,
         c.sure => b.sure,
         c.failedTier = IF status = "failed" THEN Tier[Order[b.next]] ELSE b.failedTier,
         c.sure /\ ~c.aborted => /\ status # "error"
                                 /\ status = "failed" => Order[b.next] \in faulty
                                 /\ status = "passed" => Order[b.next] \notin faulty
  PROVE  RunInv(Pushed(c, status))
  <1> DEFINE d == Pushed(c, status)
  <1>1. /\ d \in CheckRecord /\ d.next > c.next
        /\ d.at = c.at /\ d.maxTier = c.maxTier /\ d.failedTier = c.failedTier
        /\ d.aborted = c.aborted /\ d.quiet = c.quiet /\ d.sure = c.sure
        /\ d.status[Order[c.next]] = status
        /\ \A i \in 1..5 : i < c.next \/ i >= d.next => d.status[Order[i]] = c.status[Order[i]]
        /\ \A i \in 1..5 : i > c.next /\ i < d.next => d.status[Order[i]] = "skipped" /\ Skips(c, Order[i])
    BY PushedIs
  <1> HIDE DEF d
  <1>2. /\ c.next \in Nat /\ d.next \in Nat /\ b.next \in 1..5 /\ b.failedTier \in Nat /\ c.failedTier \in Nat
        /\ \A v \in Validator : Tier[v] \in Nat
    BY <1>1, Tiers DEF CheckRecord
  <1>3. /\ Tier[Order[b.next]] <= b.maxTier /\ Tier[Order[b.next]] <= b.failedTier /\ ~b.aborted
        /\ Order[b.next] \in Applicable /\ b.maxTier \in Nat
    <2>1. Order[b.next] \in Validator /\ Tier[Order[b.next]] \in Nat /\ b.maxTier \in Nat
      BY <1>2, Tiers DEF CheckRecord
    <2> QED BY <1>2, <2>1 DEF Skips
  <1>4. c.failedTier <= b.failedTier
    BY <1>2, <1>3
  <1>5. ASSUME NEW i \in 1..5, i < d.next
        PROVE  Spoken(d, i)
    <2>1. CASE i < c.next
      <3>1. Spoken(b, i) /\ d.status[Order[i]] = b.status[Order[i]]
        BY <1>1, <2>1 DEF RunInv
      <3>2. Tier[Order[i]] \in Nat
        BY <1>2, Tiers
      <3>3. PassedOver(b, Order[i]) => PassedOver(d, Order[i])
        BY <1>1, <1>2, <1>4, <3>2 DEF PassedOver
      <3> QED BY <1>1, <1>3, <3>1, <3>3 DEF Spoken
    <2>2. CASE i = c.next
      <3>1. d.status[Order[i]] = status
        BY <1>1, <2>2
      <3> QED BY <1>1, <1>3, <2>2, <3>1 DEF Spoken
    <2>3. CASE i > c.next
      <3>1. d.status[Order[i]] = "skipped" /\ Skips(c, Order[i])
        BY <1>1, <1>5, <2>3
      <3> QED BY <1>1, <3>1 DEF Spoken, PassedOver, Skips
    <2> QED BY <1>2, <2>1, <2>2, <2>3
  <1>6. d.failedTier # NoFailedTier => \E i \in 1..5 : i < d.next /\ d.status[Order[i]] = "failed"
    <2> SUFFICES ASSUME d.failedTier # NoFailedTier
                 PROVE  \E i \in 1..5 : i < d.next /\ d.status[Order[i]] = "failed"
      OBVIOUS
    <2>1. CASE status = "failed"
      BY <1>1, <1>2, <2>1
    <2>2. CASE status # "failed"
      <3>1. PICK i \in 1..5 : i < b.next /\ b.status[Order[i]] = "failed"
        BY <1>1, <2>2 DEF RunInv
      <3> QED BY <1>1, <1>2, <3>1
    <2> QED BY <2>1, <2>2
  <1> QED BY <1>1, <1>5, <1>6 DEF RunInv, d

\* A run that goes on is the same run to the wiring.
LEMMA RunGoesOn ==
  ASSUME ValidationInv, NEW r \in Check, NEW c \in CheckRecord, check[r].at = "running",
         check' = [check EXCEPT ![r] = c], UNCHANGED <<faulty, editions, running, latest, indexed>>,
         c.at = "running", c.by = check[r].by, RunInv(c),
         \A i \in 1..5 : c.status[Order[i]] = "none" <=> i >= c.next
  PROVE  ValidationInv'
  <1>1. check'[r] = c /\ \A s \in Check \ {r} : check'[s] = check[s]
    BY CheckTypes
  <1>2. running' = {s \in Check : check'[s].at = "running" /\ check'[s].by = "user"}
    BY <1>1, CheckTypes
  <1>3. \A s, u \in running' : s = u
    BY CheckTypes
  <1>4. \A s \in latest' : check'[s].at = "done" /\ check'[s].by = "user"
    <2> SUFFICES ASSUME NEW s \in latest PROVE check'[s].at = "done" /\ check'[s].by = "user"
      OBVIOUS
    <2>1. check[s].at = "done" /\ check[s].by = "user" /\ s # r
      BY CheckTypes
    <2>2. check'[s] = check[s]
      BY <2>1, CheckTypes
    <2> QED BY <2>1, <2>2
  <1> QED BY <1>2, <1>3, <1>4, CheckTypes, RunMoves

LEMMA RunValidatorKeeps ==
  ASSUME ValidationInv, NEW r \in Check, RunValidator(r)
  PROVE  ValidationInv'
  <1> DEFINE b == check[r]
             v == Order[b.next]
  <1>1. /\ b \in CheckRecord /\ RunInv(b) /\ b.at = "running" /\ b.next \in 1..5 /\ v \in Validator
        /\ \A i \in 1..5 : b.status[Order[i]] = "none" <=> i >= b.next
        /\ UNCHANGED <<faulty, editions, running, latest, indexed>>
    <2>1. b \in CheckRecord /\ RunInv(b) /\ \A i \in 1..5 : b.status[Order[i]] = "none" <=> i >= b.next
      BY CheckTypes DEF ValidationInv
    <2>2. b.next \in 1..6 /\ b.next <= 5
      BY <2>1 DEF CheckRecord, RunValidator
    <2>3. b.next \in 1..5
      BY <2>2
    <2> QED BY <2>1, <2>3, Tiers DEF RunValidator
  <1>2. ASSUME NEW c \in CheckRecord, NEW status \in {"passed", "failed", "error", "skipped"},
               c.at = b.at, c.by = b.by, c.next = b.next, c.status = b.status,
               RunInv(Pushed(c, status)), check' = [check EXCEPT ![r] = Pushed(c, status)]
        PROVE  ValidationInv'
    <2> DEFINE d == Pushed(c, status)
    <2>1. /\ d \in CheckRecord /\ d.next > b.next /\ d.at = "running" /\ d.by = b.by
          /\ d.status[v] = status
          /\ \A i \in 1..5 : i < b.next \/ i >= d.next => d.status[Order[i]] = b.status[Order[i]]
          /\ \A i \in 1..5 : i > b.next /\ i < d.next => d.status[Order[i]] = "skipped"
      <3>1. c.next <= 5 /\ status \in {"none", "passed", "failed", "error", "skipped"}
        BY <1>1, <1>2
      <3>2. /\ d \in CheckRecord /\ d.next > c.next /\ d.at = c.at /\ d.by = c.by
            /\ d.status[Order[c.next]] = status
            /\ \A i \in 1..5 : i < c.next \/ i >= d.next => d.status[Order[i]] = c.status[Order[i]]
            /\ \A i \in 1..5 : i > c.next /\ i < d.next => d.status[Order[i]] = "skipped"
        BY <1>2, <3>1, PushedIs
      <3> HIDE DEF d
      <3> QED BY <1>1, <1>2, <3>2
    <2>2. d.next \in Nat /\ b.next \in Nat
      BY <1>1, <2>1 DEF CheckRecord
    <2> HIDE DEF d
    <2>3. \A i \in 1..5 : d.status[Order[i]] = "none" <=> i >= d.next
      <3> TAKE i \in 1..5
      <3>1. CASE i < b.next
        BY <1>1, <2>1, <2>2, <3>1
      <3>2. CASE i = b.next
        BY <1>2, <2>1, <2>2, <3>2
      <3>3. CASE i > b.next /\ i < d.next
        BY <2>1, <2>2, <3>3
      <3>4. CASE i >= d.next
        BY <1>1, <2>1, <2>2, <3>4
      <3> QED BY <2>2, <3>1, <3>2, <3>3, <3>4
    <2>4. RunInv(d) /\ check' = [check EXCEPT ![r] = d]
      BY <1>2 DEF d
    <2> QED BY <1>1, <2>1, <2>3, <2>4, RunGoesOn
  <1>3. CASE Skips(b, v)
    <2>1. check' = [check EXCEPT ![r] = Pushed(b, "skipped")]
      BY <1>3 DEF RunValidator
    <2>2. RunInv(Pushed(b, "skipped"))
      BY <1>1, <1>3, SkipKeeps
    <2> QED BY <1>1, <1>2, <2>1, <2>2
  <1>4. CASE ~Skips(b, v)
    <2>1. PICK a \in Answers(v), killed \in BOOLEAN :
            LET e == IF killed THEN StoppedTool(v, a) ELSE a IN
            check' = [check EXCEPT ![r] =
              Pushed([b EXCEPT !.failedTier = IF e.status = "failed" THEN Tier[v] ELSE @,
                               !.aborted = killed, !.sure = @ /\ e.sure], e.status)]
      BY <1>4 DEF RunValidator
    <2> DEFINE e == IF killed THEN StoppedTool(v, a) ELSE a
               c == [b EXCEPT !.failedTier = IF e.status = "failed" THEN Tier[v] ELSE @,
                              !.aborted = killed, !.sure = @ /\ e.sure]
    <2>2. /\ e.status \in {"passed", "failed", "error"} /\ e.sure \in BOOLEAN
          /\ e.sure /\ ~killed => /\ e.status # "error"
                                  /\ e.status = "failed" => v \in faulty
                                  /\ e.status = "passed" => v \notin faulty
      BY <1>1, AnswersAreEarned
    <2>3. check' = [check EXCEPT ![r] = Pushed(c, e.status)]
      BY <2>1
    <2> HIDE DEF e
    <2>4. /\ c \in CheckRecord /\ c.at = b.at /\ c.by = b.by /\ c.next = b.next /\ c.status = b.status
          /\ c.maxTier = b.maxTier /\ c.quiet = b.quiet /\ c.aborted = killed
          /\ c.failedTier = IF e.status = "failed" THEN Tier[v] ELSE b.failedTier
      <3>1. Tier[v] \in 0..4
        BY <1>1, Tiers
      <3>2. (b.sure /\ e.sure) \in BOOLEAN
        OBVIOUS
      <3> HIDE DEF b, v
      <3> QED BY <1>1, <3>1, <3>2 DEF CheckRecord
    <2>5. c.sure => b.sure /\ e.sure
      <3> HIDE DEF b, v
      <3> QED BY <1>1 DEF CheckRecord
    <2> HIDE DEF c
    <2>6. RunInv(Pushed(c, e.status))
      BY <1>1, <1>4, <2>2, <2>4, <2>5, AnswerKeeps
    <2> QED BY <1>2, <2>2, <2>3, <2>4, <2>6
  <1> QED BY <1>3, <1>4

LEMMA EditFilesKeeps ==
  ASSUME ValidationInv, NEW v \in Validator, EditFiles(v)
  PROVE  ValidationInv'
  <1>1. check \in [Check -> CheckRecord] /\ \A r \in Check : RunInv(check[r])
    BY DEF ValidationInv
  <1>2. ASSUME NEW r \in Check
        PROVE  /\ check'[r] \in CheckRecord /\ check'[r].at = check[r].at /\ check'[r].by = check[r].by
               /\ check'[r].next = check[r].next /\ check'[r].status = check[r].status
               /\ check'[r].maxTier = check[r].maxTier /\ check'[r].failedTier = check[r].failedTier
               /\ check'[r].aborted = check[r].aborted
               /\ check'[r].at = "running" => ~check'[r].quiet
    <2>1. check[r] \in CheckRecord
      BY <1>1
    <2>2. check'[r] = IF check[r].at = "running" THEN [check[r] EXCEPT !.quiet = FALSE] ELSE check[r]
      BY DEF EditFiles
    <2> QED BY <2>1, <2>2 DEF CheckRecord
  <1>3. check' \in [Check -> CheckRecord]
    <2>1. check' = [r \in Check |-> check'[r]]
      BY DEF EditFiles
    <2> QED BY <1>2, <2>1
  <1>4. ASSUME NEW r \in Check
        PROVE  RunInv(check[r])'
    <2>1. CASE check[r].at = "running"
      <3>1. ASSUME NEW i \in 1..5, i < check'[r].next
            PROVE  Spoken(check[r], i)'
        BY <1>1, <1>2, <2>1, <3>1 DEF RunInv, Spoken, PassedOver
      <3> QED BY <1>1, <1>2, <2>1, <3>1 DEF RunInv
    <2>2. CASE check[r].at # "running"
      <3>1. check'[r].next = 1
        BY <1>1, <1>2, <2>2 DEF RunInv
      <3>2. check'[r] = check[r]
        BY <2>2 DEF EditFiles
      <3>3. check[r].failedTier = NoFailedTier
        BY <1>1, <1>2, <3>1 DEF RunInv
      <3> QED BY <1>2, <3>1, <3>3 DEF RunInv
    <2> QED BY <2>1, <2>2
  <1>5. ValidationTypeOK'
    <2>1. faulty' \subseteq Validator /\ editions' \in 0..MaxEditions
      BY MaxEditionsAssumption DEF ValidationInv, ValidationTypeOK, EditFiles
    <2>2. running' = running /\ latest' = latest
      BY DEF EditFiles
    <2>3. running = {r \in Check : check'[r].at = "running" /\ check'[r].by = "user"}
      BY <1>2, CheckTypes
    <2>4. \A r \in latest : check'[r].at = "done" /\ check'[r].by = "user"
      BY <1>2, CheckTypes
    <2>5. \A r \in Check : \A i \in 1..5 : check'[r].status[Order[i]] = "none" <=> i >= check'[r].next
      BY <1>2, CheckTypes
    <2>6. \A r, s \in running : r = s
      BY CheckTypes
    <2> QED BY <1>2, <2>1, <2>2, <2>3, <2>4, <2>5, <2>6 DEF ValidationTypeOK, CheckRecord
  <1>6. latest' \subseteq Check
    BY CheckTypes DEF EditFiles
  <1> QED BY <1>3, <1>4, <1>5, <1>6 DEF ValidationInv

LEMMA ValidationInitInv ==
  ASSUME ValidationInit
  PROVE  ValidationInv
  <1>1. /\ check \in [Check -> CheckRecord]
        /\ \A r \in Check : check[r] = NoCheck
    BY NoCheckIs DEF ValidationInit
  <1>2. \A r \in Check : RunInv(check[r]) /\ \A i \in 1..5 : check[r].status[Order[i]] = "none" <=> i >= check[r].next
    BY <1>1, NoCheckIs, FreshRun
  <1>3. faulty \subseteq Validator /\ editions \in 0..MaxEditions
    BY Tiers, MaxEditionsAssumption DEF ValidationInit
  <1>4. ValidationTypeOK
    BY <1>1, <1>2, <1>3, NoCheckIs DEF ValidationInit, ValidationTypeOK, CheckRecord
  <1>5. latest \subseteq Check
    BY DEF ValidationInit
  <1> QED BY <1>1, <1>2, <1>4, <1>5 DEF ValidationInv

\* What a run has said of a validator is so of the files it has read, and what
\* it has passed over it had cause to (runValidation() in
\* packages/validation/src/runner.ts).
THEOREM ValidationInvHolds == ValidationSpec => []ValidationInv
  <1>1. ValidationInv /\ [ValidationNext]_validationVars => ValidationInv'
    <2> SUFFICES ASSUME ValidationInv, [ValidationNext]_validationVars
                 PROVE  ValidationInv'
      OBVIOUS
    <2>1. CASE UNCHANGED validationVars
      BY <2>1 DEF validationVars, ValidationInv, ValidationTypeOK, RunInv, Spoken, PassedOver
    <2>2. CASE ValidationNext
      BY <2>2, StartCheckKeeps, RunValidatorKeeps, FinishCheckKeeps, EditFilesKeeps DEF ValidationNext
    <2> QED BY <2>1, <2>2
  <1> QED BY <1>1, ValidationInitInv, PTL DEF ValidationSpec

\* What the invariant says of a run that has its result.
LEMMA Earned ==
  ASSUME ValidationInv
  PROVE  VerdictIsEarned
  <1> SUFFICES ASSUME NEW r \in Check, check[r].next = 6, ~check[r].aborted
               PROVE  /\ \A v \in Applicable :
                           (Tier[v] <= check[r].maxTier /\ Tier[v] <= check[r].failedTier)
                             => check[r].status[v] # "skipped"
                      /\ check[r].quiet /\ check[r].sure =>
                           (Ok(r) <=> \A v \in faulty \cap Applicable : Tier[v] > check[r].maxTier)
    BY DEF VerdictIsEarned
  <1> DEFINE c == check[r]
  <1>1. c \in CheckRecord /\ RunInv(c) /\ faulty \subseteq Validator
    BY DEF ValidationInv, ValidationTypeOK
  <1>2. ASSUME NEW v \in Validator
        PROVE  /\ c.status[v] \in {"passed", "failed", "error", "skipped"}
               /\ Tier[v] \in 0..3 /\ c.maxTier \in 0..3 /\ c.failedTier \in 0..4
               /\ c.status[v] = "skipped" => PassedOver(c, v)
               /\ c.status[v] = "failed" => Tier[v] <= c.maxTier /\ v \in Applicable
               /\ c.quiet /\ c.sure => /\ c.status[v] # "error"
                                       /\ c.status[v] = "failed" => v \in faulty
                                       /\ c.status[v] = "passed" => v \notin faulty
    <2>1. PICK i \in 1..5 : v = Order[i]
      BY Tiers
    <2>2. Spoken(c, i) /\ c.status[v] # "none"
      BY <1>1, <2>1, CheckTypes DEF RunInv
    <2> QED BY <1>1, <2>1, <2>2, Tiers DEF Spoken, CheckRecord
  <1>3. Applicable \subseteq Validator
    BY ApplicableAssumption, Tiers
  <1> HIDE DEF c
  <1>4. \A v \in Applicable : (Tier[v] <= c.maxTier /\ Tier[v] <= c.failedTier) => c.status[v] # "skipped"
    BY <1>2, <1>3 DEF PassedOver
  <1>5. ASSUME c.quiet, c.sure
        PROVE  Ok(r) <=> \A v \in faulty \cap Applicable : Tier[v] > c.maxTier
    <2>1. ASSUME Ok(r), NEW v \in faulty \cap Applicable
          PROVE  Tier[v] > c.maxTier
      <3>1. v \in Validator /\ c.status[v] # "failed" /\ c.status[v] = "skipped"
        BY <1>1, <1>2, <1>5, <2>1 DEF Ok, c
      <3>2. c.failedTier = 4
        <4>1. ~\E i \in 1..5 : i < c.next /\ c.status[Order[i]] = "failed"
          BY <2>1, Tiers DEF Ok, c
        <4> QED BY <1>1, <4>1 DEF RunInv, NoFailedTier
      <3> QED BY <1>2, <3>1, <3>2, <2>1 DEF PassedOver
    <2>2. ASSUME \A v \in faulty \cap Applicable : Tier[v] > c.maxTier, NEW v \in Validator
          PROVE  c.status[v] # "failed"
      BY <1>2, <1>5, <2>2
    <2> QED BY <2>1, <2>2 DEF Ok, c
  <1> QED BY <1>4, <1>5 DEF c

\* A report says what the files deserve when they stayed as they were, the run
\* was not cancelled and every tool was read to its end; and a validator that is
\* due is never skipped (runValidation(), the validators and parsers of
\* packages/validation), for any runs, edits and applicable tools.
THEOREM VerdictIsEarnedHolds == ValidationSpec => []VerdictIsEarned
  <1> QED BY Earned, ValidationInvHolds, PTL

-----------------------------------------------------------------------------
(* The folder                                                               *)

\* A step of the folder is a step of one part, which the others sleep through.
LEMMA FolderSteps ==
  ASSUME [FolderNext]_<<repositoryVars, indexVars, validationVars>>
  PROVE  [RepositoryNext]_repositoryVars /\ [IndexNext]_indexVars /\ [ValidationNext]_validationVars
  BY DEF FolderNext, RepositoryMoves, FilesMove, ChecksMove

\* Whatever the repository, the files with their index and the checks do side by
\* side in one project's folder (service.ts of git, fs.ts, indexer.ts,
\* runner.ts), each keeps its invariant, for any paths, files, tasks and runs.
THEOREM FolderInvHolds == FolderSpec => []FolderInv
  <1>1. FolderSpec => RepositorySpec /\ IndexSpec /\ ValidationSpec
    <2>1. FolderInit => RepositoryInit /\ IndexInit /\ ValidationInit
      BY DEF FolderInit
    <2> QED BY <2>1, FolderSteps, PTL DEF FolderSpec, RepositorySpec, IndexSpec, ValidationSpec
  <1>2. RepositoryInv /\ IndexInv /\ ValidationInv => FolderInv
    BY DEF FolderInv
  <1> QED BY <1>1, <1>2, RepositoryInvHolds, IndexInvHolds, ValidationInvHolds, PTL
====
