---- MODULE FolderInvariant ----
(***************************************************************************)
(* The inductive invariants of what happens in a project's folder: of its  *)
(* git repository (Checkpoints), of the file tools and the index           *)
(* (ProjectFiles, ContextIndex) and of the checks (Validation).  TLC       *)
(* checks them on small instances, FolderProofs proves them.               *)
(***************************************************************************)
EXTENDS Checkpoints, ContextIndex, Validation

-----------------------------------------------------------------------------
(* Checkpoints                                                              *)

RepositoryTyped ==
  /\ RepositoryTypeOK
  /\ commits \in Seq([tree : Tree, parent : Nat])
  /\ saved \in [Task -> [present : BOOLEAN, result : Nat]]
  /\ undo \in [Task -> [at : {"none", "next", "tested"}, left : SUBSET Path, path : SUBSET Path,
                        force : BOOLEAN, result : Nat]]
  /\ spared \in [Task -> SUBSET Path]

\* A commit that changes only paths of a task.
IsOf(c, t) ==
  /\ c \in CommitId /\ commits[c].parent \in CommitId
  /\ \A p \in Path : TreeOf(c)[p] # TreeOf(commits[c].parent)[p] => p \in changes[t]

\* What the runner has in hand between two commands.
InHand(t) ==
  /\ job[t].at = "built" => job[t].sha \in CommitId
  /\ job[t].at = "ref" => base[t] # 0
  /\ job[t].at \in {"headed", "staged", "aimed", "moved"} => saved[t].present
  /\ job[t].at = "headed" => job[t].head \in CommitId
  /\ job[t].at \in {"staged", "aimed"} => job[t].sha # 0 /\ commits[job[t].sha].parent = job[t].head
  /\ job[t].at \in {"staged", "aimed", "moved"} /\ job[t].sha # 0 => IsOf(job[t].sha, t)

\* What undo has found is so until somebody changes it.
Knows(t) ==
  /\ undo[t].at # "none" => saved[t].present
  /\ undo[t].result # 0 => undo[t].result \in CommitId
  /\ undo[t].at = "tested" /\ ~undo[t].force /\ undo[t].result # 0 =>
       \A p \in undo[t].path : work[p] = TreeOf(undo[t].result)[p] \/ p \in spared[t]

\* The result of a task is a commit of its paths.
Delivered(t) == saved[t].result # 0 => IsOf(saved[t].result, t)

RepositoryInv ==
  /\ RepositoryTyped
  /\ \A t \in Task : InHand(t) /\ Knows(t) /\ Delivered(t)

-----------------------------------------------------------------------------
(* Files and the index                                                      *)

\* The mutating call: its paths are tracked, and what Examine has seen of them
\* is so unless the user has saved one since.
CallInv ==
  /\ call \in [at : {"none", "tracked", "checked", "ran"},
               tool : {"none", "fs.write", "fs.patch", "fs.delete", "fs.rename"},
               folder : BOOLEAN, from : SUBSET File, to : SUBSET File, ok : BOOLEAN, raced : BOOLEAN]
  /\ call.folder => call.tool \in {"fs.delete", "fs.rename"}
  /\ call.at # "none" /\ ~call.folder =>
       /\ \E f \in File : call.from = {f}
       /\ call.tool = "fs.rename" => \E g \in File : call.to = {g} /\ g \notin call.from
       /\ call.tool # "fs.rename" => call.to = {}
  /\ call.at # "none" => \A f \in PathsOf(call) : preimage[f] # {}
  /\ call.at = "checked" /\ ~call.raced =>
       /\ call.tool \in {"fs.write", "fs.patch"} => \A f \in call.from : disk[f] \in handed \cup {0}
       /\ call.tool = "fs.rename" => \A g \in call.to : disk[g] = 0

\* A pre-image is one content, one of the task's own only if that was moved with
\* its folder; and a file without a pre-image has none other of them either.
PreimagesAreOld ==
  \A f \in File :
    /\ preimage[f] \cap written \subseteq carried /\ \A v, w \in preimage[f] : v = w
    /\ preimage[f] = {} => disk[f] \notin written \ carried

Listed(f) ==
  disk[f] \in written \ carried =>
    \/ \E c \in change[f] : c[2] = disk[f]
    \/ disk[f] \in Large /\ preimage[f] \subseteq Large

FilesInv ==
  /\ FilesTypeOK /\ CallInv /\ PreimagesAreOld /\ clobbered = {}
  /\ \A f \in File : call.at = "none" \/ f \notin PathsOf(call) => Listed(f)

\* The index: resolved whenever no walk is under way and none was cut short.
WholeAtRest == ~broken /\ ~walk.on => linked = AllLinks(rows)

TablesInv ==
  /\ IndexTypeOK /\ linked \in [File -> SUBSET File]
  /\ walk \in [on : BOOLEAN, unread : SUBSET File, todo : SUBSET File, listed : SUBSET File]
  /\ WholeAtRest

IndexInv == FilesInv /\ TablesInv

-----------------------------------------------------------------------------
(* Checks                                                                   *)

\* Why a validator was passed over, with what is known of the run by now.
PassedOver(c, v) == Tier[v] > c.maxTier \/ Tier[v] > c.failedTier \/ v \notin Applicable

\* What a run says of a validator it is through with.
Spoken(c, i) ==
  LET v == Order[i] IN
  /\ c.status[v] = "skipped" /\ ~c.aborted => PassedOver(c, v)
  /\ c.status[v] = "failed" => Tier[v] <= c.maxTier /\ v \in Applicable
  /\ c.quiet /\ c.sure /\ ~c.aborted =>
       /\ c.status[v] # "error"
       /\ c.status[v] = "failed" => v \in faulty
       /\ c.status[v] = "passed" => v \notin faulty

RunInv(c) ==
  /\ c.at # "running" => c.next = 1
  /\ \A i \in 1..5 : i < c.next => Spoken(c, i)
  \* The failing tier is that of a validator that failed.
  /\ c.failedTier # NoFailedTier => \E i \in 1..5 : i < c.next /\ c.status[Order[i]] = "failed"

CheckRecord ==
  [at : {"none", "running", "done"}, by : {"task", "user"}, maxTier : 0..3, next : 1..6,
   status : [Validator -> {"none", "passed", "failed", "error", "skipped"}],
   failedTier : 0..4, aborted : BOOLEAN, quiet : BOOLEAN, sure : BOOLEAN]

ValidationInv ==
  /\ ValidationTypeOK /\ check \in [Check -> CheckRecord] /\ latest \subseteq Check
  /\ \A r \in Check : RunInv(check[r])

-----------------------------------------------------------------------------
(* The folder                                                               *)

\* The three move side by side.  None reads what another keeps: the index and
\* the tools have the files' versions, git the contents of its paths, a run of
\* checks what it has found faulty.
RepositoryMoves == RepositoryNext /\ UNCHANGED <<indexVars, validationVars>>
FilesMove       == IndexNext      /\ UNCHANGED <<repositoryVars, validationVars>>
ChecksMove      == ValidationNext /\ UNCHANGED <<repositoryVars, indexVars>>

FolderInit == RepositoryInit /\ IndexInit /\ ValidationInit
FolderNext == RepositoryMoves \/ FilesMove \/ ChecksMove
FolderSpec == FolderInit /\ [][FolderNext]_<<repositoryVars, indexVars, validationVars>>

\* The inductive invariants of the three parts, their types included: a
\* checkpoint's row has its snapshot, what undo and the tools have tested is
\* so until somebody changes it, links are whole at rest, a run's verdicts are
\* those of the files it has read (service.ts, fs.ts, indexer.ts, runner.ts).
FolderInv == RepositoryInv /\ IndexInv /\ ValidationInv
====
