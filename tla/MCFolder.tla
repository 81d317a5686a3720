---- MODULE MCFolder ----
(***************************************************************************)
(* What tasks and the user do to one project's folder, for TLC: the git    *)
(* repository, the files with their index, and the checks.  Each part has  *)
(* its own variables and none reads another's, so that one run explores    *)
(* them one after the other: `part` says which one moves, the others stay  *)
(* where they start.                                                       *)
(***************************************************************************)
EXTENDS FolderInvariant, TLC

CONSTANTS file1, file2, check1, check2

VARIABLE part

YourContents == {3}

\* A file of version 2 or 4 is over 200 KiB, one of version 4 over 1 MiB.
LargeFiles == {2, 4}
HugeFiles  == {4}

\* Two calls in a row; a call and three saves; a call and the index; the index
\* walked twice.
FileBudget == {[calls |-> 2, walks |-> 0, versions |-> 3],
               [calls |-> 1, walks |-> 0, versions |-> 4],
               [calls |-> 1, walks |-> 1, versions |-> 3],
               [calls |-> 0, walks |-> 2, versions |-> 4]}

Init ==
  /\ part \in {"checkpoints", "files", "validation"}
  /\ FolderInit
  /\ part # "files" => disk = Forgotten /\ left = CHOOSE f \in FileBudget : TRUE
  /\ part # "validation" => faulty = {}

Next ==
  /\ UNCHANGED part
  /\ \/ part = "checkpoints" /\ RepositoryMoves
     \/ part = "files"       /\ FilesMove
     \/ part = "validation"  /\ ChecksMove

Spec == Init /\ [][Next]_<<part, repositoryVars, indexVars, validationVars>>

Interchangeable == Permutations(File) \cup Permutations(Check)
====
