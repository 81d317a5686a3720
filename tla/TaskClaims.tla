---- MODULE TaskClaims ----
(***************************************************************************)
(* What the repository's documents and comments say of the task service    *)
(* and the code does not do.  The claim is refuted by a run of its own.    *)
(***************************************************************************)
EXTENDS TaskService

\* COMPLETE and CANCELLED are final (docs/design/AGENT-ARCHITECTURE.md): no
\* run edits files for a task that is in one of them.
EndedTasksAreNotEdited ==
  [][\A t \in Task : state[t] \in Terminal =>
       /\ changed'[t] = changed[t]
       /\ unverified'[t] => unverified[t]]_vars
====
