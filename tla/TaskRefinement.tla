---- MODULE TaskRefinement ----
(***************************************************************************)
(* TaskService implements TaskLifecycle as long as a task is not resumed   *)
(* twice (MaxResumes <= 1): a second resume starts a run without looking   *)
(* at the state the first one left the task in.                            *)
(***************************************************************************)
EXTENDS TaskService

\* The phase of task t.  A process that is down has interrupted its tasks,
\* although their rows say so only after the next start.
PhaseOf(t) ==
  CASE state[t] = "ABSENT"      -> "absent"
    [] state[t] = "COMPLETE"    -> "complete"
    [] state[t] = "CANCELLED"   -> "cancelled"
    [] state[t] = "NEEDS_USER"  -> "parked"
    [] state[t] = "INTERRUPTED" \/ (Left(t) /\ ~up) -> "interrupted"
    [] up /\ state[t] = Initial -> "queued"
    [] up /\ state[t] = "AWAIT_APPROVAL" -> "deciding"
    [] OTHER -> "working"

Lifecycle == INSTANCE TaskLifecycle WITH
  phase      <- [t \in Task |-> PhaseOf(t)],
  cancelling <- {t \in Task : live[t].aborted},
  unchecked  <- {t \in Task : unverified[t]}

\* Every behaviour of the runner is one the user was promised: one task at a
\* time per session, no edit and no completion after a cancel, completion
\* only after the checks passed, interruption only by a process exit.
ImplementsLifecycle == Lifecycle!Spec
====
