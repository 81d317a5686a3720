---- MODULE TaskInvariant ----
(***************************************************************************)
(* The inductive invariant of TaskService: what holds at every await of a  *)
(* run, of the jobs in the queues, and of tasks nobody works on.  TLC      *)
(* checks it on small instances, TaskServiceProofs proves it.              *)
(***************************************************************************)
EXTENDS TaskService

\* Queued jobs are jobs of submitted tasks, queued at their session.
QueuesOK ==
  \A s \in Session : \A i \in 1..Len(queue[s]) :
    /\ SessionOf[queue[s][i].task] = s
    /\ state[queue[s][i].task] # "ABSENT"

RunsOK ==
  \A t \in Task :
    /\ state[t] # "ABSENT" => request[t] \in Requests
    /\ Running(t) => state[t] # "ABSENT" /\ live[t].entry \in TaskState

Inv1 == TypeOK /\ QueuesOK /\ OneRunPerSession /\ RunsOK

-----------------------------------------------------------------------------

\* The state a task must be in while its run awaits pc[t].
Expected(t) ==
  CASE pc[t] = "plan" -> "PLAN"
    [] pc[t] = "approval" -> "AWAIT_APPROVAL"
    [] pc[t] = "checkpoint" /\ request[t].intent = "fix" -> "PLAN"
    [] pc[t] \in {"model", "tool"} /\ loop[t] = "repair" -> "REPAIR"
    [] pc[t] = "validate" -> "VALIDATE"
    [] pc[t] = "review" -> "REVIEW"
    [] pc[t] = "commit" -> "CHECKPOINT"
    [] OTHER -> "EXECUTE"

\* A run that was resumed although its task was not interrupted works on a
\* task that rests, and leaves it resting.
StateOK(t) ==
  IF live[t].entry \in {Initial, "INTERRUPTED"}
  THEN state[t] = Expected(t)
  ELSE state[t] \in Resting \ {"INTERRUPTED"}

\* Where a run can be: an ask task only answers, a resumed run never plans,
\* and a run that waits for the user has not been cancelled.
PlaceOK(t) ==
  /\ live[t].entry = Initial => (pc[t] = "answer" <=> request[t].mode = "ask")
  /\ live[t].entry # Initial => pc[t] \in {"validate", "model", "tool", "commit"}
  /\ pc[t] \in {"plan", "approval"} => request[t].intent # "fix"
  /\ pc[t] = "approval" => ~live[t].aborted

\* The gate and the checkpoint come before the first edit of a new task.
Past == {"checkpoint", "model", "tool", "validate", "review", "commit"}

GateOK(t) == live[t].entry = Initial =>
  /\ pc[t] \in Past =>
       \/ gate[t] \in {"auto", "approved"}
       \/ gate[t] = "skipped" /\ (request[t].intent = "fix" \/ SkipsPlan(request[t].complexity))
  /\ pc[t] \in Past \ {"checkpoint"} => checkpoint[t] # "none"
  /\ pc[t] \notin Past \ {"checkpoint"} => ~live[t].edited

BudgetOK(t) ==
  /\ live[t].toolSteps <= MaxToolSteps[request[t].complexity]
  /\ live[t].repairAttempts <= MaxRepairAttempts
  /\ live[t].reviewRounds <= MaxReviewRounds
  /\ pc[t] \in {"model", "tool"} /\ loop[t] = "repair" => live[t].repairAttempts < MaxRepairAttempts
  /\ pc[t] = "review" => live[t].reviewRounds < MaxReviewRounds

\* What was edited is verified before it is reviewed, committed or answered.
VerifiedOK(t) == pc[t] \in {"answer", "review", "commit"} => ~unverified[t]

RunOK(t) == Running(t) =>
  state[t] # Initial /\ StateOK(t) /\ PlaceOK(t) /\ GateOK(t) /\ BudgetOK(t) /\ VerifiedOK(t)

\* A task nobody has worked on has no edits.
UntouchedOK(t) == state[t] \in {"ABSENT", Initial} => ~unverified[t]

\* A task with a queued resume has been started before.
ResumesOK ==
  \A s \in Session : \A i \in 1..Len(queue[s]) :
    queue[s][i].job = "resume" => state[queue[s][i].task] # Initial

\* A task without a run rests, or waits for its turn.
HasJob(t) == \E i \in 1..Len(queue[SessionOf[t]]) :
               queue[SessionOf[t]][i] = [task |-> t, job |-> "run"]

WaitingOK(t) ==
  up /\ ~Running(t) => \/ state[t] \in Resting \cup {"ABSENT"}
                       \/ state[t] = Initial /\ HasJob(t)

Inv2 ==
  /\ ~up => \A t \in Task : ~Running(t)
  /\ ResumesOK
  /\ \A t \in Task : RunOK(t) /\ UntouchedOK(t) /\ WaitingOK(t)

IInv == Inv1 /\ Inv2

-----------------------------------------------------------------------------

\* Before the first process exit no task is interrupted, so that every job is
\* a task's first and every run is of a task that was just submitted.
NeverResumed ==
  /\ up
  /\ \A t \in Task : state[t] # "INTERRUPTED" /\ (Running(t) => live[t].entry = Initial)
  /\ \A s \in Session : \A i \in 1..Len(queue[s]) : queue[s][i].job = "run"

StreamsInv == crashes = 0 => NeverResumed /\ StreamsEnd

-----------------------------------------------------------------------------

\* As long as no task is resumed while a job of it is in its chain, no chain
\* holds two jobs of a task,
JobsOnce ==
  \A s \in Session : \A i, j \in 1..Len(queue[s]) : queue[s][i].task = queue[s][j].task => i = j

\* a resume still finds its task interrupted when its turn comes,
ResumesFit ==
  \A s \in Session : \A i \in 1..Len(queue[s]) :
    queue[s][i].job = "resume" =>
      Running(queue[s][i].task) \/ state[queue[s][i].task] = "INTERRUPTED"

\* and so every run is of a new or of an interrupted task.  Only a run is
\* cancelled, and only a task that changed files has edits to verify.
OnceOK(t) ==
  /\ Running(t) => live[t].entry \in {Initial, "INTERRUPTED"}
  /\ ~Running(t) => ~live[t].aborted
  /\ unverified[t] => changed[t]

OnceInv == JobsOnce /\ ResumesFit /\ \A t \in Task : OnceOK(t)
====
