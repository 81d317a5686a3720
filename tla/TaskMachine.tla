---- MODULE TaskMachine ----
(***************************************************************************)
(* The pure parts the task runner is built from: the task state machine    *)
(* (packages/agent/src/state-machine.ts), the complexity profiles and the  *)
(* approval policy (packages/agent/src/profiles.ts).                       *)
(*                                                                         *)
(* The effects transition() also returns are left out: TaskService ignores *)
(* them and drives the next step itself.                                   *)
(***************************************************************************)
EXTENDS Naturals

CONSTANT MaxRepairAttempts  \* MAX_REPAIR_ATTEMPTS, 3 in the code

ASSUME MaxRepairAttemptsAssumption == MaxRepairAttempts \in Nat

\* INITIAL_TASK_STATE
Initial == "UNDERSTAND"

\* isTerminalTaskState
Terminal == {"COMPLETE", "CANCELLED"}

\* States in which no runner is at work on the task.
Resting == Terminal \cup {"NEEDS_USER", "INTERRUPTED"}

\* EXPLORE is in the machine although no runner raises needs_context.
Working == {"EXPLORE", "PLAN", "AWAIT_APPROVAL", "EXECUTE", "VALIDATE",
            "DIAGNOSE", "REPAIR", "REVIEW", "CHECKPOINT"}

TaskState == {Initial} \cup Working \cup Resting

TaskEvent == {"context_sufficient", "needs_context", "explored", "plan_ready",
              "plan_skipped", "plan_auto_approved", "approved", "revise",
              "rejected", "edits_applied", "checks_passed", "checks_failed",
              "diagnosis_ready", "attempts_exhausted", "fix_applied",
              "review_passed", "review_requests_changes", "checkpoint_created",
              "answered", "failed", "cancel", "user_input", "process_exit",
              "resume", "resume_unsafe"}

Mode       == {"ask", "build"}
Intent     == {"change", "fix"}
Complexity == {"trivial", "standard", "complex"}
Threshold  == {"none", "trivial", "standard"}

(***************************************************************************)
(* transition(): the universal events first, then the table; a pair the    *)
(* table does not know leaves the state alone.  The guards exclude one     *)
(* another, as the switch's early returns do.                              *)
(***************************************************************************)
Transition(s, e, mode, attempts) ==
  LET Gathered == IF mode = "ask" THEN "EXECUTE" ELSE "PLAN"
  IN CASE e = "cancel" /\ s \notin Terminal \cup {"INTERRUPTED"} -> "CANCELLED"
       [] e = "failed" /\ s \notin Terminal -> "NEEDS_USER"
       [] e = "process_exit" /\ s \notin Terminal \cup {"NEEDS_USER"} -> "INTERRUPTED"
       [] s = "UNDERSTAND" /\ e = "context_sufficient" -> Gathered
       [] s = "UNDERSTAND" /\ e = "needs_context" -> "EXPLORE"
       [] s = "EXPLORE" /\ e = "explored" -> Gathered
       [] s = "PLAN" /\ e = "plan_ready" -> "AWAIT_APPROVAL"
       [] s = "PLAN" /\ e \in {"plan_skipped", "plan_auto_approved"} -> "EXECUTE"
       [] s = "AWAIT_APPROVAL" /\ e = "approved" -> "EXECUTE"
       [] s = "AWAIT_APPROVAL" /\ e = "revise" -> "PLAN"
       [] s = "AWAIT_APPROVAL" /\ e = "rejected" -> "CANCELLED"
       [] s = "EXECUTE" /\ e = "answered" -> "COMPLETE"
       [] s = "EXECUTE" /\ e = "edits_applied" -> "VALIDATE"
       [] s = "VALIDATE" /\ e = "checks_passed" -> "REVIEW"
       [] s = "VALIDATE" /\ e = "checks_failed" -> "DIAGNOSE"
       [] s = "DIAGNOSE" /\ e = "diagnosis_ready" ->
             IF attempts >= MaxRepairAttempts THEN "NEEDS_USER" ELSE "REPAIR"
       [] s = "DIAGNOSE" /\ e = "attempts_exhausted" -> "NEEDS_USER"
       [] s = "REPAIR" /\ e = "fix_applied" -> "VALIDATE"
       [] s = "REVIEW" /\ e = "review_passed" -> "CHECKPOINT"
       [] s = "REVIEW" /\ e = "review_requests_changes" -> "EXECUTE"
       [] s = "CHECKPOINT" /\ e = "checkpoint_created" -> "COMPLETE"
       [] s = "NEEDS_USER" /\ e = "user_input" -> "UNDERSTAND"
       [] s = "INTERRUPTED" /\ e = "resume" -> "VALIDATE"
       [] s = "INTERRUPTED" /\ e = "resume_unsafe" -> "NEEDS_USER"
       [] OTHER -> s

\* profileFor(complexity).skipPlan and .review = "full"
SkipsPlan(c)  == c = "trivial"
FullReview(c) == c = "complex"

\* autoApproves(): may a plan of this complexity run without the user?
AutoApproves(threshold, c) ==
  \/ threshold = "trivial" /\ c = "trivial"
  \/ threshold = "standard" /\ c # "complex"
====
