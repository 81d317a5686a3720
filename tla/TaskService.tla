---- MODULE TaskService ----
(***************************************************************************)
(* The task runner of packages/core/src/task-service.ts, as the desktop    *)
(* application wires it: with version control (git-wiring.ts) and with     *)
(* validators (tasks-wiring.ts).                                           *)
(*                                                                         *)
(* The runner is asynchronous code on one thread.  A run is always         *)
(* suspended at one await; pc[t] names it.  An action is the code between  *)
(* two awaits: the answer of the awaited call arrives and the run goes on  *)
(* to its next await or ends.  User commands (submit, cancel, approve,     *)
(* revise, reject, resume) and process exit interleave at every await.     *)
(*                                                                         *)
(* The runner's local copy of the task and its row agree at every await    *)
(* except in the field cost (see ReviewPasses), so one variable stands    *)
(* for both.                                                               *)
(***************************************************************************)
EXTENDS TaskMachine, Sequences, FiniteSets

CONSTANTS
  Task,          \* task ids
  Session,       \* chat sessions
  SessionOf,     \* the session each task is submitted to
  Requests,      \* the requests users submit
  MaxToolSteps,  \* profileFor(c).maxToolSteps
  MaxModelCalls, \* profileFor(c).maxModelCalls
  MaxReviewRounds, \* MAX_REVIEW_ROUNDS, 1 in the code
  \* Bounds on what the environment does; the code has none of these limits.
  MaxCalls,      \* tool calls in one model turn after the first
  MaxRevisions,  \* revisions of a plan
  MaxResumes,    \* resumes of one task waiting in its session's queue
  MaxCrashes     \* process exits

ASSUME SessionAssumption == SessionOf \in [Task -> Session]
ASSUME RequestsAssumption ==
  Requests \subseteq [mode : Mode, intent : Intent, complexity : Complexity]
ASSUME BudgetAssumption ==
  /\ MaxToolSteps \in [Complexity -> Nat]
  /\ MaxModelCalls \in [Complexity -> Nat]
  /\ MaxReviewRounds \in Nat
ASSUME BoundsAssumption ==
  /\ MaxCalls \in Nat
  /\ MaxRevisions \in Nat
  /\ MaxResumes \in Nat
  /\ MaxCrashes \in Nat

VARIABLES
  \* The database: what survives the process.
  state,      \* tasks.state, "ABSENT" before the task is submitted
  request,    \* tasks.mode, intent, complexity
  usage,      \* usage ledger: finished model calls of the task
  cost,       \* tasks.cost.calls
  checkpoint, \* the task's checkpoint row
  changed,    \* are there task_changes rows?
  unverified, \* edits on disk newer than the last passing validation (history)
  gate,       \* how the task's latest plan got past the approval gate (history)
  \* The process.
  up,         \* is the process up?
  queue,      \* sessionQueues: the promise chain of each session
  pc,         \* the await a run is suspended at, "idle" when there is no run
  loop,       \* which builderLoop call a run is in
  pending,    \* tool calls of the current turn still to execute
  live,       \* the Live entry of a run
  topic,      \* the task's topic in the TaskEventHub
  \* Bound.
  crashes

db   == <<state, request, usage, cost, checkpoint, changed, unverified, gate>>
mem  == <<queue, pc, loop, pending, live, topic>>
vars == <<db, up, mem, crashes>>

NoRequest == [mode |-> "none", intent |-> "none", complexity |-> "none"]
Jobs      == [task : Task, job : {"run", "resume"}]
PC        == {"idle", "answer", "plan", "approval", "checkpoint", "model",
              "tool", "validate", "review", "commit"}

\* Live: entry, the state the run found, tells runBuild from runFromValidate;
\* edited (did this run edit?) is history.
Live == [aborted : BOOLEAN, modelCalls : Nat, toolSteps : Nat,
         reviewRounds : Nat, repairAttempts : Nat,
         entry : TaskState \cup {"none"},
         edited : BOOLEAN]

\* start(): the Live entry of a run that finds its task in state s.
Started(s) == [aborted |-> FALSE, modelCalls |-> 0, toolSteps |-> 0,
               reviewRounds |-> 0, repairAttempts |-> 0,
               entry |-> s, edited |-> FALSE]
NoRun == Started("none")

TypeOK ==
  /\ state \in [Task -> TaskState \cup {"ABSENT"}]
  /\ request \in [Task -> Requests \cup {NoRequest}]
  /\ usage \in [Task -> Nat]
  /\ cost \in [Task -> Nat]
  /\ checkpoint \in [Task -> {"none", "unavailable", "taken", "committed"}]
  /\ changed \in [Task -> BOOLEAN]
  /\ unverified \in [Task -> BOOLEAN]
  /\ gate \in [Task -> {"shut", "skipped", "auto", "approved"}]
  /\ up \in BOOLEAN
  /\ queue \in [Session -> Seq(Jobs)]
  /\ pc \in [Task -> PC]
  /\ loop \in [Task -> {"execute", "repair", "review"}]
  /\ pending \in [Task -> Nat]
  /\ live \in [Task -> Live]
  /\ topic \in [Task -> {"absent", "open", "closed"}]
  /\ crashes \in Nat

Init ==
  /\ state = [t \in Task |-> "ABSENT"]
  /\ request = [t \in Task |-> NoRequest]
  /\ usage = [t \in Task |-> 0]
  /\ cost = [t \in Task |-> 0]
  /\ checkpoint = [t \in Task |-> "none"]
  /\ changed = [t \in Task |-> FALSE]
  /\ unverified = [t \in Task |-> FALSE]
  /\ gate = [t \in Task |-> "shut"]
  /\ up = TRUE
  /\ queue = [s \in Session |-> <<>>]
  /\ pc = [t \in Task |-> "idle"]
  /\ loop = [t \in Task |-> "execute"]
  /\ pending = [t \in Task |-> 0]
  /\ live = [t \in Task |-> NoRun]
  /\ topic = [t \in Task |-> "absent"]
  /\ crashes = 0

-----------------------------------------------------------------------------
(* Helpers                                                                  *)

Running(t) == pc[t] # "idle"

\* The queued jobs of task t, the running one included.
JobsOf(t) == {i \in DOMAIN queue[SessionOf[t]] : queue[SessionOf[t]][i].task = t}

\* Review of the run: validateReviewComplete's parameter review.
ReviewsFully(t) ==
  /\ live[t].entry = "UNDERSTAND"
  /\ request[t].intent = "change"
  /\ FullReview(request[t].complexity)

\* apply(): the state task t, now in state s, is in after event e.
After(t, s, e) == Transition(s, e, request[t].mode, live[t].repairAttempts)

\* Fault: the end of a task is an ordinary chunk.
DoneFault(t) == [topic EXCEPT ![t] = IF @ = "absent" THEN "open" ELSE @]

\* hub.publish of an ordinary chunk, and of the done chunk.
Published(t) == [topic EXCEPT ![t] = IF @ = "absent" THEN "open" ELSE @]
Done(t)      == [topic EXCEPT ![t] = "closed"]

\* finish(): nothing happens to a task that is already in a terminal state.
Finish(t, s, e) ==
  LET effective == IF s = "CHECKPOINT" /\ e = "answered" THEN "checkpoint_created" ELSE e
  IN /\ state' = [state EXCEPT ![t] = After(t, s, effective)]
     /\ topic' = IF s \in Terminal THEN Published(t) ELSE Done(t)

\* The run's promise settles: live.delete, and the session's chain moves on.
Leave(t) ==
  /\ pc' = [pc EXCEPT ![t] = "idle"]
  /\ live' = [live EXCEPT ![t] = NoRun]
  /\ pending' = [pending EXCEPT ![t] = 0]
  /\ loop' = [loop EXCEPT ![t] = "execute"]
  /\ queue' = [queue EXCEPT ![SessionOf[t]] = Tail(@)]

\* Fault: a failure wins over a cancel.
SettleFault(t, s, e) == Finish(t, s, e) /\ Leave(t)

\* settle() and crash(): end the run of t, whose task is in state s, with
\* event e; a cancelled run ends with "cancel" whatever happened to it.
Settle(t, s, e) ==
  /\ Finish(t, s, IF live[t].aborted THEN "cancel" ELSE e)
  /\ Leave(t)

\* The run of t goes on to await p, its task in state s, its Live entry l.
Await(t, s, p, l) ==
  /\ state' = [state EXCEPT ![t] = s]
  /\ pc' = [pc EXCEPT ![t] = p]
  /\ live' = [live EXCEPT ![t] = l]
  /\ topic' = Published(t)
  /\ UNCHANGED queue

\* Await with a model call on the way: modelCall() counts it first.
CallModel(t, s, p, l) == Await(t, s, p, [l EXCEPT !.modelCalls = @ + 1])

\* builderLoop(): its first model call.
Build(t, s, l, kind) ==
  /\ CallModel(t, s, "model", l)
  /\ loop' = [loop EXCEPT ![t] = kind]
  /\ UNCHANGED pending

\* A model call whose stream finished is in the ledger, and publishUsage()
\* copies the ledger into the task row.
Billed(t) ==
  /\ usage' = [usage EXCEPT ![t] = @ + 1]
  /\ cost' = [cost EXCEPT ![t] = usage[t] + 1]

-----------------------------------------------------------------------------
(* Commands                                                                 *)

\* submit(): the row is inserted and the run is chained to the session.
Submit(t, r) ==
  /\ up
  /\ state[t] = "ABSENT"
  /\ state' = [state EXCEPT ![t] = Initial]
  /\ request' = [request EXCEPT ![t] = r]
  /\ topic' = Published(t)
  /\ queue' = [queue EXCEPT ![SessionOf[t]] = Append(@, [task |-> t, job |-> "run"])]
  /\ UNCHANGED <<usage, cost, checkpoint, changed, unverified, gate, up, pc, loop,
                 pending, live, crashes>>

\* Fault: cancel() does not look for a run first.
CancelIdleFault(t) ==
  /\ up
  /\ state[t] \notin Terminal \cup {"ABSENT"}
  /\ Finish(t, state[t], "cancel")
  /\ UNCHANGED <<request, usage, cost, checkpoint, changed, unverified, gate, up,
                 queue, pc, loop, pending, live, crashes>>

\* cancel() of a task with no run.  The machine ignores "cancel" in
\* INTERRUPTED, but finish() still publishes done.
CancelIdle(t) ==
  /\ up
  /\ state[t] \notin Terminal \cup {"ABSENT"}
  /\ ~Running(t)
  /\ Finish(t, state[t], "cancel")
  /\ UNCHANGED <<request, usage, cost, checkpoint, changed, unverified, gate, up,
                 queue, pc, loop, pending, live, crashes>>

\* Fault: cancel() does not wake a run that waits for approval.
CancelRunningFault(t) ==
  /\ up
  /\ Running(t) /\ state[t] \notin Terminal /\ ~live[t].aborted
  /\ live' = [live EXCEPT ![t].aborted = TRUE]
  /\ UNCHANGED <<db, up, queue, pc, loop, pending, topic, crashes>>

\* cancel() of a task with a run: abort the controller.  A run waiting for
\* approval is told "rejected", and ends with "cancel" since it is aborted.
CancelRunning(t) ==
  /\ up
  /\ Running(t)
  /\ state[t] \notin Terminal
  /\ ~live[t].aborted
  /\ IF pc[t] = "approval"
     THEN Finish(t, state[t], "cancel") /\ Leave(t)
     ELSE /\ live' = [live EXCEPT ![t].aborted = TRUE]
          /\ UNCHANGED <<state, queue, pc, loop, pending, topic>>
  /\ UNCHANGED <<request, usage, cost, checkpoint, changed, unverified, gate, up, crashes>>

\* decide(): the waiting run continues with the user's decision.
Approve(t) ==
  /\ up
  /\ state[t] = "AWAIT_APPROVAL" /\ pc[t] = "approval"
  /\ Await(t, After(t, state[t], "approved"), "checkpoint", live[t])
  /\ gate' = [gate EXCEPT ![t] = "approved"]
  /\ UNCHANGED <<request, usage, cost, checkpoint, changed, unverified, up,
                 loop, pending, crashes>>

Revise(t) ==
  /\ up
  /\ state[t] = "AWAIT_APPROVAL" /\ pc[t] = "approval"
  /\ live[t].modelCalls <= MaxRevisions   \* bound: before edits every call is a plan
  /\ CallModel(t, After(t, state[t], "revise"), "plan", live[t])
  /\ UNCHANGED <<request, usage, cost, checkpoint, changed, unverified, gate, up,
                 loop, pending, crashes>>

Reject(t) ==
  /\ up
  /\ state[t] = "AWAIT_APPROVAL" /\ pc[t] = "approval"
  /\ Finish(t, state[t], "rejected")
  /\ Leave(t)
  /\ UNCHANGED <<request, usage, cost, checkpoint, changed, unverified, gate, up, crashes>>

\* resume(): INTERRUPTED is checked now, the job runs when its turn comes.
Resume(t) ==
  /\ up
  /\ state[t] = "INTERRUPTED"
  /\ Cardinality(JobsOf(t)) < MaxResumes  \* bound
  /\ queue' = [queue EXCEPT ![SessionOf[t]] = Append(@, [task |-> t, job |-> "resume"])]
  /\ UNCHANGED <<db, up, pc, loop, pending, live, topic, crashes>>

-----------------------------------------------------------------------------
(* The session's chain starts its next job                                  *)

\* Fault: jobs are not chained.
DueFault(t, job) ==
  /\ up
  /\ \E i \in DOMAIN queue[SessionOf[t]] : queue[SessionOf[t]][i] = [task |-> t, job |-> job]
  /\ ~Running(t)

\* The head of the chain is a job of t, and no run of it is under way.
Due(t, job) ==
  /\ up
  /\ queue[SessionOf[t]] # <<>>
  /\ Head(queue[SessionOf[t]]) = [task |-> t, job |-> job]
  /\ ~Running(t)

\* Fault: a job with nothing to do does not settle.
SkipFault(t) == Due(t, "run") /\ state[t] # Initial /\ UNCHANGED vars

\* runAsk/runBuild find the task no longer in UNDERSTAND and return.
Skip(t) ==
  /\ Due(t, "run")
  /\ state[t] # Initial
  /\ queue' = [queue EXCEPT ![SessionOf[t]] = Tail(@)]
  /\ UNCHANGED <<db, up, pc, loop, pending, live, topic, crashes>>

\* Fault: an ask task gets tools.
StartAskFault(t) ==
  /\ Due(t, "run")
  /\ state[t] = Initial /\ request[t].mode = "ask"
  /\ Build(t, After(t, state[t], "context_sufficient"), Started(state[t]), "execute")
  /\ UNCHANGED <<request, usage, cost, checkpoint, changed, unverified, gate, up, crashes>>

StartAsk(t) ==
  /\ Due(t, "run")
  /\ state[t] = Initial
  /\ request[t].mode = "ask"
  /\ CallModel(t, After(t, state[t], "context_sufficient"), "answer", Started(state[t]))
  /\ UNCHANGED <<request, usage, cost, checkpoint, changed, unverified, gate, up,
                 loop, pending, crashes>>

\* runBuild: plan, unless the profile skips the plan (a trivial change goes
\* to the checkpoint at once) or there is nothing to plan (a fix).
StartBuild(t) ==
  LET planned == After(t, state[t], "context_sufficient")
      l       == Started(state[t])
      fix     == request[t].intent = "fix"
      trivial == SkipsPlan(request[t].complexity)
  IN /\ Due(t, "run")
     /\ state[t] = Initial
     /\ request[t].mode = "build"
     /\ \/ fix /\ Await(t, planned, "checkpoint", l)
        \/ ~fix /\ trivial /\ Await(t, After(t, planned, "plan_skipped"), "checkpoint", l)
        \/ ~fix /\ ~trivial /\ CallModel(t, planned, "plan", l)
     /\ gate' = [gate EXCEPT ![t] = IF fix \/ trivial THEN "skipped" ELSE @]
     /\ UNCHANGED <<request, usage, cost, checkpoint, changed, unverified, up,
                    loop, pending, crashes>>

\* runFromValidate: the state is not checked again.
StartResume(t) ==
  /\ Due(t, "resume")
  /\ Await(t, After(t, state[t], "resume"), "validate", Started(state[t]))
  /\ UNCHANGED <<request, usage, cost, checkpoint, changed, unverified, gate, up,
                 loop, pending, crashes>>

\* A run throws before its first await (its project is gone): crash().
StartThrows(t, job) ==
  /\ Due(t, job)
  /\ job = "run" => state[t] = Initial
  /\ Finish(t, IF job = "run" THEN state[t] ELSE After(t, state[t], "resume"), "failed")
  /\ queue' = [queue EXCEPT ![SessionOf[t]] = Tail(@)]
  /\ UNCHANGED <<request, usage, cost, checkpoint, changed, unverified, gate, up,
                 pc, loop, pending, live, crashes>>

-----------------------------------------------------------------------------
(* Awaited calls answer                                                     *)

ModelCalling == {"answer", "plan", "model", "review"}

\* The provider's stream carries an error chunk: no usage is recorded, the
\* row takes the ledger's count, and the run settles as failed.
ModelFails(t) ==
  /\ up /\ pc[t] \in ModelCalling
  /\ cost' = [cost EXCEPT ![t] = usage[t]]
  /\ Settle(t, state[t], "failed")
  /\ UNCHANGED <<request, usage, checkpoint, changed, unverified, gate, up, crashes>>

\* Anything else that ends a run early: the provider throws, the checkpoint
\* is refused, validation could not run, a store throws.  Version control's
\* failure to commit is not among these (commitCheckpoint catches it).
RunThrows(t) ==
  /\ up /\ pc[t] \notin {"idle", "approval", "commit"}
  /\ Settle(t, state[t], "failed")
  /\ UNCHANGED <<request, usage, cost, checkpoint, changed, unverified, gate, up, crashes>>

\* The call finished although the run was cancelled meanwhile: every caller
\* looks at the abort signal before anything else and settles.
ModelReturnsLate(t) ==
  /\ up /\ pc[t] \in ModelCalling /\ live[t].aborted
  /\ Billed(t)
  /\ Settle(t, state[t], "failed")
  /\ UNCHANGED <<request, checkpoint, changed, unverified, gate, up, crashes>>

\* runAsk: the answer has streamed.
Answered(t) ==
  /\ up /\ pc[t] = "answer" /\ ~live[t].aborted
  /\ Billed(t)
  /\ Settle(t, state[t], "answered")
  /\ UNCHANGED <<request, checkpoint, changed, unverified, gate, up, crashes>>

\* planStep: the text is not a plan.
PlanUnusable(t) ==
  /\ up /\ pc[t] = "plan" /\ ~live[t].aborted
  /\ Billed(t)
  /\ Settle(t, state[t], "failed")
  /\ UNCHANGED <<request, checkpoint, changed, unverified, gate, up, crashes>>

\* planStep returned a plan: the project's policy is read now.
Planned(t, threshold) ==
  /\ up /\ pc[t] = "plan" /\ ~live[t].aborted
  /\ Billed(t)
  /\ IF AutoApproves(threshold, request[t].complexity)
     THEN /\ Await(t, After(t, state[t], "plan_auto_approved"), "checkpoint", live[t])
          /\ gate' = [gate EXCEPT ![t] = "auto"]
     ELSE /\ Await(t, After(t, state[t], "plan_ready"), "approval", live[t])
          /\ gate' = [gate EXCEPT ![t] = "shut"]
  /\ UNCHANGED <<request, checkpoint, changed, unverified, up, loop, pending, crashes>>

\* takeCheckpoint returns true; the abort signal is not looked at here.  A
\* fix validates what is on disk, anything else is built.
CheckpointReturns(t, row) ==
  /\ up /\ pc[t] = "checkpoint"
  /\ checkpoint' = [checkpoint EXCEPT ![t] = row]
  /\ \/ /\ request[t].intent = "fix"
        /\ Await(t, After(t, After(t, state[t], "plan_skipped"), "edits_applied"),
                 "validate", live[t])
        /\ UNCHANGED <<loop, pending>>
     \/ request[t].intent # "fix" /\ Build(t, state[t], live[t], "execute")
  /\ UNCHANGED <<request, usage, cost, changed, unverified, gate, up, crashes>>

StepsLeft(t) == live[t].toolSteps < MaxToolSteps[request[t].complexity]
CallsLeft(t) == live[t].modelCalls < MaxModelCalls[request[t].complexity]

\* builderLoop returns: the turn called no tool.  The caller of the loop
\* applies the event that leads to validation.
LoopReturns(t) ==
  LET repair == loop[t] = "repair"
  IN /\ up /\ pc[t] = "model" /\ ~live[t].aborted
     /\ Billed(t)
     /\ Await(t, After(t, state[t], IF repair THEN "fix_applied" ELSE "edits_applied"),
              "validate",
              [live[t] EXCEPT !.repairAttempts = IF repair THEN @ + 1 ELSE @])
     /\ UNCHANGED <<request, checkpoint, changed, unverified, gate, up, loop, pending, crashes>>

\* The turn called n + 1 tools: execute the first if the budget allows.
TurnCallsTools(t, n) ==
  /\ up /\ pc[t] = "model" /\ ~live[t].aborted
  /\ Billed(t)
  /\ \/ /\ StepsLeft(t)
        /\ Await(t, state[t], "tool", [live[t] EXCEPT !.toolSteps = @ + 1])
        /\ pending' = [pending EXCEPT ![t] = n]
        /\ UNCHANGED loop
     \/ ~StepsLeft(t) /\ Settle(t, state[t], "failed")
  /\ UNCHANGED <<request, checkpoint, changed, unverified, gate, up, crashes>>

\* A tool call returned.  The file tools edit in one synchronous step that
\* ToolRuntime takes only while the signal is not aborted, so the edit and
\* what the loop does next are one action: the turn's next call, or the next
\* turn, each within its budget.
ToolReturns(t, edits) ==
  LET l == [live[t] EXCEPT !.edited = @ \/ edits]
  IN /\ up /\ pc[t] = "tool"
     /\ edits => ~l.aborted
     /\ changed' = [changed EXCEPT ![t] = @ \/ edits]
     /\ unverified' = [unverified EXCEPT ![t] = @ \/ edits]
     /\ \/ /\ pending[t] > 0 /\ StepsLeft(t)
           /\ Await(t, state[t], "tool", [l EXCEPT !.toolSteps = @ + 1])
           /\ pending' = [pending EXCEPT ![t] = @ - 1]
           /\ UNCHANGED loop
        \/ /\ pending[t] = 0 /\ CallsLeft(t)
           /\ CallModel(t, state[t], "model", l)
           /\ UNCHANGED <<loop, pending>>
        \/ /\ IF pending[t] > 0 THEN ~StepsLeft(t) ELSE ~CallsLeft(t)
           /\ Settle(t, state[t], "failed")
     /\ UNCHANGED <<request, usage, cost, checkpoint, gate, up, crashes>>

\* The end of validateReviewComplete, the task in REVIEW: commit the task's
\* paths if it changed any, and settle.
Conclude(t, s) ==
  LET passed == After(t, s, "review_passed")
  IN \/ changed[t] /\ Await(t, passed, "commit", live[t]) /\ UNCHANGED <<loop, pending>>
     \/ ~changed[t] /\ Settle(t, passed, "answered")

\* validateLoop: the validators' report is in, the run is not cancelled.
ChecksPass(t) ==
  LET s      == After(t, state[t], "checks_passed")
      review == ReviewsFully(t) /\ live[t].reviewRounds < MaxReviewRounds
  IN /\ up /\ pc[t] = "validate" /\ ~live[t].aborted
     /\ unverified' = [unverified EXCEPT ![t] = FALSE]
     /\ \/ review /\ CallModel(t, s, "review", live[t]) /\ UNCHANGED <<loop, pending>>
        \/ ~review /\ Conclude(t, s)
     /\ UNCHANGED <<request, usage, cost, checkpoint, changed, gate, up, crashes>>

\* Fault: checks that still fail after the last repair are let pass.
ChecksFailFault(t) ==
  LET failed == After(t, state[t], "checks_failed")
  IN /\ up /\ pc[t] = "validate" /\ ~live[t].aborted
     /\ \/ /\ live[t].repairAttempts < MaxRepairAttempts
           /\ Build(t, After(t, failed, "diagnosis_ready"), live[t], "repair")
        \/ /\ live[t].repairAttempts >= MaxRepairAttempts
           /\ Conclude(t, After(t, state[t], "checks_passed"))
     /\ UNCHANGED <<request, usage, cost, checkpoint, changed, unverified, gate, up, crashes>>

ChecksFail(t) ==
  LET failed == After(t, state[t], "checks_failed")
  IN /\ up /\ pc[t] = "validate" /\ ~live[t].aborted
     /\ \/ /\ live[t].repairAttempts < MaxRepairAttempts
           /\ Build(t, After(t, failed, "diagnosis_ready"), live[t], "repair")
        \/ /\ live[t].repairAttempts >= MaxRepairAttempts
           /\ Settle(t, failed, "failed")
     /\ UNCHANGED <<request, usage, cost, checkpoint, changed, unverified, gate, up, crashes>>

\* A report that arrives after the run was cancelled is dropped.
ChecksReturnLate(t) ==
  /\ up /\ pc[t] = "validate" /\ live[t].aborted
  /\ Settle(t, state[t], "answered")
  /\ UNCHANGED <<request, usage, cost, checkpoint, changed, unverified, gate, up, crashes>>

\* reviewStep.  publishUsage() has put the reviewer's call in the row, but
\* the runner applies its next event to the copy of the task it took before
\* the call, and so writes the old cost back: cost stays as it was.
ReviewPasses(t) ==
  /\ up /\ pc[t] = "review" /\ ~live[t].aborted
  /\ usage' = [usage EXCEPT ![t] = @ + 1]
  /\ Conclude(t, state[t])
  /\ UNCHANGED <<request, cost, checkpoint, changed, unverified, gate, up, crashes>>

ReviewWantsChanges(t) ==
  /\ up /\ pc[t] = "review" /\ ~live[t].aborted
  /\ usage' = [usage EXCEPT ![t] = @ + 1]
  /\ Build(t, After(t, state[t], "review_requests_changes"),
           [live[t] EXCEPT !.reviewRounds = @ + 1], "review")
  /\ UNCHANGED <<request, cost, checkpoint, changed, unverified, gate, up, crashes>>

\* commitCheckpoint: a commit needs the checkpoint row; failing is not fatal.
CommitReturns(t, committed) ==
  /\ up /\ pc[t] = "commit"
  /\ committed => checkpoint[t] \in {"taken", "committed"}
  /\ checkpoint' = IF committed THEN [checkpoint EXCEPT ![t] = "committed"] ELSE checkpoint
  /\ Settle(t, state[t], "answered")
  /\ UNCHANGED <<request, usage, cost, changed, unverified, gate, up, crashes>>

-----------------------------------------------------------------------------
(* The process and the hub                                                  *)

\* The process exits between two steps: memory is lost.
Crash ==
  /\ up
  /\ crashes < MaxCrashes   \* bound
  /\ up' = FALSE
  /\ crashes' = crashes + 1
  /\ queue' = [s \in Session |-> <<>>]
  /\ pc' = [t \in Task |-> "idle"]
  /\ loop' = [t \in Task |-> "execute"]
  /\ pending' = [t \in Task |-> 0]
  /\ live' = [t \in Task |-> NoRun]
  /\ topic' = [t \in Task |-> "absent"]
  /\ UNCHANGED db

\* Fault: tasks that had not started yet are not recovered.
LeftFault(t) == state[t] \notin Terminal \cup {"ABSENT", "INTERRUPTED", "NEEDS_USER", Initial}

\* Startup: recoverInterrupted() before any command is served.
Left(t) == state[t] \notin Terminal \cup {"ABSENT", "INTERRUPTED", "NEEDS_USER"}

Recover ==
  /\ ~up
  /\ up' = TRUE
  /\ state' = [t \in Task |-> IF Left(t) THEN After(t, state[t], "process_exit") ELSE state[t]]
  /\ topic' = [t \in Task |-> IF Left(t) THEN "open" ELSE topic[t]]
  /\ UNCHANGED <<request, usage, cost, checkpoint, changed, unverified, gate,
                 queue, pc, loop, pending, live, crashes>>

\* The hub forgets a closed topic when its retention time is over.
TopicExpires(t) ==
  /\ topic[t] = "closed"
  /\ topic' = [topic EXCEPT ![t] = "absent"]
  /\ UNCHANGED <<db, up, queue, pc, loop, pending, live, crashes>>

\* stream(): without a topic the client gets a replay of the row, which ends
\* with done when the task rests; with one it subscribes to what is there.
Stream(t) ==
  /\ up
  /\ state[t] # "ABSENT" /\ topic[t] = "absent"
  /\ topic' = [topic EXCEPT ![t] = IF state[t] \in Resting THEN "closed" ELSE "open"]
  /\ UNCHANGED <<db, up, queue, pc, loop, pending, live, crashes>>

-----------------------------------------------------------------------------

Command(t) ==
  \/ \E r \in Requests : Submit(t, r)
  \/ CancelIdle(t)
  \/ CancelRunning(t)
  \/ Approve(t)
  \/ Revise(t)
  \/ Reject(t)
  \/ Resume(t)

\* What the session's chain and the awaited calls do; all of it happens
\* without the user.
Progress(t) ==
  \/ Skip(t)
  \/ StartAsk(t)
  \/ StartBuild(t)
  \/ StartResume(t)
  \/ \E job \in {"run", "resume"} : StartThrows(t, job)
  \/ ModelFails(t)
  \/ RunThrows(t)
  \/ ModelReturnsLate(t)
  \/ Answered(t)
  \/ PlanUnusable(t)
  \/ \E threshold \in Threshold : Planned(t, threshold)
  \/ \E row \in {"taken", "unavailable"} : CheckpointReturns(t, row)
  \/ LoopReturns(t)
  \/ \E n \in 0..MaxCalls : TurnCallsTools(t, n)
  \/ \E edits \in BOOLEAN : ToolReturns(t, edits)
  \/ ChecksPass(t)
  \/ ChecksFail(t)
  \/ ChecksReturnLate(t)
  \/ ReviewPasses(t)
  \/ ReviewWantsChanges(t)
  \/ \E committed \in BOOLEAN : CommitReturns(t, committed)

Next ==
  \/ \E t \in Task : Command(t) \/ Progress(t) \/ TopicExpires(t) \/ Stream(t)
  \/ Crash
  \/ Recover

Spec == Init /\ [][Next]_vars

\* Every awaited call returns in the end (tools, consents and validators have
\* timeouts; a provider's stream ends), and the event loop runs the jobs that
\* are due.  Nothing is assumed of the user.
Fairness == \A t \in Task : WF_vars(Progress(t))

FairSpec == Spec /\ Fairness

-----------------------------------------------------------------------------
(* Properties                                                               *)

\* Runs of submit(), of a resume() that found its task interrupted, and of a
\* resume() that found it in another state: runFromValidate does not look.
Fresh(t)   == Running(t) /\ live[t].entry = Initial
Resumed(t) == Running(t) /\ live[t].entry = "INTERRUPTED"

\* A run awaits p only in the states in which the code awaits it: no stray
\* event, cancel or resume moves a task away from the code working on it.
StatesAt(p) ==
  CASE p = "answer"     -> {"EXECUTE"}
    [] p = "plan"       -> {"PLAN"}
    [] p = "approval"   -> {"AWAIT_APPROVAL"}
    [] p = "checkpoint" -> {"PLAN", "EXECUTE"}
    [] p \in {"model", "tool"} -> {"EXECUTE", "REPAIR"}
    [] p = "validate"   -> {"VALIDATE"}
    [] p = "review"     -> {"REVIEW"}
    [] p = "commit"     -> {"CHECKPOINT"}
    [] OTHER -> {}

RunnerOwnsState == \A t \in Task : Fresh(t) \/ Resumed(t) => state[t] \in StatesAt(pc[t])

\* No task is forgotten: while the process is up, a task that neither rests
\* nor is being run still has its job in the session's queue, whatever was
\* cancelled, crashed or recovered before.
NoTaskForgotten ==
  up => \A t \in Task :
          \/ state[t] \in Resting \cup {"ABSENT"}
          \/ Running(t)
          \/ \E i \in JobsOf(t) : queue[SessionOf[t]][i].job = "run" /\ state[t] = Initial

\* One task at a time per session: the running task is at the head of its
\* session's chain.
OneRunPerSession ==
  \A t \in Task : Running(t) =>
    queue[SessionOf[t]] # <<>> /\ Head(queue[SessionOf[t]]).task = t

\* A run of a submitted task edits files only in build mode, after its latest
\* plan passed the approval gate (or there is nothing to plan), and after a
\* checkpoint was tried; a revised plan passes the gate anew.
EditsAreGated ==
  \A t \in Task : Fresh(t) /\ live[t].edited =>
    /\ request[t].mode = "build"
    /\ checkpoint[t] # "none"
    /\ \/ gate[t] \in {"auto", "approved"}
       \/ gate[t] = "skipped" /\ (request[t].intent = "fix" \/ SkipsPlan(request[t].complexity))

\* The budgets of the profile and the caps on repair and review rounds bound
\* what a run does, resumed or not.
WithinBudgets ==
  \A t \in Task : Running(t) =>
    /\ request[t].complexity \in Complexity
    /\ live[t].toolSteps <= MaxToolSteps[request[t].complexity]
    /\ live[t].repairAttempts <= MaxRepairAttempts
    /\ live[t].reviewRounds <= MaxReviewRounds

\* A task becomes COMPLETE, and its paths are committed, only when the checks
\* passed after its last edit, in whichever run that was made.
CompletionIsVerified ==
  [][\A t \in Task :
       /\ state[t] # "COMPLETE" /\ state'[t] = "COMPLETE" => ~unverified'[t]
       /\ checkpoint[t] # "committed" /\ checkpoint'[t] = "committed" => ~unverified[t]]_vars

\* Once a run is told to cancel it changes nothing more, and when it ends its
\* task is CANCELLED whatever else went wrong meanwhile; only a process exit
\* or a task that already ended prevents it.
CancelWins ==
  [][\A t \in Task : Running(t) /\ live[t].aborted =>
       /\ changed'[t] = changed[t]
       /\ unverified'[t] => unverified[t]
       /\ ~Running(t)' /\ up' => state'[t] = "CANCELLED" \/ state[t] \in Terminal]_vars

\* Without a process exit nobody is left listening to a stream that will say
\* nothing more: the topic of a resting task is closed or gone.
StreamsEnd ==
  crashes = 0 => \A t \in Task : state[t] \in Resting => topic[t] # "open"

\* A submitted task comes to rest unless it, or a task before it in its
\* session, waits for the user to decide on a plan, or the process is down.
WaitingForUser(t) ==
  ~up \/ \E u \in Task : SessionOf[u] = SessionOf[t] /\ state[u] = "AWAIT_APPROVAL"

EveryTaskSettles ==
  \A t \in Task : state[t] = Initial ~> (state[t] \in Resting \/ WaitingForUser(t))

\* A cancelled run ends.
CancelTakesEffect ==
  \A t \in Task : Running(t) /\ live[t].aborted ~> ~Running(t)
====
