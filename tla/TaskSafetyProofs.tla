---- MODULE TaskSafetyProofs ----
(***************************************************************************)
(* IInv of TaskInvariant is inductive, and what follows from it: the       *)
(* safety properties of TaskService for every number of tasks, sessions,   *)
(* crashes and resumes and every budget.  Then, for tasks resumed once at  *)
(* a time, that TaskService implements TaskLifecycle.                      *)
(***************************************************************************)
EXTENDS TaskServiceProofs, TaskRefinement, FiniteSetTheorems

USE DEF Running

-----------------------------------------------------------------------------
(* The state machine                                                        *)

\* Only the user's input, which nothing raises, brings a task back to the
\* initial state.
LEMMA NeverInitialAgain ==
  ASSUME NEW t, NEW s \in TaskState \ {Initial}, NEW e, e # "user_input"
  PROVE  After(t, s, e) \in TaskState \ {Initial}
  BY DEF After, Transition, TaskState, Initial, Working, Resting, Terminal

\* A resting task that is not interrupted ignores the events of a run.
LEMMA RestStays ==
  ASSUME NEW t, NEW s \in Resting \ {"INTERRUPTED"},
         NEW e \in TaskEvent \ {"user_input", "cancel", "failed", "process_exit"}
  PROVE  After(t, s, e) = s
  BY DEF After, Transition, Initial, Resting, Terminal, TaskEvent

\* settle() with "failed" always leaves a task at rest; with "answered" it
\* does where the code calls it.
LEMMA SettleRests ==
  ASSUME NEW t \in Task, live[t].aborted \in BOOLEAN,
         NEW s \in TaskState \ {"INTERRUPTED"}, NEW e,
         \/ e = "failed"
         \/ e = "answered" /\ (s \in {"EXECUTE", "CHECKPOINT"} \cup Resting \/ live[t].aborted),
         Settle(t, s, e)
  PROVE  \E x \in Resting \ {"INTERRUPTED"} :
            /\ state' = [state EXCEPT ![t] = x]
            /\ live[t].aborted => x = "CANCELLED" \/ (s \in Terminal /\ x = s)
            /\ x = "COMPLETE" => s = "COMPLETE" \/ (e = "answered" /\ s \in {"EXECUTE", "CHECKPOINT"})
  <1> DEFINE ev == IF live[t].aborted THEN "cancel" ELSE e
             ef == IF s = "CHECKPOINT" /\ ev = "answered" THEN "checkpoint_created" ELSE ev
             x  == After(t, s, ef)
  <1>1. state' = [state EXCEPT ![t] = x]
    BY DEF Settle, Finish
  <1>2. CASE live[t].aborted
    <2>1. x = IF s \in Terminal THEN s ELSE "CANCELLED"
      BY <1>2 DEF After, Transition, TaskState, Initial, Working, Resting, Terminal
    <2> QED BY <1>1, <1>2, <2>1 DEF Resting, Terminal
  <1>3. CASE ~live[t].aborted /\ e = "failed"
    <2>1. x = IF s \in Terminal THEN s ELSE "NEEDS_USER"
      BY <1>3 DEF After, Transition, TaskState, Initial, Working, Resting, Terminal
    <2> QED BY <1>1, <1>3, <2>1 DEF Resting, Terminal
  <1>4. CASE ~live[t].aborted /\ e = "answered"
    <2>1. x = IF s \in Resting THEN s ELSE "COMPLETE"
      BY <1>4 DEF After, Transition, TaskState, Initial, Working, Resting, Terminal
    <2> QED BY <1>1, <1>4, <2>1 DEF Resting, Terminal
  <1> QED BY <1>2, <1>3, <1>4

-----------------------------------------------------------------------------
(* Frames                                                                   *)

SameRun(u) ==
  /\ pc'[u] = pc[u] /\ state'[u] = state[u] /\ loop'[u] = loop[u] /\ live'[u] = live[u]
  /\ request'[u] = request[u] /\ gate'[u] = gate[u]
  /\ checkpoint'[u] = checkpoint[u] /\ unverified'[u] = unverified[u]

\* A task whose variables a step leaves alone keeps its part of the invariant.
LEMMA RunFrame ==
  ASSUME NEW u \in Task, RunOK(u), UntouchedOK(u), SameRun(u)
  PROVE  RunOK(u)' /\ UntouchedOK(u)'
  BY DEF SameRun, RunOK, StateOK, Expected, PlaceOK, GateOK, BudgetOK, VerifiedOK, UntouchedOK

\* The head leaving a chain leaves the other tasks' jobs in it.
LEMMA TailJobs ==
  ASSUME Inv1, NEW t \in Task, queue[SessionOf[t]] # <<>>,
         Head(queue[SessionOf[t]]).task = t,
         queue' = [queue EXCEPT ![SessionOf[t]] = Tail(@)],
         NEW u \in Task, u # t, HasJob(u)
  PROVE  HasJob(u)'
  <1> DEFINE s == SessionOf[t]
             r == SessionOf[u]
  <1>1. s \in Session /\ r \in Session /\ queue[s] \in Seq(Jobs) /\ queue[r] \in Seq(Jobs)
    BY SessionAssumption DEF Inv1, TypeOK
  <1>2. PICK i \in 1..Len(queue[r]) : queue[r][i] = [task |-> u, job |-> "run"]
    BY DEF HasJob
  <1>3. CASE r # s
    <2>1. queue'[r] = queue[r]
      BY <1>1, <1>3 DEF Inv1, TypeOK
    <2> QED BY <1>2, <2>1 DEF HasJob
  <1>4. CASE r = s
    <2>1. /\ queue'[r] = Tail(queue[r])
          /\ Len(Tail(queue[r])) = Len(queue[r]) - 1
          /\ \A j \in 1..Len(Tail(queue[r])) : Tail(queue[r])[j] = queue[r][j + 1]
          /\ Head(queue[r]) = queue[r][1]
      BY <1>1, <1>4, HeadTailProperties DEF Inv1, TypeOK
    <2>2. i # 1
      BY <1>2, <1>4, <2>1
    <2>3. Len(queue[r]) \in Nat
      BY <1>1, LenProperties
    <2>4. i - 1 \in 1..Len(Tail(queue[r])) /\ (i - 1) + 1 = i
      BY <1>2, <2>1, <2>2, <2>3
    <2>5. queue'[r][i - 1] = [task |-> u, job |-> "run"]
      BY <1>2, <2>1, <2>4
    <2> QED BY <2>1, <2>4, <2>5 DEF HasJob
  <1> QED BY <1>3, <1>4

\* A job joining a chain leaves the jobs in it where they are.
LEMMA AppendJobs ==
  ASSUME Inv1, NEW t \in Task, NEW job \in {"run", "resume"},
         queue' = [queue EXCEPT ![SessionOf[t]] = Append(@, [task |-> t, job |-> job])]
  PROVE  /\ job = "run" => HasJob(t)'
         /\ \A u \in Task : HasJob(u) => HasJob(u)'
  <1> DEFINE s == SessionOf[t]
             j == [task |-> t, job |-> job]
             n == Len(queue[s]) + 1
  <1>1. s \in Session /\ j \in Jobs /\ queue[s] \in Seq(Jobs)
    BY SessionAssumption DEF Jobs, Inv1, TypeOK
  <1>2. /\ Len(Append(queue[s], j)) = n
        /\ Append(queue[s], j)[n] = j
        /\ \A i \in 1..Len(queue[s]) : Append(queue[s], j)[i] = queue[s][i]
    BY <1>1, AppendProperties
  <1>3. Len(queue[s]) \in Nat
    BY <1>1, LenProperties
  <1>4. queue'[s] = Append(queue[s], j) /\ \A r \in Session \ {s} : queue'[r] = queue[r]
    BY <1>1 DEF Inv1, TypeOK
  <1>5. ASSUME job = "run" PROVE HasJob(t)'
    <2>1. n \in 1..Len(queue'[s]) /\ queue'[s][n] = j
      BY <1>2, <1>3, <1>4
    <2> QED BY <1>5, <2>1 DEF HasJob
  <1>6. ASSUME NEW u \in Task, HasJob(u) PROVE HasJob(u)'
    <2>1. PICK i \in 1..Len(queue[SessionOf[u]]) :
            queue[SessionOf[u]][i] = [task |-> u, job |-> "run"]
      BY <1>6 DEF HasJob
    <2>2. CASE SessionOf[u] = s
      <3>1. i \in 1..Len(queue'[s]) /\ queue'[s][i] = queue[s][i]
        BY <1>2, <1>3, <1>4, <2>1, <2>2
      <3> QED BY <2>1, <2>2, <3>1 DEF HasJob
    <2>3. CASE SessionOf[u] # s
      <3>1. queue'[SessionOf[u]] = queue[SessionOf[u]]
        BY <1>4, <2>3, SessionAssumption
      <3> QED BY <2>1, <3>1 DEF HasJob
    <2> QED BY <2>2, <2>3
  <1> QED BY <1>5, <1>6

\* A run ends and leaves its task at rest.
LEMMA LeaveInv2 ==
  ASSUME IInv, NEW t \in Task, Running(t), NEW x \in Resting,
         state' = [state EXCEPT ![t] = x], Leave(t), up' = up, request' = request,
         \A u \in Task \ {t} : /\ gate'[u] = gate[u] /\ checkpoint'[u] = checkpoint[u]
                               /\ unverified'[u] = unverified[u]
  PROVE  Inv2'
  <1> USE DEF IInv, Inv2
  <1>1. up /\ up'
    OBVIOUS
  <1>2. /\ SessionOf[t] \in Session /\ queue[SessionOf[t]] # <<>>
        /\ Head(queue[SessionOf[t]]).task = t
        /\ queue' = [queue EXCEPT ![SessionOf[t]] = Tail(@)]
    BY SessionAssumption DEF Inv1, OneRunPerSession, Leave
  <1>3. \A s \in Session : \A i \in 1..Len(queue'[s]) :
          \E j \in 1..Len(queue[s]) : queue'[s][i] = queue[s][j]
    BY <1>2, TailQueue DEF Inv1
  <1>4. /\ state'[t] = x /\ pc'[t] = "idle"
        /\ \A u \in Task \ {t} : SameRun(u)
    BY DEF Inv1, TypeOK, Leave, SameRun
  <1>5. x # "ABSENT" /\ x # Initial
    BY DEF Resting, Terminal, Initial
  <1>6. ResumesOK'
    <2> SUFFICES ASSUME NEW s \in Session, NEW i \in 1..Len(queue'[s]), queue'[s][i].job = "resume"
                 PROVE  state'[queue'[s][i].task] # Initial
      BY DEF ResumesOK
    <2>1. PICK j \in 1..Len(queue[s]) : queue'[s][i] = queue[s][j]
      BY <1>3
    <2>2. queue[s][j].task \in Task
      BY JobTask DEF Inv1
    <2> QED BY <1>4, <1>5, <2>1, <2>2 DEF ResumesOK, SameRun
  <1>7. ASSUME NEW u \in Task
        PROVE  RunOK(u)' /\ UntouchedOK(u)' /\ WaitingOK(u)'
    <2>1. CASE u = t
      BY <1>4, <1>5, <2>1 DEF RunOK, UntouchedOK, WaitingOK
    <2>2. CASE u # t
      <3>1. RunOK(u)' /\ UntouchedOK(u)'
        BY <1>4, <2>2, RunFrame
      <3>2. HasJob(u) => HasJob(u)'
        BY <1>2, <2>2, TailJobs
      <3>3. pc'[u] = pc[u] /\ state'[u] = state[u]
        BY <1>4, <2>2 DEF SameRun
      <3> QED BY <1>1, <3>1, <3>2, <3>3 DEF WaitingOK
    <2> QED BY <2>1, <2>2
  <1> QED BY <1>1, <1>6, <1>7

\* settle() leaves the task at rest and keeps the second part of the invariant.
LEMMA SettleInv2 ==
  ASSUME IInv, NEW t \in Task, Running(t), NEW s \in TaskState \ {"INTERRUPTED"}, NEW e,
         \/ e = "failed"
         \/ e = "answered" /\ (s \in {"EXECUTE", "CHECKPOINT"} \cup Resting \/ live[t].aborted),
         Settle(t, s, e), up' = up, request' = request,
         \A u \in Task \ {t} : /\ gate'[u] = gate[u] /\ checkpoint'[u] = checkpoint[u]
                               /\ unverified'[u] = unverified[u]
  PROVE  Inv2'
  <1>1. live[t].aborted \in BOOLEAN
    BY DEF IInv, Inv1, TypeOK, Live
  <1>2. PICK x \in Resting : state' = [state EXCEPT ![t] = x]
    BY <1>1, SettleRests
  <1>3. Leave(t)
    BY DEF Settle
  <1> QED BY <1>2, <1>3, LeaveInv2

\* A run goes on, or starts: what remains to be shown is RunOK(t)'.
LEMMA AwaitInv2 ==
  ASSUME IInv, NEW t \in Task, NEW s \in TaskState \ {Initial}, NEW p, p # "idle", NEW l,
         Await(t, s, p, l), up, up' = up,
         \A u \in Task \ {t} : /\ gate'[u] = gate[u] /\ checkpoint'[u] = checkpoint[u]
                               /\ unverified'[u] = unverified[u] /\ loop'[u] = loop[u]
                               /\ request'[u] = request[u],
         RunOK(t)'
  PROVE  Inv2'
  <1> USE DEF IInv, Inv2
  <1>1. s # "ABSENT"
    BY DEF TaskState, Initial, Working, Resting, Terminal
  <1>2. /\ state'[t] = s /\ pc'[t] = p /\ queue' = queue
        /\ \A u \in Task \ {t} : SameRun(u)
    BY DEF Inv1, TypeOK, Await, SameRun
  <1>3. ResumesOK'
    <2> SUFFICES ASSUME NEW r \in Session, NEW i \in 1..Len(queue[r]), queue[r][i].job = "resume"
                 PROVE  state'[queue[r][i].task] # Initial
      BY <1>2 DEF ResumesOK
    <2>1. queue[r][i].task \in Task
      BY JobTask DEF Inv1
    <2> QED BY <1>2, <2>1 DEF ResumesOK, SameRun
  <1>4. ASSUME NEW u \in Task
        PROVE  RunOK(u)' /\ UntouchedOK(u)' /\ WaitingOK(u)'
    <2>1. CASE u = t
      BY <1>1, <1>2, <2>1 DEF UntouchedOK, WaitingOK
    <2>2. CASE u # t
      <3>1. RunOK(u)' /\ UntouchedOK(u)'
        BY <1>2, <2>2, RunFrame
      <3>2. HasJob(u) => HasJob(u)'
        BY <1>2 DEF HasJob
      <3>3. pc'[u] = pc[u] /\ state'[u] = state[u]
        BY <1>2, <2>2 DEF SameRun
      <3> QED BY <3>1, <3>2, <3>3 DEF WaitingOK
    <2> QED BY <2>1, <2>2
  <1> QED BY <1>3, <1>4

\* A job leaves the chain before its run awaits anything.
LEMMA DropInv2 ==
  ASSUME IInv, NEW t \in Task, NEW job, Due(t, job), NEW x \in Resting,
         state' = [state EXCEPT ![t] = x],
         queue' = [queue EXCEPT ![SessionOf[t]] = Tail(@)],
         UNCHANGED <<request, checkpoint, unverified, gate, up, pc, loop, live>>
  PROVE  Inv2'
  <1> USE DEF IInv, Inv2
  <1>1. /\ SessionOf[t] \in Session /\ queue[SessionOf[t]] # <<>>
        /\ Head(queue[SessionOf[t]]).task = t /\ up /\ pc[t] = "idle"
    BY DueHead DEF Due
  <1>2. \A s \in Session : \A i \in 1..Len(queue'[s]) :
          \E j \in 1..Len(queue[s]) : queue'[s][i] = queue[s][j]
    BY <1>1, TailQueue DEF Inv1
  <1>3. state'[t] = x /\ \A u \in Task \ {t} : SameRun(u)
    BY DEF Inv1, TypeOK, SameRun
  <1>4. x # "ABSENT" /\ x # Initial
    BY DEF Resting, Terminal, Initial
  <1>5. ResumesOK'
    <2> SUFFICES ASSUME NEW s \in Session, NEW i \in 1..Len(queue'[s]), queue'[s][i].job = "resume"
                 PROVE  state'[queue'[s][i].task] # Initial
      BY DEF ResumesOK
    <2>1. PICK j \in 1..Len(queue[s]) : queue'[s][i] = queue[s][j]
      BY <1>2
    <2>2. queue[s][j].task \in Task
      BY JobTask DEF Inv1
    <2> QED BY <1>3, <1>4, <2>1, <2>2 DEF ResumesOK, SameRun
  <1>6. ASSUME NEW u \in Task
        PROVE  RunOK(u)' /\ UntouchedOK(u)' /\ WaitingOK(u)'
    <2>1. CASE u = t
      BY <1>1, <1>3, <1>4, <2>1 DEF RunOK, UntouchedOK, WaitingOK
    <2>2. CASE u # t
      <3>1. RunOK(u)' /\ UntouchedOK(u)'
        BY <1>3, <2>2, RunFrame
      <3>2. HasJob(u) => HasJob(u)'
        BY <1>1, <2>2, TailJobs
      <3>3. pc'[u] = pc[u] /\ state'[u] = state[u]
        BY <1>3, <2>2 DEF SameRun
      <3> QED BY <3>1, <3>2, <3>3 DEF WaitingOK
    <2> QED BY <2>1, <2>2
  <1> QED BY <1>1, <1>5, <1>6

-----------------------------------------------------------------------------
(* Every step preserves Inv2                                                *)

\* What IInv says of a task with a run.
LEMMA RunFacts ==
  ASSUME IInv, NEW t \in Task, Running(t)
  PROVE  /\ up
         /\ state[t] \in TaskState \ {Initial, "INTERRUPTED"}
         /\ live[t] \in Live /\ live[t].aborted \in BOOLEAN
         /\ live[t].entry \in TaskState /\ request[t] \in Requests
         /\ StateOK(t) /\ PlaceOK(t) /\ GateOK(t) /\ BudgetOK(t) /\ VerifiedOK(t)
  <1>1. RunOK(t) /\ up
    BY DEF IInv, Inv2
  <1>2. state[t] \in TaskState /\ live[t] \in Live /\ live[t].entry \in TaskState /\ request[t] \in Requests
    BY RunningTypes DEF IInv
  <1>3. state[t] # "INTERRUPTED"
    BY <1>1 DEF RunOK, StateOK, Expected
  <1> QED BY <1>1, <1>2, <1>3 DEF RunOK, Live

\* What a task's variables are after its run has gone on to its next await.
LEMMA AwaitValues ==
  ASSUME Inv1, NEW t \in Task, NEW s, NEW p, NEW l, Await(t, s, p, l)
  PROVE  state'[t] = s /\ pc'[t] = p /\ live'[t] = l
  BY DEF Inv1, TypeOK, Await

\* Live entries that agree in everything but their count of model calls.
SameCounters(l, m) ==
  /\ m.entry = l.entry /\ m.edited = l.edited /\ m.aborted = l.aborted
  /\ m.toolSteps = l.toolSteps /\ m.repairAttempts = l.repairAttempts
  /\ m.reviewRounds = l.reviewRounds

\* The user's commands keep the second part of the invariant.
LEMMA CommandInv2 ==
  ASSUME IInv, NEW t \in Task, Command(t)
  PROVE  Inv2'
  <1> USE DEF IInv
  <1>1. ASSUME NEW r \in Requests, Submit(t, r)
        PROVE  Inv2'
    <2>1. /\ queue' = [queue EXCEPT ![SessionOf[t]] = Append(@, [task |-> t, job |-> "run"])]
          /\ up /\ up' = up /\ state[t] = "ABSENT" /\ state'[t] = Initial /\ pc' = pc
          /\ \A u \in Task \ {t} : SameRun(u)
          /\ unverified' = unverified
      BY <1>1 DEF Submit, Inv1, TypeOK, SameRun
    <2>2. /\ \A s \in Session : \A i \in 1..Len(queue'[s]) :
               \/ i \in 1..Len(queue[s]) /\ queue'[s][i] = queue[s][i]
               \/ s = SessionOf[t] /\ queue'[s][i] = [task |-> t, job |-> "run"]
      BY <2>1, AppendQueue DEF Inv1
    <2>3. pc[t] = "idle"
      BY <2>1 DEF Inv1, RunsOK
    <2>4. ResumesOK'
      <3> SUFFICES ASSUME NEW s \in Session, NEW i \in 1..Len(queue'[s]), queue'[s][i].job = "resume"
                   PROVE  state'[queue'[s][i].task] # Initial
        BY DEF ResumesOK
      <3>1. i \in 1..Len(queue[s]) /\ queue'[s][i] = queue[s][i]
        BY <2>2
      <3>2. queue[s][i].task \in Task /\ queue[s][i].task # t
        BY <2>1, <3>1, JobTask DEF Inv1, QueuesOK
      <3> QED BY <2>1, <3>1, <3>2 DEF Inv2, ResumesOK, SameRun
    <2>5. /\ HasJob(t)'
          /\ \A u \in Task : HasJob(u) => HasJob(u)'
      BY <2>1, AppendJobs
    <2>6. ASSUME NEW u \in Task
          PROVE  RunOK(u)' /\ UntouchedOK(u)' /\ WaitingOK(u)'
      <3>1. CASE u = t
        BY <2>1, <2>3, <2>5, <3>1 DEF RunOK, UntouchedOK, WaitingOK, Inv2
      <3>2. CASE u # t
        <4>1. RunOK(u)' /\ UntouchedOK(u)'
          BY <2>1, <3>2, RunFrame DEF Inv2
        <4>2. pc'[u] = pc[u] /\ state'[u] = state[u]
          BY <2>1, <3>2 DEF SameRun
        <4> QED BY <2>1, <2>5, <4>1, <4>2 DEF WaitingOK, Inv2
      <3> QED BY <3>1, <3>2
    <2> QED BY <2>1, <2>4, <2>6 DEF Inv2
  <1>2. CASE CancelIdle(t)
    <2>1. /\ state[t] \in TaskState \ Terminal /\ pc[t] = "idle" /\ up
          /\ UNCHANGED <<request, checkpoint, unverified, gate, up, queue, pc, loop, live>>
      BY <1>2 DEF CancelIdle, Inv1, TypeOK
    <2>2. PICK x \in Resting : state' = [state EXCEPT ![t] = x]
      <3>1. state' = [state EXCEPT ![t] = After(t, state[t], "cancel")]
        BY <1>2 DEF CancelIdle, Finish
      <3>2. After(t, state[t], "cancel") = IF state[t] = "INTERRUPTED" THEN "INTERRUPTED" ELSE "CANCELLED"
        BY <2>1 DEF After, Transition, TaskState, Initial, Working, Resting, Terminal
      <3> QED BY <3>1, <3>2 DEF Resting, Terminal
    <2>3. state'[t] = x /\ \A u \in Task \ {t} : SameRun(u)
      BY <2>1, <2>2 DEF Inv1, TypeOK, SameRun
    <2>4. x # Initial /\ x # "ABSENT"
      BY DEF Resting, Terminal, Initial
    <2>5. ResumesOK'
      BY <2>1, <2>3, <2>4, JobTask DEF Inv1, Inv2, ResumesOK, SameRun
    <2>6. ASSUME NEW u \in Task
          PROVE  RunOK(u)' /\ UntouchedOK(u)' /\ WaitingOK(u)'
      <3>1. CASE u = t
        BY <2>1, <2>3, <2>4, <3>1 DEF RunOK, UntouchedOK, WaitingOK
      <3>2. CASE u # t
        <4>1. RunOK(u)' /\ UntouchedOK(u)'
          BY <2>3, <3>2, RunFrame DEF Inv2
        <4>2. state'[u] = state[u] /\ HasJob(u)' = HasJob(u)
          BY <2>1, <2>3, <3>2 DEF SameRun, HasJob
        <4> QED BY <2>1, <4>1, <4>2 DEF WaitingOK, Inv2
      <3> QED BY <3>1, <3>2
    <2> QED BY <2>1, <2>5, <2>6 DEF Inv2
  <1>3. CASE CancelRunning(t)
    <2>1. Running(t)
      BY <1>3 DEF CancelRunning
    <2>2. /\ UNCHANGED <<request, checkpoint, unverified, gate, up>>
      BY <1>3 DEF CancelRunning
    <2>3. CASE pc[t] = "approval"
      <3>1. Finish(t, state[t], "cancel") /\ Leave(t)
        BY <1>3, <2>3 DEF CancelRunning
      <3>2. state[t] = "AWAIT_APPROVAL"
        BY <2>1, <2>3, RunFacts DEF StateOK, Expected, PlaceOK
      <3>3. state' = [state EXCEPT ![t] = "CANCELLED"]
        BY <3>1, <3>2 DEF Finish, After, Transition, Terminal
      <3> QED BY <2>1, <2>2, <3>1, <3>3, LeaveInv2 DEF Resting, Terminal
    <2>4. CASE pc[t] # "approval"
      <3>1. /\ live' = [live EXCEPT ![t].aborted = TRUE]
            /\ UNCHANGED <<state, queue, pc, loop>>
        BY <1>3, <2>4 DEF CancelRunning
      <3>2. RunOK(t)'
        <4>1. live'[t] = [live[t] EXCEPT !.aborted = TRUE] /\ live[t] \in Live
          BY <2>1, <3>1, RunFacts DEF Inv1, TypeOK
        <4>2. /\ live'[t].entry = live[t].entry /\ live'[t].edited = live[t].edited
              /\ live'[t].toolSteps = live[t].toolSteps
              /\ live'[t].repairAttempts = live[t].repairAttempts
              /\ live'[t].reviewRounds = live[t].reviewRounds
          BY <4>1 DEF Live
        <4>3. RunOK(t)
          BY DEF Inv2
        <4> QED BY <2>2, <2>4, <3>1, <4>2, <4>3
              DEF RunOK, StateOK, Expected, PlaceOK, GateOK, BudgetOK, VerifiedOK
      <3>3. \A u \in Task \ {t} : SameRun(u)
        BY <2>2, <3>1 DEF SameRun, Inv1, TypeOK
      <3>4. ASSUME NEW u \in Task
            PROVE  RunOK(u)' /\ UntouchedOK(u)' /\ WaitingOK(u)'
        <4>1. UntouchedOK(u)' /\ WaitingOK(u)'
          BY <2>2, <3>1 DEF Inv2, UntouchedOK, WaitingOK, HasJob
        <4> QED BY <3>2, <3>3, <4>1, RunFrame DEF Inv2
      <3>5. ResumesOK' /\ (~up' => \A u \in Task : ~Running(u)')
        BY <2>2, <3>1 DEF Inv2, ResumesOK
      <3> QED BY <3>4, <3>5 DEF Inv2
    <2> QED BY <2>3, <2>4
  <1>4. CASE Approve(t)
    <2>1. /\ Running(t) /\ state[t] = "AWAIT_APPROVAL" /\ pc[t] = "approval"
          /\ gate' = [gate EXCEPT ![t] = "approved"]
          /\ UNCHANGED <<request, checkpoint, unverified, up, loop>>
          /\ Await(t, After(t, state[t], "approved"), "checkpoint", live[t])
      BY <1>4 DEF Approve
    <2>2. After(t, state[t], "approved") = "EXECUTE"
      BY <2>1 DEF After, Transition, Terminal
    <2>3. gate'[t] = "approved" /\ \A u \in Task \ {t} : gate'[u] = gate[u]
      BY <2>1 DEF Inv1, TypeOK
    <2>4. state'[t] = "EXECUTE" /\ pc'[t] = "checkpoint" /\ live'[t] = live[t]
      BY <2>1, <2>2, AwaitValues
    <2>5. RunOK(t)'
      BY <2>1, <2>3, <2>4, RunFacts DEF RunOK, StateOK, Expected, PlaceOK, GateOK, Past,
         BudgetOK, VerifiedOK, Initial
    <2>6. "EXECUTE" \in TaskState \ {Initial}
      BY DEF TaskState, Initial, Working
    <2> QED BY <2>1, <2>2, <2>3, <2>5, <2>6, RunFacts, AwaitInv2
  <1>5. CASE Revise(t)
    <2> DEFINE l == [live[t] EXCEPT !.modelCalls = @ + 1]
    <2>1. /\ Running(t) /\ state[t] = "AWAIT_APPROVAL" /\ pc[t] = "approval"
          /\ UNCHANGED <<request, checkpoint, unverified, gate, up, loop>>
          /\ Await(t, After(t, state[t], "revise"), "plan", l)
      BY <1>5 DEF Revise, CallModel
    <2>2. After(t, state[t], "revise") = "PLAN"
      BY <2>1 DEF After, Transition, Terminal
    <2>3. state'[t] = "PLAN" /\ pc'[t] = "plan" /\ live'[t] = l
      BY <2>1, <2>2, AwaitValues
    <2>4. SameCounters(live[t], l)
      BY <2>1, RunFacts DEF SameCounters, Live
    <2>5. RunOK(t)'
      BY <2>1, <2>3, <2>4, RunFacts DEF SameCounters, RunOK, StateOK, Expected, PlaceOK, GateOK, Past,
         BudgetOK, VerifiedOK, Initial
    <2>6. "PLAN" \in TaskState \ {Initial}
      BY DEF TaskState, Initial, Working
    <2> QED BY <2>1, <2>2, <2>5, <2>6, RunFacts, AwaitInv2
  <1>6. CASE Reject(t)
    <2>1. /\ Running(t) /\ Leave(t) /\ Finish(t, "AWAIT_APPROVAL", "rejected")
          /\ UNCHANGED <<request, checkpoint, unverified, gate, up>>
      BY <1>6 DEF Reject
    <2>2. state' = [state EXCEPT ![t] = "CANCELLED"]
      BY <2>1 DEF Finish, After, Transition, Terminal
    <2> QED BY <2>1, <2>2, LeaveInv2 DEF Resting, Terminal
  <1>7. CASE Resume(t)
    <2>1. /\ queue' = [queue EXCEPT ![SessionOf[t]] = Append(@, [task |-> t, job |-> "resume"])]
          /\ state[t] = "INTERRUPTED"
          /\ UNCHANGED <<state, request, checkpoint, unverified, gate, up, pc, loop, live>>
      BY <1>7 DEF Resume, db
    <2>2. \A s \in Session : \A i \in 1..Len(queue'[s]) :
            \/ i \in 1..Len(queue[s]) /\ queue'[s][i] = queue[s][i]
            \/ s = SessionOf[t] /\ queue'[s][i] = [task |-> t, job |-> "resume"]
      BY <2>1, AppendQueue DEF Inv1
    <2>3. ResumesOK'
      <3> SUFFICES ASSUME NEW s \in Session, NEW i \in 1..Len(queue'[s]), queue'[s][i].job = "resume"
                   PROVE  state[queue'[s][i].task] # Initial
        BY <2>1 DEF ResumesOK
      <3> QED BY <2>1, <2>2 DEF Inv2, ResumesOK, Initial
    <2>4. ASSUME NEW u \in Task
          PROVE  RunOK(u)' /\ UntouchedOK(u)' /\ WaitingOK(u)'
      <3>1. RunOK(u)' /\ UntouchedOK(u)'
        BY <2>1, RunFrame DEF Inv2, SameRun
      <3>2. HasJob(u) => HasJob(u)'
        BY <2>1, AppendJobs
      <3> QED BY <2>1, <3>1, <3>2 DEF Inv2, WaitingOK
    <2> QED BY <2>1, <2>3, <2>4 DEF Inv2
  <1> QED BY <1>1, <1>2, <1>3, <1>4, <1>5, <1>6, <1>7 DEF Command

\* Counting a model call changes nothing else in the Live entry.
LEMMA CallValues ==
  ASSUME Inv1, NEW t \in Task, NEW s, NEW p, NEW l \in Live, CallModel(t, s, p, l)
  PROVE  state'[t] = s /\ pc'[t] = p /\ SameCounters(l, live'[t])
  BY AwaitValues DEF CallModel, SameCounters, Live

\* A run goes on to await a model call.
LEMMA CallInv2 ==
  ASSUME IInv, NEW t \in Task, NEW s \in TaskState \ {Initial}, NEW p, p # "idle", NEW l,
         CallModel(t, s, p, l), up, up' = up,
         \A u \in Task \ {t} : /\ gate'[u] = gate[u] /\ checkpoint'[u] = checkpoint[u]
                               /\ unverified'[u] = unverified[u] /\ loop'[u] = loop[u]
                               /\ request'[u] = request[u],
         RunOK(t)'
  PROVE  Inv2'
  BY AwaitInv2 DEF CallModel

\* A fresh run: what a task in UNDERSTAND looks like when its job is due.
LEMMA FreshFacts ==
  ASSUME IInv, NEW t \in Task, Due(t, "run"), state[t] = Initial
  PROVE  /\ up /\ pc[t] = "idle" /\ request[t] \in Requests /\ ~unverified[t]
         /\ request[t].mode \in Mode /\ request[t].intent \in Intent
         /\ request[t].complexity \in Complexity
         /\ Initial \in TaskState
  <1>1. request[t] \in Requests
    BY DEF IInv, Inv1, RunsOK, Initial
  <1> QED BY <1>1, RequestsAssumption DEF IInv, Inv2, UntouchedOK, Due, TaskState

\* A run that has just started has spent nothing.
LEMMA StartedFields ==
  ASSUME NEW s
  PROVE  /\ Started(s).entry = s /\ Started(s).edited = FALSE /\ Started(s).aborted = FALSE
         /\ Started(s).toolSteps = 0 /\ Started(s).repairAttempts = 0
         /\ Started(s).reviewRounds = 0
  BY DEF Started

\* The limits are natural numbers, so a run that starts is within them.
LEMMA NatBounds ==
  ASSUME NEW c \in Complexity
  PROVE  /\ 0 <= MaxToolSteps[c] /\ 0 <= MaxRepairAttempts /\ 0 <= MaxReviewRounds
         /\ MaxToolSteps[c] \in Nat /\ MaxRepairAttempts \in Nat /\ MaxReviewRounds \in Nat
  BY BudgetAssumption, MaxRepairAttemptsAssumption

\* The parts of RunOK(t)' that hold of any run that starts before it edits.
LEMMA NewRun ==
  ASSUME NEW t \in Task, NEW e \in TaskState, SameCounters(Started(e), live'[t]),
         request' = request, request[t].complexity \in Complexity,
         pc'[t] \in {"answer", "plan", "checkpoint", "validate"},
         pc'[t] = "answer" => ~unverified'[t]
  PROVE  /\ BudgetOK(t)' /\ VerifiedOK(t)'
         /\ live'[t].entry = e /\ ~live'[t].edited /\ ~live'[t].aborted
  <1>1. /\ live'[t].entry = e /\ live'[t].edited = FALSE /\ live'[t].aborted = FALSE
        /\ live'[t].toolSteps = 0 /\ live'[t].repairAttempts = 0 /\ live'[t].reviewRounds = 0
    BY StartedFields DEF SameCounters
  <1>2. BudgetOK(t)'
    BY <1>1, NatBounds DEF BudgetOK
  <1>3. VerifiedOK(t)'
    BY DEF VerifiedOK
  <1> QED BY <1>1, <1>2, <1>3

\* Jobs that start, or end before they start a run, keep it.
LEMMA StartInv2 ==
  ASSUME IInv, NEW t \in Task, Skip(t) \/ StartAsk(t) \/ StartBuild(t) \/ StartResume(t)
  PROVE  Inv2'
  <1> USE DEF IInv
  <1>1. CASE Skip(t)
    <2>1. state[t] \in Resting
      <3>1. state[t] \in TaskState
        BY <1>1, DueHead DEF Skip
      <3> QED BY <1>1, <3>1 DEF Skip, Due, Inv2, WaitingOK, TaskState, Initial, Working, Resting, Terminal
    <2>2. state' = [state EXCEPT ![t] = state[t]]
      BY <1>1 DEF Skip, db, Inv1, TypeOK
    <2> QED BY <1>1, <2>1, <2>2, DropInv2 DEF Skip, db
  <1>2. CASE StartAsk(t)
    <2>1. /\ Due(t, "run") /\ state[t] = Initial /\ request[t].mode = "ask"
          /\ CallModel(t, After(t, state[t], "context_sufficient"), "answer", Started(state[t]))
          /\ UNCHANGED <<request, checkpoint, unverified, gate, up, loop>>
      BY <1>2 DEF StartAsk
    <2>2. After(t, state[t], "context_sufficient") = "EXECUTE"
      BY <2>1 DEF After, Transition, Initial, Terminal
    <2>3. state'[t] = "EXECUTE" /\ pc'[t] = "answer" /\ SameCounters(Started(Initial), live'[t])
      BY <2>1, <2>2, FreshFacts, StartedType, CallValues
    <2>4. RunOK(t)'
      BY <2>1, <2>3, FreshFacts, StartedFields, NatBounds
         DEF SameCounters, RunOK, StateOK, Expected, PlaceOK, GateOK, Past, BudgetOK, VerifiedOK, Initial
    <2>5. "EXECUTE" \in TaskState \ {Initial}
      BY DEF TaskState, Initial, Working
    <2> QED BY <2>1, <2>2, <2>4, <2>5, FreshFacts, CallInv2
  <1>3. CASE StartBuild(t)
    <2> DEFINE planned == After(t, state[t], "context_sufficient")
               l       == Started(state[t])
               fix     == request[t].intent = "fix"
               trivial == SkipsPlan(request[t].complexity)
    <2>1. /\ Due(t, "run") /\ state[t] = Initial /\ request[t].mode = "build"
          /\ UNCHANGED <<request, checkpoint, unverified, up, loop>>
          /\ gate' = [gate EXCEPT ![t] = IF fix \/ trivial THEN "skipped" ELSE @]
          /\ \/ fix /\ Await(t, planned, "checkpoint", l)
             \/ ~fix /\ trivial /\ Await(t, After(t, planned, "plan_skipped"), "checkpoint", l)
             \/ ~fix /\ ~trivial /\ CallModel(t, planned, "plan", l)
      BY <1>3 DEF StartBuild
    <2>2. planned = "PLAN" /\ After(t, planned, "plan_skipped") = "EXECUTE"
      BY <2>1 DEF After, Transition, Initial, Terminal
    <2>3. /\ gate'[t] = IF fix \/ trivial THEN "skipped" ELSE gate[t]
          /\ \A u \in Task \ {t} : gate'[u] = gate[u]
      BY <2>1 DEF Inv1, TypeOK
    <2>4. l \in Live /\ l.entry = Initial
      BY <2>1, FreshFacts, StartedType
    <2>5. {"PLAN", "EXECUTE"} \subseteq TaskState \ {Initial}
      BY DEF TaskState, Initial, Working
    <2>6. CASE fix /\ Await(t, planned, "checkpoint", l)
      <3>1. state'[t] = "PLAN" /\ pc'[t] = "checkpoint" /\ SameCounters(Started(Initial), live'[t])
        BY <2>1, <2>2, <2>6, AwaitValues DEF SameCounters
      <3>2. RunOK(t)'
        <4>1. /\ BudgetOK(t)' /\ VerifiedOK(t)'
              /\ live'[t].entry = Initial /\ ~live'[t].edited /\ ~live'[t].aborted
          BY <2>1, <3>1, FreshFacts, NewRun
        <4>2. StateOK(t)' /\ PlaceOK(t)'
          BY <2>1, <2>6, <3>1, <4>1 DEF StateOK, Expected, PlaceOK, Initial
        <4>3. GateOK(t)'
          BY <2>1, <2>3, <2>6, <3>1, <4>1 DEF GateOK, Past
        <4> QED BY <3>1, <4>1, <4>2, <4>3 DEF RunOK, Initial
      <3> QED BY <2>1, <2>2, <2>3, <2>5, <2>6, <3>2, FreshFacts, AwaitInv2
    <2>7. CASE ~fix /\ trivial /\ Await(t, After(t, planned, "plan_skipped"), "checkpoint", l)
      <3>1. state'[t] = "EXECUTE" /\ pc'[t] = "checkpoint" /\ SameCounters(Started(Initial), live'[t])
        BY <2>1, <2>2, <2>7, AwaitValues DEF SameCounters
      <3>2. RunOK(t)'
        <4>1. /\ BudgetOK(t)' /\ VerifiedOK(t)'
              /\ live'[t].entry = Initial /\ ~live'[t].edited /\ ~live'[t].aborted
          BY <2>1, <3>1, FreshFacts, NewRun
        <4>2. StateOK(t)' /\ PlaceOK(t)'
          BY <2>1, <2>7, <3>1, <4>1 DEF StateOK, Expected, PlaceOK, Initial
        <4>3. GateOK(t)'
          BY <2>1, <2>3, <2>7, <3>1, <4>1 DEF GateOK, Past
        <4> QED BY <3>1, <4>1, <4>2, <4>3 DEF RunOK, Initial
      <3> QED BY <2>1, <2>2, <2>3, <2>5, <2>7, <3>2, FreshFacts, AwaitInv2
    <2>8. CASE ~fix /\ ~trivial /\ CallModel(t, planned, "plan", l)
      <3>1. state'[t] = "PLAN" /\ pc'[t] = "plan" /\ SameCounters(l, live'[t])
        BY <2>2, <2>4, <2>8, CallValues
      <3>2. RunOK(t)'
        <4>1. /\ BudgetOK(t)' /\ VerifiedOK(t)'
              /\ live'[t].entry = Initial /\ ~live'[t].edited /\ ~live'[t].aborted
          BY <2>1, <3>1, FreshFacts, NewRun
        <4>2. StateOK(t)' /\ PlaceOK(t)'
          BY <2>1, <2>8, <3>1, <4>1 DEF StateOK, Expected, PlaceOK, Initial
        <4>3. GateOK(t)'
          BY <3>1, <4>1 DEF GateOK, Past
        <4> QED BY <3>1, <4>1, <4>2, <4>3 DEF RunOK, Initial
      <3> QED BY <2>1, <2>2, <2>3, <2>5, <2>8, <3>2, FreshFacts, CallInv2
    <2> QED BY <2>1, <2>6, <2>7, <2>8
  <1>4. CASE StartResume(t)
    <2> DEFINE s == After(t, state[t], "resume")
               l == Started(state[t])
    <2>1. /\ Due(t, "resume") /\ Await(t, s, "validate", l)
          /\ UNCHANGED <<request, checkpoint, unverified, gate, up, loop>>
      BY <1>4 DEF StartResume
    <2>2. up /\ pc[t] = "idle" /\ state[t] \in TaskState
      BY <2>1, DueHead DEF Due
    <2>3. state[t] # Initial
      <3>1. queue[SessionOf[t]] \in Seq(Jobs) /\ SessionOf[t] \in Session /\ queue[SessionOf[t]] # <<>>
        BY <2>1, SessionAssumption DEF Inv1, TypeOK, Due
      <3>2. 1 \in 1..Len(queue[SessionOf[t]]) /\ queue[SessionOf[t]][1] = [task |-> t, job |-> "resume"]
        BY <2>1, <3>1, EmptySeq DEF Due
      <3> QED BY <3>1, <3>2 DEF Inv2, ResumesOK
    <2>4. state[t] \in Resting
      BY <2>2, <2>3 DEF Inv2, WaitingOK, TaskState, Initial, Working, Resting, Terminal
    <2>5. s = IF state[t] = "INTERRUPTED" THEN "VALIDATE" ELSE state[t]
      BY <2>4 DEF After, Transition, Resting, Terminal
    <2>6. s \in TaskState \ {Initial}
      BY <2>4, <2>5 DEF TaskState, Initial, Working, Resting, Terminal
    <2>7. state'[t] = s /\ pc'[t] = "validate" /\ live'[t] = l
      BY <2>1, AwaitValues
    <2>8. request[t] \in Requests /\ request[t].complexity \in Complexity
      <3>1. state[t] # "ABSENT"
        BY <2>4 DEF Resting, Terminal
      <3>2. request[t] \in Requests
        BY <3>1 DEF Inv1, RunsOK
      <3> QED BY <3>2, RequestsAssumption
    <2>9. RunOK(t)'
      <3>1. BudgetOK(t)' /\ VerifiedOK(t)' /\ live'[t].entry = state[t]
        BY <2>1, <2>2, <2>7, <2>8, NewRun DEF SameCounters
      <3>2. StateOK(t)'
        BY <2>3, <2>4, <2>5, <2>7, <3>1 DEF StateOK, Expected
      <3>3. PlaceOK(t)' /\ GateOK(t)'
        BY <2>3, <2>7, <3>1 DEF PlaceOK, GateOK
      <3> QED BY <2>6, <2>7, <3>1, <3>2, <3>3 DEF RunOK
    <2> QED BY <2>1, <2>2, <2>6, <2>9, AwaitInv2
  <1> QED BY <1>1, <1>2, <1>3, <1>4

\* The steps that end a run.
LEMMA EndInv2 ==
  ASSUME IInv, NEW t \in Task,
         \/ ModelFails(t) \/ RunThrows(t) \/ ModelReturnsLate(t) \/ Answered(t)
         \/ PlanUnusable(t) \/ ChecksReturnLate(t)
         \/ \E committed \in BOOLEAN : CommitReturns(t, committed)
  PROVE  Inv2'
  <1>1. CASE ModelFails(t) \/ RunThrows(t) \/ ModelReturnsLate(t) \/ PlanUnusable(t)
    <2>1. Running(t) /\ Settle(t, state[t], "failed")
      BY <1>1 DEF ModelFails, RunThrows, ModelReturnsLate, PlanUnusable, ModelCalling
    <2>2. UNCHANGED <<request, checkpoint, unverified, gate, up>>
      BY <1>1 DEF ModelFails, RunThrows, ModelReturnsLate, PlanUnusable
    <2> QED BY <2>1, <2>2, RunFacts, SettleInv2
  <1>2. CASE Answered(t)
    <2>1. Running(t) /\ pc[t] = "answer" /\ Settle(t, state[t], "answered")
      BY <1>2 DEF Answered
    <2>2. UNCHANGED <<request, checkpoint, unverified, gate, up>>
      BY <1>2 DEF Answered
    <2>3. state[t] = "EXECUTE"
      BY <2>1, RunFacts DEF StateOK, Expected, PlaceOK
    <2> QED BY <2>1, <2>2, <2>3, RunFacts, SettleInv2
  <1>3. CASE ChecksReturnLate(t)
    <2>1. Running(t) /\ live[t].aborted /\ Settle(t, state[t], "answered")
      BY <1>3 DEF ChecksReturnLate
    <2>2. UNCHANGED <<request, checkpoint, unverified, gate, up>>
      BY <1>3 DEF ChecksReturnLate
    <2> QED BY <2>1, <2>2, RunFacts, SettleInv2
  <1>4. ASSUME NEW committed \in BOOLEAN, CommitReturns(t, committed)
        PROVE  Inv2'
    <2>1. Running(t) /\ pc[t] = "commit" /\ Settle(t, state[t], "answered")
      BY <1>4 DEF CommitReturns
    <2>2. UNCHANGED <<request, unverified, gate, up>>
      BY <1>4 DEF CommitReturns
    <2>3. \A u \in Task \ {t} : checkpoint'[u] = checkpoint[u]
      BY <1>4 DEF CommitReturns, IInv, Inv1, TypeOK
    <2>4. state[t] \in {"CHECKPOINT"} \cup Resting
      BY <2>1, RunFacts DEF StateOK, Expected
    <2> QED BY <2>1, <2>2, <2>3, <2>4, RunFacts, SettleInv2
  <1> QED BY <1>1, <1>2, <1>3, <1>4

\* The plan is there: what the gate says of it.
LEMMA PlannedInv2 ==
  ASSUME IInv, NEW t \in Task, NEW threshold \in Threshold, Planned(t, threshold)
  PROVE  Inv2'
  <1> USE DEF IInv
  <1>1. /\ Running(t) /\ pc[t] = "plan" /\ ~live[t].aborted
        /\ UNCHANGED <<request, checkpoint, unverified, up, loop>>
        /\ \/ /\ Await(t, After(t, state[t], "plan_auto_approved"), "checkpoint", live[t])
              /\ gate' = [gate EXCEPT ![t] = "auto"]
           \/ /\ Await(t, After(t, state[t], "plan_ready"), "approval", live[t])
              /\ gate' = [gate EXCEPT ![t] = "shut"]
    BY DEF Planned
  <1>2. state[t] = "PLAN" /\ live[t].entry = Initial /\ request[t].mode # "ask"
        /\ request[t].intent # "fix" /\ ~live[t].edited
    BY <1>1, RunFacts DEF StateOK, Expected, PlaceOK, GateOK, Past
  <1>3. /\ After(t, state[t], "plan_auto_approved") = "EXECUTE"
        /\ After(t, state[t], "plan_ready") = "AWAIT_APPROVAL"
    BY <1>2 DEF After, Transition, Terminal
  <1>4. {"EXECUTE", "AWAIT_APPROVAL"} \subseteq TaskState \ {Initial}
    BY DEF TaskState, Initial, Working
  <1>5. BudgetOK(t)
    BY <1>1, RunFacts
  <1>6. CASE /\ Await(t, After(t, state[t], "plan_auto_approved"), "checkpoint", live[t])
             /\ gate' = [gate EXCEPT ![t] = "auto"]
    <2>1. state'[t] = "EXECUTE" /\ pc'[t] = "checkpoint" /\ live'[t] = live[t]
      BY <1>3, <1>6, AwaitValues
    <2>2. gate'[t] = "auto" /\ \A u \in Task \ {t} : gate'[u] = gate[u]
      BY <1>6 DEF Inv1, TypeOK
    <2>3. RunOK(t)'
      BY <1>1, <1>2, <1>5, <2>1, <2>2 DEF RunOK, StateOK, Expected, PlaceOK, GateOK, Past, BudgetOK,
         VerifiedOK, Initial
    <2> QED BY <1>1, <1>3, <1>4, <1>6, <2>2, <2>3, RunFacts, AwaitInv2
  <1>7. CASE /\ Await(t, After(t, state[t], "plan_ready"), "approval", live[t])
             /\ gate' = [gate EXCEPT ![t] = "shut"]
    <2>1. state'[t] = "AWAIT_APPROVAL" /\ pc'[t] = "approval" /\ live'[t] = live[t]
      BY <1>3, <1>7, AwaitValues
    <2>2. \A u \in Task \ {t} : gate'[u] = gate[u]
      BY <1>7 DEF Inv1, TypeOK
    <2>3. RunOK(t)'
      BY <1>1, <1>2, <1>5, <2>1 DEF RunOK, StateOK, Expected, PlaceOK, GateOK, Past, BudgetOK,
         VerifiedOK, Initial
    <2> QED BY <1>1, <1>3, <1>4, <1>7, <2>2, <2>3, RunFacts, AwaitInv2
  <1> QED BY <1>1, <1>6, <1>7

\* builderLoop() starts: the run has passed the gate and the checkpoint.
LEMMA BuildInv2 ==
  ASSUME IInv, NEW t \in Task, Running(t), NEW s \in TaskState \ {Initial}, NEW l \in Live,
         NEW kind \in {"execute", "repair", "review"}, Build(t, s, l, kind),
         UNCHANGED <<request, unverified, gate, up>>,
         \A u \in Task \ {t} : checkpoint'[u] = checkpoint[u],
         l.entry = live[t].entry, l.entry = Initial => checkpoint'[t] # "none",
         IF l.entry \in {Initial, "INTERRUPTED"}
         THEN s = (IF kind = "repair" THEN "REPAIR" ELSE "EXECUTE")
         ELSE s \in Resting \ {"INTERRUPTED"},
         pc[t] # "answer", pc[t] \in Past,
         l.toolSteps <= MaxToolSteps[request[t].complexity],
         l.repairAttempts <= MaxRepairAttempts, l.reviewRounds <= MaxReviewRounds,
         kind = "repair" => l.repairAttempts < MaxRepairAttempts
  PROVE  Inv2'
  <1> USE DEF IInv
  <1>1. CallModel(t, s, "model", l) /\ loop' = [loop EXCEPT ![t] = kind]
    BY DEF Build
  <1>2. state'[t] = s /\ pc'[t] = "model" /\ SameCounters(l, live'[t])
    BY <1>1, CallValues
  <1>3. loop'[t] = kind /\ \A u \in Task \ {t} : loop'[u] = loop[u]
    BY <1>1 DEF Inv1, TypeOK
  <1>4. PlaceOK(t) /\ GateOK(t)
    BY RunFacts
  <1>5. StateOK(t)'
    BY <1>2, <1>3 DEF SameCounters, StateOK, Expected
  <1>6. PlaceOK(t)'
    BY <1>2, <1>4 DEF SameCounters, PlaceOK
  <1>7. GateOK(t)'
    BY <1>2, <1>4 DEF SameCounters, GateOK, Past
  <1>8. BudgetOK(t)' /\ VerifiedOK(t)'
    BY <1>2, <1>3 DEF SameCounters, BudgetOK, VerifiedOK
  <1>9. RunOK(t)'
    BY <1>2, <1>5, <1>6, <1>7, <1>8 DEF RunOK
  <1> QED BY <1>1, <1>3, <1>9, RunFacts, CallInv2

\* takeCheckpoint() returning keeps it.
LEMMA CheckpointInv2 ==
  ASSUME IInv, NEW t \in Task, NEW row \in {"taken", "unavailable"}, CheckpointReturns(t, row)
  PROVE  Inv2'
  <1> USE DEF IInv
  <1>1. /\ Running(t) /\ pc[t] = "checkpoint"
        /\ checkpoint' = [checkpoint EXCEPT ![t] = row]
        /\ UNCHANGED <<request, unverified, gate, up>>
    BY DEF CheckpointReturns
  <1>2. checkpoint'[t] # "none" /\ \A u \in Task \ {t} : checkpoint'[u] = checkpoint[u]
    BY <1>1 DEF Inv1, TypeOK
  <1>3. /\ live[t].entry = Initial /\ request[t].mode # "ask"
        /\ state[t] = IF request[t].intent = "fix" THEN "PLAN" ELSE "EXECUTE"
        /\ GateOK(t) /\ BudgetOK(t)
    BY <1>1, RunFacts DEF StateOK, Expected, PlaceOK
  <1>4. CASE request[t].intent = "fix"
    <2> DEFINE s == After(t, After(t, state[t], "plan_skipped"), "edits_applied")
    <2>1. Await(t, s, "validate", live[t]) /\ loop' = loop
      BY <1>4 DEF CheckpointReturns
    <2>2. s = "VALIDATE"
      BY <1>3, <1>4 DEF After, Transition, Terminal
    <2>3. state'[t] = "VALIDATE" /\ pc'[t] = "validate" /\ live'[t] = live[t]
      BY <2>1, <2>2, AwaitValues
    <2>4. StateOK(t)' /\ PlaceOK(t)'
      BY <1>1, <1>3, <2>3 DEF StateOK, Expected, PlaceOK
    <2>5. GateOK(t)' /\ BudgetOK(t)' /\ VerifiedOK(t)'
      BY <1>1, <1>2, <1>3, <2>3 DEF GateOK, Past, BudgetOK, VerifiedOK
    <2>6. RunOK(t)'
      BY <2>3, <2>4, <2>5 DEF RunOK, Initial
    <2>7. "VALIDATE" \in TaskState \ {Initial}
      BY DEF TaskState, Initial, Working
    <2> QED BY <1>1, <1>2, <2>1, <2>2, <2>6, <2>7, RunFacts, AwaitInv2
  <1>5. CASE request[t].intent # "fix"
    <2>1. Build(t, state[t], live[t], "execute")
      BY <1>5 DEF CheckpointReturns
    <2>2. state[t] = "EXECUTE" /\ pc[t] \in Past /\ pc[t] # "answer"
      BY <1>1, <1>3, <1>5 DEF Past
    <2>3. /\ live[t].toolSteps <= MaxToolSteps[request[t].complexity]
          /\ live[t].repairAttempts <= MaxRepairAttempts /\ live[t].reviewRounds <= MaxReviewRounds
      BY <1>3 DEF BudgetOK
    <2> QED BY <1>1, <1>2, <1>3, <2>1, <2>2, <2>3, RunFacts, BuildInv2
  <1> QED BY <1>4, <1>5

\* builderLoop() returning keeps it: an attempt in REPAIR is counted.
LEMMA LoopInv2 ==
  ASSUME IInv, NEW t \in Task, LoopReturns(t)
  PROVE  Inv2'
  <1> USE DEF IInv
  <1> DEFINE repair == loop[t] = "repair"
             s == After(t, state[t], IF repair THEN "fix_applied" ELSE "edits_applied")
             l == [live[t] EXCEPT !.repairAttempts = IF repair THEN @ + 1 ELSE @]
  <1>1. /\ Running(t) /\ pc[t] = "model" /\ Await(t, s, "validate", l)
        /\ UNCHANGED <<request, checkpoint, unverified, gate, up, loop>>
    BY DEF LoopReturns
  <1>2. live[t] \in Live /\ StateOK(t) /\ PlaceOK(t) /\ GateOK(t) /\ BudgetOK(t)
        /\ state[t] \in TaskState \ {Initial}
    BY <1>1, RunFacts
  <1>3. IF live[t].entry \in {Initial, "INTERRUPTED"} THEN s = "VALIDATE"
        ELSE s \in Resting \ {"INTERRUPTED"}
    <2>1. CASE live[t].entry \in {Initial, "INTERRUPTED"}
      <3>1. state[t] = IF repair THEN "REPAIR" ELSE "EXECUTE"
        BY <1>1, <1>2, <2>1 DEF StateOK, Expected
      <3>2. s = "VALIDATE"
        BY <3>1 DEF After, Transition, Terminal
      <3> QED BY <2>1, <3>2
    <2>2. CASE live[t].entry \notin {Initial, "INTERRUPTED"}
      <3>1. state[t] \in Resting \ {"INTERRUPTED"}
        BY <1>2, <2>2 DEF StateOK
      <3>2. s = state[t]
        BY <3>1, RestStays DEF TaskEvent
      <3> QED BY <2>2, <3>1, <3>2
    <2> QED BY <2>1, <2>2
  <1>4. s \in TaskState \ {Initial}
    BY <1>3 DEF TaskState, Initial, Working, Resting, Terminal
  <1>5. state'[t] = s /\ pc'[t] = "validate" /\ live'[t] = l
    BY <1>1, AwaitValues
  <1>6. /\ l.entry = live[t].entry /\ l.edited = live[t].edited
        /\ l.toolSteps = live[t].toolSteps /\ l.reviewRounds = live[t].reviewRounds
        /\ l.repairAttempts = IF repair THEN live[t].repairAttempts + 1 ELSE live[t].repairAttempts
        /\ live[t].repairAttempts \in Nat
    BY <1>2 DEF Live
  <1>7. StateOK(t)'
    BY <1>3, <1>5, <1>6 DEF StateOK, Expected
  <1>8. PlaceOK(t)' /\ GateOK(t)' /\ VerifiedOK(t)'
    BY <1>1, <1>2, <1>5, <1>6 DEF PlaceOK, GateOK, Past, VerifiedOK
  <1>9. BudgetOK(t)'
    BY <1>1, <1>2, <1>5, <1>6, MaxRepairAttemptsAssumption DEF BudgetOK
  <1>10. RunOK(t)'
    BY <1>4, <1>5, <1>7, <1>8, <1>9 DEF RunOK
  <1> QED BY <1>1, <1>4, <1>10, RunFacts, AwaitInv2

\* A run that goes on in its builderLoop: the same state, the same loop.
LEMMA StayInv2 ==
  ASSUME IInv, NEW t \in Task, pc[t] \in {"model", "tool"}, NEW p \in {"model", "tool"},
         NEW l, \/ Await(t, state[t], p, l)
                \/ l \in Live /\ CallModel(t, state[t], p, l),
         UNCHANGED <<request, checkpoint, gate, up, loop>>,
         \A u \in Task \ {t} : unverified'[u] = unverified[u],
         l.entry = live[t].entry, l.repairAttempts = live[t].repairAttempts,
         l.reviewRounds = live[t].reviewRounds,
         l.toolSteps <= MaxToolSteps[request[t].complexity]
  PROVE  Inv2'
  <1> USE DEF IInv
  <1>1. Running(t)
    OBVIOUS
  <1>2. state[t] \in TaskState \ {Initial} /\ StateOK(t) /\ PlaceOK(t) /\ GateOK(t) /\ BudgetOK(t)
    BY <1>1, RunFacts
  <1>3. /\ state'[t] = state[t] /\ pc'[t] = p /\ live'[t].entry = l.entry
        /\ live'[t].toolSteps = l.toolSteps /\ live'[t].repairAttempts = l.repairAttempts
        /\ live'[t].reviewRounds = l.reviewRounds
    BY AwaitValues, CallValues DEF SameCounters
  <1>4. StateOK(t)' /\ PlaceOK(t)'
    BY <1>2, <1>3 DEF StateOK, Expected, PlaceOK
  <1>5. GateOK(t)' /\ VerifiedOK(t)'
    BY <1>2, <1>3 DEF GateOK, Past, VerifiedOK
  <1>6. BudgetOK(t)'
    BY <1>2, <1>3 DEF BudgetOK
  <1>7. RunOK(t)'
    BY <1>2, <1>3, <1>4, <1>5, <1>6 DEF RunOK
  <1> QED BY <1>1, <1>2, <1>7, RunFacts, AwaitInv2, CallInv2

\* Turns that call tools and tools that return keep it.
LEMMA ToolsInv2 ==
  ASSUME IInv, NEW t \in Task,
         \/ \E n \in 0..MaxCalls : TurnCallsTools(t, n)
         \/ \E edits \in BOOLEAN : ToolReturns(t, edits)
  PROVE  Inv2'
  <1> USE DEF IInv
  <1>1. Running(t) /\ pc[t] \in {"model", "tool"}
    BY DEF TurnCallsTools, ToolReturns
  <1>2. /\ live[t] \in Live /\ BudgetOK(t) /\ request[t].complexity \in Complexity
        /\ state[t] \in TaskState \ {"INTERRUPTED"}
    BY <1>1, RunFacts, RequestsAssumption
  <1>3. /\ live[t].toolSteps \in Nat /\ MaxToolSteps[request[t].complexity] \in Nat
        /\ live[t].toolSteps <= MaxToolSteps[request[t].complexity]
    BY <1>2, NatBounds DEF Live, BudgetOK
  <1>4. ASSUME NEW n \in 0..MaxCalls, TurnCallsTools(t, n)
        PROVE  Inv2'
    <2> DEFINE l == [live[t] EXCEPT !.toolSteps = @ + 1]
    <2>1. UNCHANGED <<request, checkpoint, unverified, gate, up>>
      BY <1>4 DEF TurnCallsTools
    <2>2. CASE StepsLeft(t) /\ Await(t, state[t], "tool", l) /\ UNCHANGED loop
      <3>1. /\ l.entry = live[t].entry /\ l.repairAttempts = live[t].repairAttempts
            /\ l.reviewRounds = live[t].reviewRounds /\ l.toolSteps = live[t].toolSteps + 1
        BY <1>2 DEF Live
      <3>2. l.toolSteps <= MaxToolSteps[request[t].complexity]
        BY <1>3, <2>2, <3>1 DEF StepsLeft
      <3> QED BY <1>1, <2>1, <2>2, <3>1, <3>2, StayInv2
    <2>3. CASE Settle(t, state[t], "failed")
      BY <1>1, <1>2, <2>1, <2>3, SettleInv2
    <2> QED BY <1>4, <2>2, <2>3 DEF TurnCallsTools
  <1>5. ASSUME NEW edits \in BOOLEAN, ToolReturns(t, edits)
        PROVE  Inv2'
    <2> DEFINE l == [live[t] EXCEPT !.edited = @ \/ edits]
               m == [l EXCEPT !.toolSteps = @ + 1]
    <2>1. /\ UNCHANGED <<request, checkpoint, gate, up>>
          /\ unverified' = [unverified EXCEPT ![t] = @ \/ edits]
      BY <1>5 DEF ToolReturns
    <2>2. \A u \in Task \ {t} : unverified'[u] = unverified[u]
      BY <2>1 DEF Inv1, TypeOK
    <2>3. /\ l \in Live /\ l.entry = live[t].entry /\ l.toolSteps = live[t].toolSteps
          /\ l.repairAttempts = live[t].repairAttempts /\ l.reviewRounds = live[t].reviewRounds
      <3>1. l \in Live
        BY <1>1, <1>2, RunFacts, LiveGrows
      <3> QED BY <1>2, <3>1 DEF Live
    <2>4. CASE StepsLeft(t) /\ Await(t, state[t], "tool", m) /\ UNCHANGED loop
      <3>1. /\ m.entry = live[t].entry /\ m.repairAttempts = live[t].repairAttempts
            /\ m.reviewRounds = live[t].reviewRounds /\ m.toolSteps = live[t].toolSteps + 1
        BY <2>3 DEF Live
      <3>2. m.toolSteps <= MaxToolSteps[request[t].complexity]
        BY <1>3, <2>4, <3>1 DEF StepsLeft
      <3> QED BY <1>1, <2>1, <2>2, <2>4, <3>1, <3>2, StayInv2
    <2>5. CASE CallModel(t, state[t], "model", l) /\ UNCHANGED loop
      BY <1>1, <1>3, <2>1, <2>2, <2>3, <2>5, StayInv2
    <2>6. CASE Settle(t, state[t], "failed")
      BY <1>1, <1>2, <2>1, <2>2, <2>6, SettleInv2
    <2> QED BY <1>5, <2>4, <2>5, <2>6 DEF ToolReturns
  <1> QED BY <1>4, <1>5

\* The end of a run's validation and review: what it edited is verified.
LEMMA ConcludeInv2 ==
  ASSUME IInv, NEW t \in Task, pc[t] \in {"validate", "review"}, NEW s \in TaskState, Conclude(t, s),
         IF live[t].entry \in {Initial, "INTERRUPTED"} THEN s = "REVIEW"
         ELSE s \in Resting \ {"INTERRUPTED"},
         UNCHANGED <<request, checkpoint, gate, up>>, ~unverified'[t],
         \A u \in Task \ {t} : unverified'[u] = unverified[u]
  PROVE  Inv2'
  <1> USE DEF IInv
  <1> DEFINE passed == After(t, s, "review_passed")
  <1>1. Running(t)
    OBVIOUS
  <1>2. /\ live[t] \in Live /\ state[t] # Initial /\ PlaceOK(t) /\ GateOK(t) /\ BudgetOK(t)
    BY <1>1, RunFacts
  <1>3. IF live[t].entry \in {Initial, "INTERRUPTED"} THEN passed = "CHECKPOINT"
        ELSE passed \in Resting \ {"INTERRUPTED"}
    <2>1. CASE live[t].entry \in {Initial, "INTERRUPTED"}
      BY <2>1 DEF After, Transition, Terminal
    <2>2. CASE live[t].entry \notin {Initial, "INTERRUPTED"}
      BY <2>2, RestStays DEF TaskEvent
    <2> QED BY <2>1, <2>2
  <1>4. passed \in TaskState \ {Initial, "INTERRUPTED"}
    BY <1>3 DEF TaskState, Initial, Working, Resting, Terminal
  <1>5. CASE Await(t, passed, "commit", live[t]) /\ UNCHANGED <<loop, pending>>
    <2>1. state'[t] = passed /\ pc'[t] = "commit" /\ live'[t] = live[t]
      BY <1>5, AwaitValues
    <2>2. StateOK(t)'
      BY <1>3, <2>1 DEF StateOK, Expected
    <2>3. PlaceOK(t)' /\ GateOK(t)' /\ VerifiedOK(t)'
      BY <1>2, <2>1 DEF PlaceOK, GateOK, Past, VerifiedOK
    <2>4. BudgetOK(t)'
      BY <1>2, <2>1 DEF BudgetOK
    <2>5. RunOK(t)'
      BY <1>4, <2>1, <2>2, <2>3, <2>4 DEF RunOK
    <2> QED BY <1>1, <1>4, <1>5, <2>5, RunFacts, AwaitInv2
  <1>6. CASE Settle(t, passed, "answered")
    <2>1. passed \in {"CHECKPOINT"} \cup Resting
      BY <1>3
    <2> QED BY <1>1, <1>4, <1>6, <2>1, SettleInv2
  <1> QED BY <1>5, <1>6 DEF Conclude

\* The validators' report keeps it, whichever way it went.
LEMMA ChecksInv2 ==
  ASSUME IInv, NEW t \in Task, ChecksPass(t) \/ ChecksFail(t)
  PROVE  Inv2'
  <1> USE DEF IInv
  <1>1. Running(t) /\ pc[t] = "validate"
    BY DEF ChecksPass, ChecksFail
  <1>2. /\ live[t] \in Live /\ StateOK(t) /\ PlaceOK(t) /\ GateOK(t) /\ BudgetOK(t)
        /\ live[t].reviewRounds \in Nat /\ live[t].repairAttempts \in Nat
    BY <1>1, RunFacts DEF Live
  <1>3. CASE ChecksPass(t)
    <2> DEFINE s == After(t, state[t], "checks_passed")
    <2>1. /\ UNCHANGED <<request, checkpoint, gate, up>>
          /\ unverified' = [unverified EXCEPT ![t] = FALSE]
          /\ \/ /\ ReviewsFully(t) /\ live[t].reviewRounds < MaxReviewRounds
                /\ CallModel(t, s, "review", live[t]) /\ loop' = loop
             \/ Conclude(t, s)
      BY <1>3 DEF ChecksPass
    <2>2. ~unverified'[t] /\ \A u \in Task \ {t} : unverified'[u] = unverified[u]
      BY <2>1 DEF Inv1, TypeOK
    <2>3. IF live[t].entry \in {Initial, "INTERRUPTED"} THEN s = "REVIEW"
          ELSE s \in Resting \ {"INTERRUPTED"}
      <3>1. CASE live[t].entry \in {Initial, "INTERRUPTED"}
        <4>1. state[t] = "VALIDATE"
          BY <1>1, <1>2, <3>1 DEF StateOK, Expected
        <4>2. s = "REVIEW"
          BY <4>1 DEF After, Transition, Terminal
        <4> QED BY <3>1, <4>2
      <3>2. CASE live[t].entry \notin {Initial, "INTERRUPTED"}
        BY <1>2, <3>2, RestStays DEF StateOK, TaskEvent
      <3> QED BY <3>1, <3>2
    <2>4. s \in TaskState \ {Initial}
      BY <2>3 DEF TaskState, Initial, Working, Resting, Terminal
    <2>5. CASE /\ ReviewsFully(t) /\ live[t].reviewRounds < MaxReviewRounds
               /\ CallModel(t, s, "review", live[t]) /\ loop' = loop
      <3>1. live[t].entry = Initial
        BY <2>5 DEF ReviewsFully, Initial
      <3>2. state'[t] = s /\ pc'[t] = "review" /\ SameCounters(live[t], live'[t])
        BY <1>2, <2>5, CallValues
      <3>3. StateOK(t)' /\ PlaceOK(t)'
        BY <1>1, <1>2, <2>1, <2>3, <3>1, <3>2 DEF SameCounters, StateOK, Expected, PlaceOK
      <3>4. GateOK(t)' /\ VerifiedOK(t)'
        BY <1>1, <1>2, <2>1, <2>2, <3>2 DEF SameCounters, GateOK, Past, VerifiedOK
      <3>5. BudgetOK(t)'
        BY <1>2, <2>1, <2>5, <3>2 DEF SameCounters, BudgetOK
      <3>6. RunOK(t)'
        BY <2>4, <3>2, <3>3, <3>4, <3>5 DEF RunOK
      <3> QED BY <1>1, <2>1, <2>2, <2>4, <2>5, <3>6, RunFacts, CallInv2
    <2>6. CASE Conclude(t, s)
      BY <1>1, <2>1, <2>2, <2>3, <2>4, <2>6, ConcludeInv2
    <2> QED BY <2>1, <2>5, <2>6
  <1>4. CASE ChecksFail(t)
    <2> DEFINE failed == After(t, state[t], "checks_failed")
               s == After(t, failed, "diagnosis_ready")
    <2>1. UNCHANGED <<request, checkpoint, unverified, gate, up>>
      BY <1>4 DEF ChecksFail
    <2>2. CASE live[t].repairAttempts < MaxRepairAttempts /\ Build(t, s, live[t], "repair")
      <3>1. IF live[t].entry \in {Initial, "INTERRUPTED"} THEN s = "REPAIR"
            ELSE s \in Resting \ {"INTERRUPTED"}
        <4>1. CASE live[t].entry \in {Initial, "INTERRUPTED"}
          <5>1. state[t] = "VALIDATE"
            BY <1>1, <1>2, <4>1 DEF StateOK, Expected
          <5>2. failed = "DIAGNOSE"
            BY <5>1 DEF After, Transition, Terminal
          <5>3. ~(live[t].repairAttempts >= MaxRepairAttempts)
            BY <1>2, <2>2, MaxRepairAttemptsAssumption
          <5>4. s = "REPAIR"
            BY <5>2, <5>3 DEF After, Transition, Terminal
          <5> QED BY <4>1, <5>4
        <4>2. CASE live[t].entry \notin {Initial, "INTERRUPTED"}
          <5>1. failed = state[t] /\ state[t] \in Resting \ {"INTERRUPTED"}
            BY <1>2, <4>2, RestStays DEF StateOK, TaskEvent
          <5>2. s = state[t]
            BY <5>1, RestStays DEF TaskEvent
          <5> QED BY <4>2, <5>1, <5>2
        <4> QED BY <4>1, <4>2
      <3>2. s \in TaskState \ {Initial}
        BY <3>1 DEF TaskState, Initial, Working, Resting, Terminal
      <3>3. /\ pc[t] # "answer" /\ pc[t] \in Past
            /\ live[t].entry = Initial => checkpoint'[t] # "none"
        BY <1>1, <1>2, <2>1 DEF Past, GateOK
      <3>4. /\ live[t].toolSteps <= MaxToolSteps[request[t].complexity]
            /\ live[t].repairAttempts <= MaxRepairAttempts /\ live[t].reviewRounds <= MaxReviewRounds
        BY <1>2 DEF BudgetOK
      <3> QED BY <1>1, <1>2, <2>1, <2>2, <3>1, <3>2, <3>3, <3>4, BuildInv2
    <2>3. CASE Settle(t, failed, "failed")
      <3>1. failed \in TaskState \ {"INTERRUPTED"}
        <4>1. CASE live[t].entry \in {Initial, "INTERRUPTED"}
          <5>1. state[t] = "VALIDATE"
            BY <1>1, <1>2, <4>1 DEF StateOK, Expected
          <5> QED BY <5>1 DEF After, Transition, TaskState, Working, Terminal
        <4>2. CASE live[t].entry \notin {Initial, "INTERRUPTED"}
          BY <1>2, <4>2, RestStays DEF StateOK, TaskEvent, TaskState
        <4> QED BY <4>1, <4>2
      <3> QED BY <1>1, <2>1, <2>3, <3>1, SettleInv2
    <2> QED BY <1>4, <2>2, <2>3 DEF ChecksFail
  <1> QED BY <1>3, <1>4

\* The reviewer's verdict keeps it.
LEMMA ReviewInv2 ==
  ASSUME IInv, NEW t \in Task, ReviewPasses(t) \/ ReviewWantsChanges(t)
  PROVE  Inv2'
  <1> USE DEF IInv
  <1>1. /\ Running(t) /\ pc[t] = "review"
        /\ UNCHANGED <<request, checkpoint, unverified, gate, up>>
    BY DEF ReviewPasses, ReviewWantsChanges
  <1>2. /\ live[t] \in Live /\ live[t].entry = Initial /\ state[t] = "REVIEW" /\ ~unverified[t]
        /\ state[t] \in TaskState /\ GateOK(t) /\ BudgetOK(t)
        /\ live[t].reviewRounds \in Nat
    BY <1>1, RunFacts DEF StateOK, Expected, PlaceOK, VerifiedOK, Live
  <1>3. CASE ReviewPasses(t)
    BY <1>1, <1>2, <1>3, ConcludeInv2 DEF ReviewPasses
  <1>4. CASE ReviewWantsChanges(t)
    <2> DEFINE l == [live[t] EXCEPT !.reviewRounds = @ + 1]
               s == After(t, state[t], "review_requests_changes")
    <2>1. Build(t, s, l, "review")
      BY <1>4 DEF ReviewWantsChanges
    <2>2. s = "EXECUTE"
      BY <1>2 DEF After, Transition, Terminal
    <2>3. "EXECUTE" \in TaskState \ {Initial}
      BY DEF TaskState, Initial, Working
    <2>4. /\ l \in Live /\ l.entry = Initial /\ l.toolSteps = live[t].toolSteps
          /\ l.repairAttempts = live[t].repairAttempts
          /\ l.reviewRounds = live[t].reviewRounds + 1
      BY <1>2 DEF Live
    <2>5. /\ pc[t] # "answer" /\ pc[t] \in Past /\ checkpoint'[t] # "none"
      BY <1>1, <1>2 DEF Past, GateOK
    <2>6. /\ l.toolSteps <= MaxToolSteps[request[t].complexity]
          /\ l.repairAttempts <= MaxRepairAttempts /\ l.reviewRounds <= MaxReviewRounds
      BY <1>1, <1>2, <2>4, BudgetAssumption DEF BudgetOK
    <2> QED BY <1>1, <1>2, <2>1, <2>2, <2>3, <2>4, <2>5, <2>6, BuildInv2
  <1> QED BY <1>3, <1>4

\* Everything that happens without the user keeps it.
LEMMA ProgressInv2 ==
  ASSUME IInv, NEW t \in Task, Progress(t)
  PROVE  Inv2'
  <1>1. ASSUME NEW job \in {"run", "resume"}, StartThrows(t, job)
        PROVE  Inv2'
    <2> DEFINE s == IF job = "run" THEN state[t] ELSE After(t, state[t], "resume")
    <2>1. s \in TaskState
      BY <1>1, DueHead, AfterType DEF StartThrows, IInv
    <2>2. state' = [state EXCEPT ![t] = After(t, s, "failed")]
      BY <1>1 DEF StartThrows, Finish
    <2>3. After(t, s, "failed") \in Resting
      BY DEF After, Transition, Resting, Terminal
    <2> QED BY <1>1, <2>2, <2>3, DropInv2 DEF StartThrows
  <1> QED BY <1>1, StartInv2, EndInv2, PlannedInv2, CheckpointInv2, LoopInv2, ToolsInv2,
             ChecksInv2, ReviewInv2 DEF Progress

\* No task yet: the second part of the invariant holds.
LEMMA InitInv2 == Init => Inv2
  BY DEF Init, Inv2, ResumesOK, RunOK, UntouchedOK, WaitingOK

\* Every step keeps the invariant.
LEMMA NextIInv == IInv /\ [Next]_vars => IInv'
  <1> SUFFICES ASSUME IInv, [Next]_vars
               PROVE  Inv2'
    BY NextInv1 DEF IInv
  <1> USE DEF IInv
  <1>1. CASE Crash
    <2>1. /\ \A t \in Task : pc'[t] = "idle"
          /\ \A s \in Session : queue'[s] = <<>>
          /\ ~up' /\ state' = state /\ unverified' = unverified
      BY <1>1 DEF Crash, db
    <2>2. ResumesOK'
      BY <2>1 DEF ResumesOK
    <2> QED BY <2>1, <2>2 DEF Inv2, RunOK, UntouchedOK, WaitingOK
  <1>2. CASE Recover
    <2>1. /\ \A t \in Task : pc[t] = "idle"
          /\ UNCHANGED <<pc, queue, unverified>>
          /\ \A t \in Task : state'[t] = IF Left(t) THEN After(t, state[t], "process_exit") ELSE state[t]
      BY <1>2 DEF Recover, Inv2
    <2>2. ASSUME NEW t \in Task
          PROVE  state'[t] = IF state[t] \in Resting \cup {"ABSENT"} THEN state[t] ELSE "INTERRUPTED"
      <3>1. state[t] \in TaskState \cup {"ABSENT"}
        BY DEF Inv1, TypeOK
      <3> QED BY <2>1, <3>1 DEF Left, After, Transition, Resting, Terminal
    <2>3. ResumesOK'
      <3> SUFFICES ASSUME NEW s \in Session, NEW i \in 1..Len(queue[s]), queue[s][i].job = "resume"
                   PROVE  state'[queue[s][i].task] # Initial
        BY <2>1 DEF ResumesOK
      <3>1. queue[s][i].task \in Task
        BY JobTask DEF Inv1
      <3> QED BY <2>2, <3>1 DEF Initial, Resting, Terminal
    <2>4. ASSUME NEW t \in Task
          PROVE  RunOK(t)' /\ UntouchedOK(t)' /\ WaitingOK(t)'
      BY <2>1, <2>2 DEF Inv2, RunOK, UntouchedOK, WaitingOK, Initial, Resting, Terminal
    <2> QED BY <1>2, <2>3, <2>4 DEF Inv2, Recover
  <1>3. ASSUME NEW t \in Task, TopicExpires(t) \/ Stream(t)
        PROVE  Inv2'
    <2>1. UNCHANGED <<state, request, unverified, gate, checkpoint, up, queue, pc, loop, live>>
      BY <1>3 DEF TopicExpires, Stream, db
    <2>2. \A u \in Task : RunOK(u)' /\ UntouchedOK(u)'
      BY <2>1, RunFrame DEF Inv2, SameRun
    <2>3. ResumesOK' /\ \A u \in Task : WaitingOK(u)'
      BY <2>1 DEF Inv2, ResumesOK, WaitingOK, HasJob
    <2> QED BY <2>1, <2>2, <2>3 DEF Inv2
  <1>4. CASE UNCHANGED vars
    <2>1. UNCHANGED <<state, request, unverified, gate, checkpoint, up, queue, pc, loop, live>>
      BY <1>4 DEF vars, db, mem
    <2>2. \A u \in Task : RunOK(u)' /\ UntouchedOK(u)'
      BY <2>1, RunFrame DEF Inv2, SameRun
    <2>3. ResumesOK' /\ \A u \in Task : WaitingOK(u)'
      BY <2>1 DEF Inv2, ResumesOK, WaitingOK, HasJob
    <2> QED BY <2>1, <2>2, <2>3 DEF Inv2
  <1> QED BY <1>1, <1>2, <1>3, <1>4, CommandInv2, ProgressInv2 DEF Next

\* IInv is inductive.
THEOREM IInvHolds == Spec => []IInv
  <1>1. Init => IInv
    BY InitInv1, InitInv2 DEF IInv
  <1> QED BY <1>1, NextIInv, PTL DEF Spec

\* At every await the task is in the state in which the code awaits there.
THEOREM RunnerOwnsStateHolds == Spec => []RunnerOwnsState
  <1>1. IInv => RunnerOwnsState
    <2> SUFFICES ASSUME IInv, NEW t \in Task, Fresh(t) \/ Resumed(t)
                 PROVE  state[t] \in StatesAt(pc[t])
      BY DEF RunnerOwnsState
    <2>1. Running(t) /\ live[t].entry \in {Initial, "INTERRUPTED"}
      BY DEF Fresh, Resumed
    <2>2. state[t] = Expected(t) /\ pc[t] \in PC
      BY <2>1, RunFacts DEF StateOK, IInv, Inv1, TypeOK
    <2> QED BY <2>1, <2>2 DEF Expected, StatesAt, PC
  <1> QED BY <1>1, IInvHolds, PTL

\* No task is lost from its session's queue.
THEOREM NoTaskForgottenHolds == Spec => []NoTaskForgotten
  <1>1. IInv => NoTaskForgotten
    <2> SUFFICES ASSUME IInv, up, NEW t \in Task, ~Running(t),
                        state[t] \notin Resting \cup {"ABSENT"}
                 PROVE  \E i \in JobsOf(t) : queue[SessionOf[t]][i].job = "run" /\ state[t] = Initial
      BY DEF NoTaskForgotten
    <2>1. state[t] = Initial /\ HasJob(t)
      BY DEF IInv, Inv2, WaitingOK
    <2>2. PICK i \in 1..Len(queue[SessionOf[t]]) :
            queue[SessionOf[t]][i] = [task |-> t, job |-> "run"]
      BY <2>1 DEF HasJob
    <2>3. queue[SessionOf[t]] \in Seq(Jobs)
      BY SessionAssumption DEF IInv, Inv1, TypeOK
    <2>4. i \in JobsOf(t)
      BY <2>2, <2>3 DEF JobsOf
    <2> QED BY <2>1, <2>2, <2>4
  <1> QED BY <1>1, IInvHolds, PTL

\* The approval gate and the checkpoint come before the first edit of a run of
\* a submitted task; a resumed run has neither of its own.
THEOREM EditsAreGatedHolds == Spec => []EditsAreGated
  <1>1. IInv => EditsAreGated
    <2> SUFFICES ASSUME IInv, NEW t \in Task, Fresh(t), live[t].edited
                 PROVE  /\ request[t].mode = "build" /\ checkpoint[t] # "none"
                        /\ \/ gate[t] \in {"auto", "approved"}
                           \/ /\ gate[t] = "skipped"
                              /\ request[t].intent = "fix" \/ SkipsPlan(request[t].complexity)
      BY DEF EditsAreGated
    <2>1. live[t].entry = Initial /\ GateOK(t) /\ PlaceOK(t) /\ request[t].mode \in Mode
      BY RunFacts, RequestsAssumption DEF Fresh
    <2>2. pc[t] \in Past \ {"checkpoint"}
      BY <2>1 DEF GateOK
    <2> QED BY <2>1, <2>2 DEF GateOK, PlaceOK, Past, Mode
  <1> QED BY <1>1, IInvHolds, PTL

\* Tool steps, repairs and review rounds stay within their budgets.
THEOREM WithinBudgetsHolds == Spec => []WithinBudgets
  <1>1. IInv => WithinBudgets
    BY RunFacts, RequestsAssumption DEF WithinBudgets, BudgetOK
  <1> QED BY <1>1, IInvHolds, PTL

-----------------------------------------------------------------------------
(* What a step may do                                                       *)

RunKept(t) == state'[t] = state[t] /\ pc'[t] = pc[t] /\ live'[t] = live[t]

\* The helpers a step is built from touch only the task they are given.
LEMMA HelpersKeep ==
  ASSUME Inv1, NEW u \in Task, NEW t \in Task \ {u}
  PROVE  /\ \A s, e : Settle(u, s, e) => RunKept(t)
         /\ \A s, e : Finish(u, s, e) => state'[t] = state[t]
         /\ Leave(u) => pc'[t] = pc[t] /\ live'[t] = live[t]
         /\ \A s, p, l : Await(u, s, p, l) => RunKept(t)
         /\ \A s, p, l : CallModel(u, s, p, l) => RunKept(t)
         /\ \A s, l, k : Build(u, s, l, k) => RunKept(t)
         /\ \A s : Conclude(u, s) => RunKept(t)
  <1> USE DEF Inv1, TypeOK, RunKept
  <1>1. \A s, e : Finish(u, s, e) => state'[t] = state[t]
    BY DEF Finish
  <1>2. Leave(u) => pc'[t] = pc[t] /\ live'[t] = live[t]
    BY DEF Leave
  <1>3. \A s, e : Settle(u, s, e) => RunKept(t)
    BY <1>1, <1>2 DEF Settle
  <1>4. \A s, p, l : Await(u, s, p, l) => RunKept(t)
    BY DEF Await
  <1>5. \A s, p, l : CallModel(u, s, p, l) => RunKept(t)
    BY <1>4 DEF CallModel
  <1>6. \A s, l, k : Build(u, s, l, k) => RunKept(t)
    BY <1>5 DEF Build
  <1>7. \A s : Conclude(u, s) => RunKept(t)
    BY <1>3, <1>4 DEF Conclude
  <1> QED BY <1>1, <1>2, <1>3, <1>4, <1>5, <1>6, <1>7

\* A step of one task leaves the others alone.
LEMMA OthersKept ==
  ASSUME Inv1, NEW u \in Task, Command(u) \/ Progress(u), NEW t \in Task \ {u}
  PROVE  /\ RunKept(t) /\ changed'[t] = changed[t]
         /\ unverified'[t] = unverified[t] /\ checkpoint'[t] = checkpoint[t]
  <1>1. CASE Command(u)
    <2>1. UNCHANGED <<changed, unverified, checkpoint>>
      BY <1>1 DEF Command, Submit, CancelIdle, CancelRunning, Approve, Revise, Reject, Resume, db
    <2>2. ASSUME NEW r \in Requests, Submit(u, r)
          PROVE  RunKept(t)
      BY <2>2 DEF Submit, RunKept, Inv1, TypeOK
    <2>3. CASE CancelIdle(u)
      BY <2>3, HelpersKeep DEF CancelIdle, RunKept
    <2>4. CASE CancelRunning(u)
      <3>1. CASE pc[u] = "approval"
        BY <2>4, <3>1, HelpersKeep DEF CancelRunning, RunKept
      <3>2. CASE pc[u] # "approval"
        BY <2>4, <3>2 DEF CancelRunning, RunKept, Inv1, TypeOK
      <3> QED BY <3>1, <3>2
    <2>5. CASE Approve(u) \/ Revise(u)
      BY <2>5, HelpersKeep DEF Approve, Revise
    <2>6. CASE Reject(u)
      BY <2>6, HelpersKeep DEF Reject, RunKept
    <2>7. CASE Resume(u)
      BY <2>7 DEF Resume, RunKept, db
    <2> QED BY <1>1, <2>1, <2>2, <2>3, <2>4, <2>5, <2>6, <2>7 DEF Command
  <1>2. CASE Progress(u)
    <2>1. CASE Skip(u)
      BY <2>1 DEF Skip, db, RunKept
    <2>2. CASE StartAsk(u) \/ StartBuild(u) \/ StartResume(u)
      BY <2>2, HelpersKeep DEF StartAsk, StartBuild, StartResume
    <2>3. ASSUME NEW job \in {"run", "resume"}, StartThrows(u, job)
          PROVE  RunKept(t) /\ UNCHANGED <<changed, unverified, checkpoint>>
      BY <2>3, HelpersKeep DEF StartThrows, RunKept
    <2>4. CASE ModelFails(u) \/ RunThrows(u) \/ ModelReturnsLate(u) \/ Answered(u)
               \/ PlanUnusable(u) \/ ChecksReturnLate(u)
      BY <2>4, HelpersKeep DEF ModelFails, RunThrows, ModelReturnsLate, Answered, PlanUnusable,
         ChecksReturnLate
    <2>5. ASSUME NEW threshold \in Threshold, Planned(u, threshold)
          PROVE  RunKept(t) /\ UNCHANGED <<changed, unverified, checkpoint>>
      BY <2>5, HelpersKeep DEF Planned
    <2>6. ASSUME NEW row \in {"taken", "unavailable"}, CheckpointReturns(u, row)
          PROVE  /\ RunKept(t) /\ UNCHANGED <<changed, unverified>>
                 /\ checkpoint'[t] = checkpoint[t]
      BY <2>6, HelpersKeep DEF CheckpointReturns, Inv1, TypeOK
    <2>7. CASE LoopReturns(u)
      BY <2>7, HelpersKeep DEF LoopReturns
    <2>8. ASSUME NEW n \in 0..MaxCalls, TurnCallsTools(u, n)
          PROVE  RunKept(t) /\ UNCHANGED <<changed, unverified, checkpoint>>
      BY <2>8, HelpersKeep DEF TurnCallsTools
    <2>9. ASSUME NEW edits \in BOOLEAN, ToolReturns(u, edits)
          PROVE  /\ RunKept(t) /\ checkpoint' = checkpoint
                 /\ changed'[t] = changed[t] /\ unverified'[t] = unverified[t]
      <3>1. /\ changed' = [changed EXCEPT ![u] = @ \/ edits] /\ checkpoint' = checkpoint
            /\ unverified' = [unverified EXCEPT ![u] = @ \/ edits]
        BY <2>9 DEF ToolReturns
      <3>2. changed'[t] = changed[t] /\ unverified'[t] = unverified[t]
        BY <3>1 DEF Inv1, TypeOK
      <3>3. RunKept(t)
        BY <2>9, HelpersKeep DEF ToolReturns
      <3> QED BY <3>1, <3>2, <3>3
    <2>10. CASE ChecksPass(u)
      <3>1. RunKept(t) /\ UNCHANGED <<changed, checkpoint>>
        BY <2>10, HelpersKeep DEF ChecksPass
      <3>2. unverified'[t] = unverified[t]
        BY <2>10 DEF ChecksPass, Inv1, TypeOK
      <3> QED BY <3>1, <3>2
    <2>11. CASE ChecksFail(u)
      BY <2>11, HelpersKeep DEF ChecksFail
    <2>12. CASE ReviewPasses(u) \/ ReviewWantsChanges(u)
      BY <2>12, HelpersKeep DEF ReviewPasses, ReviewWantsChanges
    <2>13. ASSUME NEW committed \in BOOLEAN, CommitReturns(u, committed)
           PROVE  /\ RunKept(t) /\ UNCHANGED <<changed, unverified>>
                  /\ checkpoint'[t] = checkpoint[t]
      BY <2>13, HelpersKeep DEF CommitReturns, Inv1, TypeOK
    <2> QED BY <1>2, <2>1, <2>2, <2>3, <2>4, <2>5, <2>6, <2>7, <2>8, <2>9, <2>10, <2>11,
               <2>12, <2>13 DEF Progress
  <1> QED BY <1>1, <1>2

\* A cancelled run only ends, and ends cancelled.
LEMMA AbortedStep ==
  ASSUME IInv, NEW t \in Task, Running(t), live[t].aborted, Command(t) \/ Progress(t)
  PROVE  /\ changed'[t] = changed[t]
         /\ unverified'[t] => unverified[t]
         /\ ~Running(t)' => state'[t] = "CANCELLED" \/ state[t] \in Terminal
  <1> USE DEF IInv
  <1>1. pc[t] # "approval" /\ state[t] \in TaskState \ {"INTERRUPTED", Initial} /\ state[t] # "ABSENT"
    BY RunFacts DEF PlaceOK, TaskState, Initial, Working, Resting, Terminal
  <1>2. ASSUME NEW e \in {"failed", "answered"}, Settle(t, state[t], e)
        PROVE  state'[t] = "CANCELLED" \/ state[t] \in Terminal
    <2>1. live[t].aborted \in BOOLEAN
      BY RunFacts
    <2>2. \/ e = "failed"
          \/ e = "answered" /\ (state[t] \in {"EXECUTE", "CHECKPOINT"} \cup Resting \/ live[t].aborted)
      BY <1>2
    <2>3. \E x \in Resting \ {"INTERRUPTED"} :
            /\ state' = [state EXCEPT ![t] = x]
            /\ live[t].aborted => x = "CANCELLED" \/ (state[t] \in Terminal /\ x = state[t])
            /\ x = "COMPLETE" => state[t] = "COMPLETE"
                                 \/ (e = "answered" /\ state[t] \in {"EXECUTE", "CHECKPOINT"})
      BY <1>1, <1>2, <2>1, <2>2, SettleRests
    <2>4. PICK x : /\ state' = [state EXCEPT ![t] = x]
                   /\ x = "CANCELLED" \/ (state[t] \in Terminal /\ x = state[t])
      BY <2>3
    <2> QED BY <2>4 DEF Inv1, TypeOK
  <1>3. ASSUME NEW s, NEW p, p # "idle", NEW l, Await(t, s, p, l)
        PROVE  Running(t)'
    BY <1>3, AwaitValues
  <1>4. CASE Command(t)
    <2>1. UNCHANGED <<changed, unverified>>
      BY <1>4 DEF Command, Submit, CancelIdle, CancelRunning, Approve, Revise, Reject, Resume, db
    <2>2. pc' = pc
      BY <1>1, <1>4 DEF Command, Submit, CancelIdle, CancelRunning, Approve, Revise, Reject, Resume
    <2> QED BY <2>1, <2>2
  <1>5. CASE Progress(t)
    <2>1. CASE ModelFails(t) \/ RunThrows(t) \/ ModelReturnsLate(t)
      BY <1>2, <2>1 DEF ModelFails, RunThrows, ModelReturnsLate
    <2>2. CASE ChecksReturnLate(t)
      BY <1>2, <2>2 DEF ChecksReturnLate
    <2>3. ASSUME NEW row \in {"taken", "unavailable"}, CheckpointReturns(t, row)
          PROVE  UNCHANGED <<changed, unverified>> /\ Running(t)'
      BY <1>3, <2>3 DEF CheckpointReturns, Build, CallModel
    <2>4. ASSUME NEW edits \in BOOLEAN, ToolReturns(t, edits)
          PROVE  /\ changed'[t] = changed[t] /\ unverified'[t] = unverified[t]
                 /\ ~Running(t)' => state'[t] = "CANCELLED" \/ state[t] \in Terminal
      <3>1. ~edits
        <4>1. live[t] \in Live
          BY RunFacts
        <4>2. [live[t] EXCEPT !.edited = @ \/ edits].aborted = live[t].aborted
          BY <4>1 DEF Live
        <4> QED BY <2>4, <4>2 DEF ToolReturns
      <3>2. changed'[t] = changed[t] /\ unverified'[t] = unverified[t]
        <4>1. /\ changed' = [changed EXCEPT ![t] = @ \/ edits]
              /\ unverified' = [unverified EXCEPT ![t] = @ \/ edits]
          BY <2>4 DEF ToolReturns
        <4>2. changed[t] \in BOOLEAN /\ unverified[t] \in BOOLEAN
          BY DEF Inv1, TypeOK
        <4> QED BY <3>1, <4>1, <4>2 DEF Inv1, TypeOK
      <3>3. ~Running(t)' => state'[t] = "CANCELLED" \/ state[t] \in Terminal
        BY <1>2, <1>3, <2>4 DEF ToolReturns, CallModel
      <3> QED BY <3>2, <3>3
    <2>5. ASSUME NEW committed \in BOOLEAN, CommitReturns(t, committed)
          PROVE  /\ UNCHANGED <<changed, unverified>>
                 /\ state'[t] = "CANCELLED" \/ state[t] \in Terminal
      BY <1>2, <2>5 DEF CommitReturns
    <2>6. /\ ~Skip(t) /\ ~StartAsk(t) /\ ~StartBuild(t) /\ ~StartResume(t)
          /\ \A job \in {"run", "resume"} : ~StartThrows(t, job)
      BY DEF Skip, StartAsk, StartBuild, StartResume, StartThrows, Due
    <2>7. /\ ~Answered(t) /\ ~PlanUnusable(t) /\ ~LoopReturns(t) /\ ~ChecksPass(t) /\ ~ChecksFail(t)
          /\ ~ReviewPasses(t) /\ ~ReviewWantsChanges(t)
          /\ \A threshold \in Threshold : ~Planned(t, threshold)
          /\ \A n \in 0..MaxCalls : ~TurnCallsTools(t, n)
      BY DEF Answered, PlanUnusable, LoopReturns, ChecksPass, ChecksFail, ReviewPasses,
         ReviewWantsChanges, Planned, TurnCallsTools
    <2> QED BY <1>5, <2>1, <2>2, <2>3, <2>4, <2>5, <2>6, <2>7
            DEF Progress, ModelFails, RunThrows, ModelReturnsLate, ChecksReturnLate
  <1> QED BY <1>4, <1>5

\* A run told to cancel changes nothing more and ends cancelled.
THEOREM CancelWinsHolds == Spec => CancelWins
  <1> DEFINE A(t) == Running(t) /\ live[t].aborted =>
                       /\ changed'[t] = changed[t]
                       /\ unverified'[t] => unverified[t]
                       /\ ~Running(t)' /\ up' => state'[t] = "CANCELLED" \/ state[t] \in Terminal
  <1>1. ASSUME IInv, [Next]_vars, NEW t \in Task, Running(t), live[t].aborted
        PROVE  /\ changed'[t] = changed[t]
               /\ unverified'[t] => unverified[t]
               /\ ~Running(t)' /\ up' => state'[t] = "CANCELLED" \/ state[t] \in Terminal
    <2>1. ASSUME NEW u \in Task, Command(u) \/ Progress(u)
          PROVE  /\ changed'[t] = changed[t]
                 /\ unverified'[t] => unverified[t]
                 /\ ~Running(t)' => state'[t] = "CANCELLED" \/ state[t] \in Terminal
      <3>1. CASE u = t
        BY <1>1, <2>1, <3>1, AbortedStep
      <3>2. CASE u # t
        BY <1>1, <2>1, <3>2, OthersKept DEF IInv, RunKept
      <3> QED BY <3>1, <3>2
    <2>2. ASSUME NEW u \in Task, TopicExpires(u) \/ Stream(u)
          PROVE  UNCHANGED <<changed, unverified, pc>>
      BY <2>2 DEF TopicExpires, Stream, db
    <2>3. ASSUME Crash
          PROVE  UNCHANGED <<changed, unverified>> /\ ~up'
      BY <2>3 DEF Crash, db
    <2>4. ASSUME Recover
          PROVE  UNCHANGED <<changed, unverified, pc>>
      BY <2>4 DEF Recover
    <2>5. ASSUME UNCHANGED vars
          PROVE  UNCHANGED <<changed, unverified, pc>>
      BY <2>5 DEF vars, db, mem
    <2> QED BY <1>1, <2>1, <2>2, <2>3, <2>4, <2>5 DEF Next
  <1>2. IInv /\ [Next]_vars => [\A t \in Task : A(t)]_vars
    BY <1>1
  <1>3. [][\A t \in Task : A(t)]_vars <=> CancelWins
    BY DEF CancelWins
  <1> QED BY <1>2, <1>3, IInvHolds, PTL DEF Spec

-----------------------------------------------------------------------------
(* Completion                                                               *)

\* The table completes a task on two events only.
LEMMA CompleteFrom ==
  ASSUME NEW t, NEW s, NEW e, e \notin {"answered", "checkpoint_created"}, s # "COMPLETE"
  PROVE  After(t, s, e) # "COMPLETE"
  BY DEF After, Transition

\* A run that settles as failed does not complete its task.
LEMMA SettleFailedState ==
  ASSUME Inv1, NEW t \in Task, NEW s, s # "COMPLETE", Settle(t, s, "failed")
  PROVE  state'[t] # "COMPLETE"
  <1> DEFINE ev == IF live[t].aborted THEN "cancel" ELSE "failed"
             ef == IF s = "CHECKPOINT" /\ ev = "answered" THEN "checkpoint_created" ELSE ev
  <1>1. ef \in {"cancel", "failed"}
    OBVIOUS
  <1>2. state' = [state EXCEPT ![t] = After(t, s, ef)]
    BY DEF Settle, Finish
  <1>3. After(t, s, ef) # "COMPLETE"
    BY <1>1, CompleteFrom
  <1>4. state'[t] = After(t, s, ef)
    BY <1>2 DEF Inv1, TypeOK
  <1> QED BY <1>3, <1>4

\* Of the steps of a task, those that complete it find it verified.
LEMMA CompletingStep ==
  ASSUME IInv, NEW t \in Task, Command(t) \/ Progress(t),
         state[t] # "COMPLETE", state'[t] = "COMPLETE"
  PROVE  ~unverified'[t]
  <1> USE DEF IInv
  <1>1. ASSUME NEW s, s # "COMPLETE", NEW p, NEW l, Await(t, s, p, l) \/ CallModel(t, s, p, l)
        PROVE  FALSE
    BY <1>1, AwaitValues DEF CallModel
  <1>2. ASSUME NEW e, e \notin {"answered", "checkpoint_created"},
               Finish(t, state[t], e)
        PROVE  FALSE
    <2>1. state' = [state EXCEPT ![t] = After(t, state[t], e)]
      BY <1>2 DEF Finish
    <2> QED BY <1>2, <2>1, CompleteFrom DEF Inv1, TypeOK
  <1>3. ASSUME NEW s, s # "COMPLETE", Settle(t, s, "failed")
        PROVE  FALSE
    BY <1>3, SettleFailedState
  <1>4. CASE Command(t)
    <2>1. ASSUME NEW r \in Requests, Submit(t, r) PROVE FALSE
      BY <2>1 DEF Submit, Inv1, TypeOK, Initial
    <2>2. ASSUME CancelIdle(t) PROVE FALSE
      BY <1>2, <2>2 DEF CancelIdle
    <2>3. ASSUME CancelRunning(t) PROVE FALSE
      BY <1>2, <2>3 DEF CancelRunning
    <2>4. ASSUME Approve(t) PROVE FALSE
      BY <1>1, <2>4, CompleteFrom DEF Approve
    <2>5. ASSUME Revise(t) PROVE FALSE
      BY <1>1, <2>5, CompleteFrom DEF Revise
    <2>6. ASSUME Reject(t) PROVE FALSE
      BY <1>2, <2>6 DEF Reject
    <2>7. ASSUME Resume(t) PROVE FALSE
      BY <2>7 DEF Resume, db
    <2> QED BY <1>4, <2>1, <2>2, <2>3, <2>4, <2>5, <2>6, <2>7 DEF Command
  <1>5. CASE Progress(t)
    <2>1. ASSUME Skip(t) PROVE FALSE
      BY <2>1 DEF Skip, db
    <2>2. ASSUME StartAsk(t) PROVE FALSE
      BY <1>1, <2>2, CompleteFrom DEF StartAsk
    <2>3. ASSUME StartBuild(t) PROVE FALSE
      <3> DEFINE planned == After(t, state[t], "context_sufficient")
      <3>1. planned # "COMPLETE" /\ After(t, planned, "plan_skipped") # "COMPLETE"
        BY CompleteFrom
      <3> QED BY <1>1, <2>3, <3>1 DEF StartBuild
    <2>4. ASSUME StartResume(t) PROVE FALSE
      BY <1>1, <2>4, CompleteFrom DEF StartResume
    <2>5. ASSUME NEW job \in {"run", "resume"}, StartThrows(t, job) PROVE FALSE
      <3> DEFINE s == IF job = "run" THEN state[t] ELSE After(t, state[t], "resume")
      <3>1. state' = [state EXCEPT ![t] = After(t, s, "failed")]
        BY <2>5 DEF StartThrows, Finish
      <3>2. s # "COMPLETE"
        BY CompleteFrom
      <3>3. After(t, s, "failed") # "COMPLETE"
        BY <3>2, CompleteFrom
      <3>4. state'[t] = After(t, s, "failed")
        BY <3>1 DEF Inv1, TypeOK
      <3> QED BY <3>3, <3>4
    <2>6. ASSUME ModelFails(t) \/ RunThrows(t) \/ ModelReturnsLate(t) \/ PlanUnusable(t) PROVE FALSE
      BY <1>3, <2>6 DEF ModelFails, RunThrows, ModelReturnsLate, PlanUnusable
    <2>7. ASSUME Answered(t) PROVE ~unverified'[t]
      BY <2>7, RunFacts DEF Answered, VerifiedOK
    <2>8. ASSUME ChecksReturnLate(t) PROVE FALSE
      <3>1. Running(t) /\ live[t].aborted
        BY <2>8 DEF ChecksReturnLate
      <3>2. Settle(t, state[t], "answered")
        BY <2>8 DEF ChecksReturnLate
      <3>3. state' = [state EXCEPT ![t] = After(t, state[t], "cancel")]
        BY <3>1, <3>2 DEF Settle, Finish
      <3> QED BY <3>3, CompleteFrom DEF Inv1, TypeOK
    <2>9. ASSUME NEW threshold \in Threshold, Planned(t, threshold) PROVE FALSE
      BY <1>1, <2>9, CompleteFrom DEF Planned
    <2>10. ASSUME NEW row \in {"taken", "unavailable"}, CheckpointReturns(t, row) PROVE FALSE
      <3> DEFINE s == After(t, After(t, state[t], "plan_skipped"), "edits_applied")
      <3>1. s # "COMPLETE"
        BY CompleteFrom
      <3> QED BY <1>1, <2>10, <3>1 DEF CheckpointReturns, Build
    <2>11. ASSUME LoopReturns(t) PROVE FALSE
      BY <1>1, <2>11, CompleteFrom DEF LoopReturns
    <2>12. ASSUME NEW n \in 0..MaxCalls, TurnCallsTools(t, n) PROVE FALSE
      BY <1>1, <1>3, <2>12 DEF TurnCallsTools
    <2>13. ASSUME NEW edits \in BOOLEAN, ToolReturns(t, edits) PROVE FALSE
      BY <1>1, <1>3, <2>13 DEF ToolReturns
    <2>14. ASSUME ChecksPass(t) PROVE ~unverified'[t]
      BY <2>14 DEF ChecksPass, Inv1, TypeOK
    <2>15. ASSUME ChecksFail(t) PROVE FALSE
      <3> DEFINE failed == After(t, state[t], "checks_failed")
      <3>1. failed # "COMPLETE" /\ After(t, failed, "diagnosis_ready") # "COMPLETE"
        BY CompleteFrom
      <3> QED BY <1>1, <1>3, <2>15, <3>1 DEF ChecksFail, Build
    <2>16. ASSUME ReviewPasses(t) \/ ReviewWantsChanges(t) PROVE ~unverified'[t]
      BY <2>16, RunFacts DEF ReviewPasses, ReviewWantsChanges, VerifiedOK
    <2>17. ASSUME NEW committed \in BOOLEAN, CommitReturns(t, committed) PROVE ~unverified'[t]
      BY <2>17, RunFacts DEF CommitReturns, VerifiedOK
    <2> QED BY <1>5, <2>1, <2>2, <2>3, <2>4, <2>5, <2>6, <2>7, <2>8, <2>9, <2>10, <2>11,
               <2>12, <2>13, <2>14, <2>15, <2>16, <2>17 DEF Progress
  <1> QED BY <1>4, <1>5

\* The paths of a task are committed only when they are verified.
LEMMA CommittingStep ==
  ASSUME IInv, NEW t \in Task, Command(t) \/ Progress(t),
         checkpoint[t] # "committed", checkpoint'[t] = "committed"
  PROVE  ~unverified[t]
  <1>1. CASE Command(t)
    BY <1>1 DEF Command, Submit, CancelIdle, CancelRunning, Approve, Revise, Reject, Resume, db
  <1>2. CASE Progress(t)
    <2>1. ASSUME NEW row \in {"taken", "unavailable"}, CheckpointReturns(t, row) PROVE FALSE
      BY <2>1 DEF CheckpointReturns, IInv, Inv1, TypeOK
    <2>2. ASSUME NEW committed \in BOOLEAN, CommitReturns(t, committed) PROVE ~unverified[t]
      BY <2>2, RunFacts DEF CommitReturns, VerifiedOK
    <2>3. CASE Skip(t) \/ StartAsk(t) \/ StartBuild(t) \/ StartResume(t)
               \/ \E job \in {"run", "resume"} : StartThrows(t, job)
      BY <2>3 DEF Skip, StartAsk, StartBuild, StartResume, StartThrows, db
    <2>4. CASE ModelFails(t) \/ RunThrows(t) \/ ModelReturnsLate(t) \/ Answered(t)
               \/ PlanUnusable(t) \/ ChecksReturnLate(t)
      BY <2>4 DEF ModelFails, RunThrows, ModelReturnsLate, Answered, PlanUnusable, ChecksReturnLate
    <2>5. CASE \/ \E threshold \in Threshold : Planned(t, threshold)
               \/ LoopReturns(t)
               \/ \E n \in 0..MaxCalls : TurnCallsTools(t, n)
               \/ \E edits \in BOOLEAN : ToolReturns(t, edits)
      BY <2>5 DEF Planned, LoopReturns, TurnCallsTools, ToolReturns
    <2>6. CASE ChecksPass(t) \/ ChecksFail(t) \/ ReviewPasses(t) \/ ReviewWantsChanges(t)
      BY <2>6 DEF ChecksPass, ChecksFail, ReviewPasses, ReviewWantsChanges
    <2> QED BY <1>2, <2>1, <2>2, <2>3, <2>4, <2>5, <2>6 DEF Progress
  <1> QED BY <1>1, <1>2

\* A task completes, and its paths are committed, only when the checks passed
\* after its last edit, in whichever run that was made.
THEOREM CompletionIsVerifiedHolds == Spec => CompletionIsVerified
  <1> DEFINE A(t) == /\ state[t] # "COMPLETE" /\ state'[t] = "COMPLETE" => ~unverified'[t]
                     /\ checkpoint[t] # "committed" /\ checkpoint'[t] = "committed" => ~unverified[t]
  <1>1. ASSUME IInv, [Next]_vars, NEW t \in Task
        PROVE  A(t)
    <2>1. ASSUME NEW u \in Task, Command(u) \/ Progress(u)
          PROVE  A(t)
      <3>1. CASE u = t
        BY <1>1, <2>1, <3>1, CompletingStep, CommittingStep
      <3>2. CASE u # t
        BY <1>1, <2>1, <3>2, OthersKept DEF IInv, RunKept
      <3> QED BY <3>1, <3>2
    <2>2. ASSUME \/ \E u \in Task : TopicExpires(u) \/ Stream(u)
                 \/ Crash \/ UNCHANGED vars
          PROVE  UNCHANGED <<state, checkpoint>>
      BY <2>2 DEF TopicExpires, Stream, Crash, vars, db
    <2>3. ASSUME Recover
          PROVE  A(t)
      <3>1. checkpoint' = checkpoint /\ state'[t] = IF Left(t) THEN After(t, state[t], "process_exit") ELSE state[t]
        BY <2>3 DEF Recover
      <3> QED BY <3>1, CompleteFrom
    <2> QED BY <1>1, <2>1, <2>2, <2>3 DEF Next
  <1>2. IInv /\ [Next]_vars => [\A t \in Task : A(t)]_vars
    BY <1>1
  <1>3. [][\A t \in Task : A(t)]_vars <=> CompletionIsVerified
    BY DEF CompletionIsVerified
  <1> QED BY <1>2, <1>3, IInvHolds, PTL DEF Spec

-----------------------------------------------------------------------------
(* Streams                                                                  *)

\* How a step of a task can leave its stream: ended with the task; open, for
\* a run that awaits something or a task that waits for its turn; as it was.
Ends(t) ==
  /\ pc'[t] = "idle"
  /\ \E s \in TaskState \ (Terminal \cup {"INTERRUPTED"}), e \in {"cancel", "failed", "answered", "rejected"} :
       Finish(t, s, e)

GoesOn(t) == pc'[t] # "idle" /\ live'[t].entry = Initial /\ topic' = Published(t)

Begins(t) == pc'[t] = "idle" /\ state'[t] = Initial /\ topic' = Published(t)

Stays(t) == UNCHANGED <<state, topic, pc>> /\ live'[t].entry = live[t].entry

Outcome(t) == Ends(t) \/ GoesOn(t) \/ Begins(t) \/ Stays(t)

\* The jobs such a step leaves.
JobsAfter(t) ==
  \/ queue' = queue
  \/ queue[SessionOf[t]] # <<>> /\ queue' = [queue EXCEPT ![SessionOf[t]] = Tail(@)]
  \/ queue' = [queue EXCEPT ![SessionOf[t]] = Append(@, [task |-> t, job |-> "run"])]

\* A settled run ends its stream.
LEMMA SettleEnds ==
  ASSUME IInv, NEW t \in Task, Running(t),
         NEW s \in TaskState \ (Terminal \cup {"INTERRUPTED"}), NEW e \in {"failed", "answered"},
         Settle(t, s, e)
  PROVE  Outcome(t) /\ JobsAfter(t)
  <1> DEFINE ev == IF live[t].aborted THEN "cancel" ELSE e
  <1>1. Finish(t, s, ev) /\ Leave(t)
    BY DEF Settle
  <1>2. ev \in {"cancel", "failed", "answered", "rejected"}
    OBVIOUS
  <1> HIDE DEF ev
  <1>3. pc'[t] = "idle"
    BY <1>1 DEF Leave, IInv, Inv1, TypeOK
  <1>4. Ends(t)
    BY <1>1, <1>2, <1>3 DEF Ends
  <1>5. queue[SessionOf[t]] # <<>> /\ queue' = [queue EXCEPT ![SessionOf[t]] = Tail(@)]
    BY <1>1 DEF Leave, IInv, Inv1, OneRunPerSession
  <1> QED BY <1>4, <1>5 DEF Outcome, JobsAfter

\* A run that goes on keeps its stream open.
LEMMA AwaitGoesOn ==
  ASSUME Inv1, NEW t \in Task, NEW s, NEW p, p # "idle", NEW l, l.entry = Initial, Await(t, s, p, l)
  PROVE  Outcome(t) /\ JobsAfter(t)
  <1>1. pc'[t] = p /\ live'[t] = l
    BY AwaitValues
  <1> QED BY <1>1 DEF Await, Outcome, GoesOn, JobsAfter

LEMMA CallGoesOn ==
  ASSUME Inv1, NEW t \in Task, NEW s, NEW p, p # "idle", NEW l \in Live, l.entry = Initial,
         CallModel(t, s, p, l)
  PROVE  Outcome(t) /\ JobsAfter(t)
  <1>1. [l EXCEPT !.modelCalls = @ + 1].entry = Initial
    BY DEF Live
  <1> QED BY <1>1, AwaitGoesOn DEF CallModel

\* Where a run that was not resumed is at work.
LEMMA AtWorkState ==
  ASSUME IInv, NEW t \in Task, Running(t), live[t].entry = Initial
  PROVE  /\ state[t] = Expected(t) /\ state[t] \in TaskState \ Resting
         /\ live[t] \in Live
  <1>1. StateOK(t) /\ live[t] \in Live
    BY RunFacts
  <1> QED BY <1>1 DEF StateOK, Expected, TaskState, Working, Resting, Terminal, Initial

LEMMA CommandStreams ==
  ASSUME IInv, NeverResumed, NEW t \in Task, Command(t)
  PROVE  Outcome(t) /\ JobsAfter(t)
  <1>1. ASSUME NEW r \in Requests, Submit(t, r)
        PROVE  Outcome(t) /\ JobsAfter(t)
    <2>1. pc[t] = "idle" /\ pc' = pc
      BY <1>1 DEF Submit, IInv, Inv1, RunsOK
    <2> QED BY <1>1, <2>1 DEF Submit, Outcome, Begins, JobsAfter, IInv, Inv1, TypeOK
  <1>2. CASE CancelIdle(t)
    <2>1. Finish(t, state[t], "cancel") /\ pc'[t] = "idle" /\ queue' = queue
      BY <1>2 DEF CancelIdle
    <2>2. state[t] \in TaskState \ (Terminal \cup {"INTERRUPTED"})
      BY <1>2 DEF CancelIdle, NeverResumed, IInv, Inv1, TypeOK
    <2> QED BY <2>1, <2>2 DEF Ends, Outcome, JobsAfter
  <1>3. CASE CancelRunning(t)
    <2>1. CASE pc[t] = "approval"
      <3>1. Finish(t, state[t], "cancel") /\ Leave(t) /\ live[t].entry = Initial
        BY <1>3, <2>1 DEF CancelRunning, NeverResumed
      <3>2. state[t] \in TaskState \ (Terminal \cup {"INTERRUPTED"}) /\ pc'[t] = "idle"
        BY <2>1, <3>1, AtWorkState DEF Leave, IInv, Inv1, TypeOK, Resting
      <3>3. queue[SessionOf[t]] # <<>> /\ queue' = [queue EXCEPT ![SessionOf[t]] = Tail(@)]
        BY <2>1, <3>1 DEF Leave, IInv, Inv1, OneRunPerSession
      <3> QED BY <3>1, <3>2, <3>3 DEF Ends, Outcome, JobsAfter
    <2>2. CASE pc[t] # "approval"
      <3>1. UNCHANGED <<state, queue, pc, topic>> /\ live' = [live EXCEPT ![t].aborted = TRUE]
        BY <1>3, <2>2 DEF CancelRunning
      <3>2. live'[t].entry = live[t].entry
        BY <3>1 DEF IInv, Inv1, TypeOK, Live
      <3> QED BY <3>1, <3>2 DEF Stays, Outcome, JobsAfter
    <2> QED BY <2>1, <2>2
  <1>4. CASE Approve(t) \/ Revise(t)
    <2>1. live[t].entry = Initial /\ live[t] \in Live
      BY <1>4, AtWorkState DEF Approve, Revise, NeverResumed
    <2> QED BY <1>4, <2>1, AwaitGoesOn, CallGoesOn DEF Approve, Revise, IInv
  <1>5. CASE Reject(t)
    <2>1. Finish(t, state[t], "rejected") /\ Leave(t) /\ pc[t] = "approval" /\ live[t].entry = Initial
      BY <1>5 DEF Reject, NeverResumed
    <2>2. state[t] \in TaskState \ (Terminal \cup {"INTERRUPTED"}) /\ pc'[t] = "idle"
      BY <2>1, AtWorkState DEF Leave, IInv, Inv1, TypeOK, Resting
    <2>3. queue[SessionOf[t]] # <<>> /\ queue' = [queue EXCEPT ![SessionOf[t]] = Tail(@)]
      BY <2>1 DEF Leave, IInv, Inv1, OneRunPerSession
    <2> QED BY <2>1, <2>2, <2>3 DEF Ends, Outcome, JobsAfter
  <1>6. ASSUME Resume(t) PROVE FALSE
    BY <1>6 DEF Resume, NeverResumed
  <1> QED BY <1>1, <1>2, <1>3, <1>4, <1>5, <1>6 DEF Command

\* A validated task concludes: it is committed or settles.
LEMMA ConcludeStreams ==
  ASSUME IInv, NEW t \in Task, Running(t), live[t].entry = Initial, live[t] \in Live, Conclude(t, "REVIEW")
  PROVE  Outcome(t) /\ JobsAfter(t)
  <1>1. After(t, "REVIEW", "review_passed") = "CHECKPOINT"
    BY DEF After, Transition, Terminal
  <1>2. "CHECKPOINT" \in TaskState \ (Terminal \cup {"INTERRUPTED"})
    BY DEF TaskState, Working, Terminal
  <1>3. Await(t, "CHECKPOINT", "commit", live[t]) \/ Settle(t, "CHECKPOINT", "answered")
    BY <1>1 DEF Conclude
  <1> QED BY <1>2, <1>3, SettleEnds, AwaitGoesOn DEF IInv

LEMMA BuildGoesOn ==
  ASSUME Inv1, NEW t \in Task, NEW s, NEW l \in Live, l.entry = Initial, NEW kind, Build(t, s, l, kind)
  PROVE  Outcome(t) /\ JobsAfter(t)
  BY CallGoesOn DEF Build

\* The first step of a job.
LEMMA StartStreams ==
  ASSUME IInv, NeverResumed, NEW t \in Task,
         \/ Skip(t) \/ StartAsk(t) \/ StartBuild(t) \/ StartResume(t)
         \/ \E job \in {"run", "resume"} : StartThrows(t, job)
  PROVE  Outcome(t) /\ JobsAfter(t)
  <1>1. Initial \in TaskState \ (Terminal \cup {"INTERRUPTED"})
    BY DEF TaskState, Initial, Terminal
  <1>2. Started(Initial) \in Live /\ Started(Initial).entry = Initial
    BY <1>1, StartedType
  <1>3. ASSUME Due(t, "resume") PROVE FALSE
    <2>1. SessionOf[t] \in Session /\ queue[SessionOf[t]] \in Seq(Jobs) /\ queue[SessionOf[t]] # <<>>
      BY <1>3, SessionAssumption DEF Due, IInv, Inv1, TypeOK
    <2>2. 1 \in 1..Len(queue[SessionOf[t]]) /\ Head(queue[SessionOf[t]]) = queue[SessionOf[t]][1]
      BY <2>1
    <2>3. queue[SessionOf[t]][1].job = "run"
      BY <2>1, <2>2 DEF NeverResumed
    <2> QED BY <1>3, <2>2, <2>3 DEF Due
  <1>4. CASE Skip(t)
    BY <1>4 DEF Skip, Due, Outcome, Stays, JobsAfter, db
  <1>5. CASE StartAsk(t)
    <2>1. CallModel(t, After(t, state[t], "context_sufficient"), "answer", Started(Initial))
      BY <1>5 DEF StartAsk
    <2> QED BY <1>2, <2>1, CallGoesOn DEF IInv
  <1>6. CASE StartBuild(t)
    <2> DEFINE planned == After(t, state[t], "context_sufficient")
    <2>1. \/ Await(t, planned, "checkpoint", Started(Initial))
          \/ Await(t, After(t, planned, "plan_skipped"), "checkpoint", Started(Initial))
          \/ CallModel(t, planned, "plan", Started(Initial))
      BY <1>6 DEF StartBuild
    <2> QED BY <1>2, <2>1, CallGoesOn, AwaitGoesOn DEF IInv
  <1>7. ASSUME NEW job \in {"run", "resume"}, StartThrows(t, job)
        PROVE  Outcome(t) /\ JobsAfter(t)
    <2>1. job = "run"
      BY <1>3, <1>7 DEF StartThrows
    <2>2. Finish(t, Initial, "failed") /\ pc'[t] = "idle"
      BY <1>7, <2>1 DEF StartThrows, Due
    <2>3. queue[SessionOf[t]] # <<>> /\ queue' = [queue EXCEPT ![SessionOf[t]] = Tail(@)]
      BY <1>7 DEF StartThrows, Due
    <2> QED BY <1>1, <2>2, <2>3 DEF Ends, Outcome, JobsAfter
  <1> QED BY <1>3, <1>4, <1>5, <1>6, <1>7 DEF StartResume

\* The steps of a run.
LEMMA ProgressStreams ==
  ASSUME IInv, NeverResumed, NEW t \in Task, Progress(t)
  PROVE  Outcome(t) /\ JobsAfter(t)
  <1>1. ASSUME Running(t)
        PROVE  /\ state[t] = Expected(t) /\ live[t] \in Live /\ live[t].entry = Initial
               /\ state[t] \in TaskState \ (Terminal \cup {"INTERRUPTED"})
    BY <1>1, AtWorkState DEF NeverResumed, Resting
  <1>2. ASSUME NEW e \in {"failed", "answered"}, Running(t), Settle(t, state[t], e)
        PROVE  Outcome(t) /\ JobsAfter(t)
    BY <1>1, <1>2, SettleEnds
  <1>3. Inv1
    BY DEF IInv
  <1>4. CASE ModelFails(t) \/ RunThrows(t) \/ ModelReturnsLate(t) \/ PlanUnusable(t)
    <2>1. Running(t) /\ Settle(t, state[t], "failed")
      BY <1>4 DEF ModelFails, RunThrows, ModelReturnsLate, PlanUnusable, ModelCalling
    <2> QED BY <1>2, <2>1
  <1>5. CASE Answered(t) \/ ChecksReturnLate(t) \/ \E committed \in BOOLEAN : CommitReturns(t, committed)
    <2>1. Running(t) /\ Settle(t, state[t], "answered")
      BY <1>5 DEF Answered, ChecksReturnLate, CommitReturns
    <2> QED BY <1>2, <2>1
  <1>6. ASSUME NEW threshold \in Threshold, Planned(t, threshold)
        PROVE  Outcome(t) /\ JobsAfter(t)
    <2>1. Running(t) /\ \/ Await(t, After(t, state[t], "plan_auto_approved"), "checkpoint", live[t])
                        \/ Await(t, After(t, state[t], "plan_ready"), "approval", live[t])
      BY <1>6 DEF Planned
    <2> QED BY <1>1, <1>3, <2>1, AwaitGoesOn
  <1>7. ASSUME NEW row \in {"taken", "unavailable"}, CheckpointReturns(t, row)
        PROVE  Outcome(t) /\ JobsAfter(t)
    <2> DEFINE s == After(t, After(t, state[t], "plan_skipped"), "edits_applied")
    <2>1. Running(t) /\ (Await(t, s, "validate", live[t]) \/ Build(t, state[t], live[t], "execute"))
      BY <1>7 DEF CheckpointReturns
    <2> HIDE DEF s
    <2> QED BY <1>1, <1>3, <2>1, AwaitGoesOn, BuildGoesOn
  <1>8. CASE LoopReturns(t)
    <2> DEFINE s == After(t, state[t], IF loop[t] = "repair" THEN "fix_applied" ELSE "edits_applied")
               l == [live[t] EXCEPT !.repairAttempts = IF loop[t] = "repair" THEN @ + 1 ELSE @]
    <2>1. Running(t) /\ Await(t, s, "validate", l)
      BY <1>8 DEF LoopReturns
    <2>2. l.entry = Initial
      BY <1>1, <2>1 DEF Live
    <2> HIDE DEF s, l
    <2> QED BY <1>3, <2>1, <2>2, AwaitGoesOn
  <1>9. ASSUME NEW n \in 0..MaxCalls, TurnCallsTools(t, n)
        PROVE  Outcome(t) /\ JobsAfter(t)
    <2> DEFINE l == [live[t] EXCEPT !.toolSteps = @ + 1]
    <2>1. Running(t) /\ (Await(t, state[t], "tool", l) \/ Settle(t, state[t], "failed"))
      BY <1>9 DEF TurnCallsTools
    <2>2. l.entry = Initial
      BY <1>1, <2>1 DEF Live
    <2> HIDE DEF l
    <2> QED BY <1>2, <1>3, <2>1, <2>2, AwaitGoesOn
  <1>10. ASSUME NEW edits \in BOOLEAN, ToolReturns(t, edits)
         PROVE  Outcome(t) /\ JobsAfter(t)
    <2> DEFINE l == [live[t] EXCEPT !.edited = @ \/ edits]
               m == [l EXCEPT !.toolSteps = @ + 1]
    <2>1. Running(t)
      BY <1>10 DEF ToolReturns
    <2>2. Await(t, state[t], "tool", m) \/ CallModel(t, state[t], "model", l) \/ Settle(t, state[t], "failed")
      BY <1>10 DEF ToolReturns
    <2>3. l \in Live /\ l.entry = Initial /\ m.entry = Initial
      BY <1>1, <2>1 DEF Live
    <2> HIDE DEF l, m
    <2> QED BY <1>2, <1>3, <2>1, <2>2, <2>3, AwaitGoesOn, CallGoesOn
  <1>11. CASE ChecksPass(t)
    <2>1. Running(t) /\ pc[t] = "validate"
      BY <1>11 DEF ChecksPass
    <2>2. After(t, state[t], "checks_passed") = "REVIEW"
      BY <1>1, <2>1 DEF Expected, After, Transition, Terminal
    <2>3. CallModel(t, "REVIEW", "review", live[t]) \/ Conclude(t, "REVIEW")
      BY <1>11, <2>2 DEF ChecksPass
    <2> QED BY <1>1, <1>3, <2>1, <2>3, CallGoesOn, ConcludeStreams
  <1>12. CASE ChecksFail(t)
    <2>1. Running(t) /\ pc[t] = "validate"
      BY <1>12 DEF ChecksFail
    <2>2. After(t, state[t], "checks_failed") = "DIAGNOSE"
      BY <1>1, <2>1 DEF Expected, After, Transition, Terminal
    <2>3. "DIAGNOSE" \in TaskState \ (Terminal \cup {"INTERRUPTED"})
      BY DEF TaskState, Working, Terminal
    <2> DEFINE s == After(t, "DIAGNOSE", "diagnosis_ready")
    <2>4. Build(t, s, live[t], "repair") \/ Settle(t, "DIAGNOSE", "failed")
      BY <1>12, <2>2 DEF ChecksFail
    <2> HIDE DEF s
    <2> QED BY <1>1, <1>3, <2>1, <2>3, <2>4, BuildGoesOn, SettleEnds
  <1>13. CASE ReviewPasses(t)
    <2>1. Running(t) /\ pc[t] = "review" /\ Conclude(t, state[t])
      BY <1>13 DEF ReviewPasses
    <2>2. state[t] = "REVIEW"
      BY <1>1, <2>1 DEF Expected
    <2> QED BY <1>1, <2>1, <2>2, ConcludeStreams
  <1>14. CASE ReviewWantsChanges(t)
    <2> DEFINE l == [live[t] EXCEPT !.reviewRounds = @ + 1]
               s == After(t, state[t], "review_requests_changes")
    <2>1. Running(t) /\ Build(t, s, l, "review")
      BY <1>14 DEF ReviewWantsChanges
    <2>2. l \in Live /\ l.entry = Initial
      BY <1>1, <2>1 DEF Live
    <2> HIDE DEF l, s
    <2> QED BY <1>3, <2>1, <2>2, BuildGoesOn
  <1> QED BY <1>4, <1>5, <1>6, <1>7, <1>8, <1>9, <1>10, <1>11, <1>12, <1>13, <1>14, StartStreams DEF Progress

\* What a step says of the state of its task, and of its stream.
LEMMA OutcomeStream ==
  ASSUME IInv, IInv', NeverResumed, StreamsEnd, crashes = 0, NEW t \in Task, Outcome(t)
  PROVE  /\ state'[t] # "INTERRUPTED" /\ (Running(t)' => live'[t].entry = Initial)
         /\ state'[t] \in Resting => topic'[t] # "open"
  <1> USE DEF IInv, Inv1, TypeOK
  <1>1. CASE Ends(t)
    <2>1. PICK s \in TaskState \ (Terminal \cup {"INTERRUPTED"}), e \in {"cancel", "failed", "answered", "rejected"} :
            Finish(t, s, e)
      BY <1>1 DEF Ends
    <2> DEFINE ef == IF s = "CHECKPOINT" /\ e = "answered" THEN "checkpoint_created" ELSE e
    <2>2. ef \in {"cancel", "failed", "answered", "rejected", "checkpoint_created"}
      OBVIOUS
    <2>3. state'[t] = After(t, s, ef) /\ topic'[t] = "closed"
      BY <2>1 DEF Finish, Done
    <2> HIDE DEF ef
    <2>4. After(t, s, ef) # "INTERRUPTED"
      BY <2>2 DEF After, Transition, Terminal
    <2> QED BY <1>1, <2>3, <2>4 DEF Ends
  <1>2. CASE GoesOn(t)
    <2>1. Running(t)' /\ live'[t].entry = Initial
      BY <1>2 DEF GoesOn
    <2>2. (RunOK(t))'
      BY DEF Inv2
    <2>3. state'[t] = Expected(t)'
      BY <2>1, <2>2 DEF RunOK, StateOK
    <2>4. state'[t] \notin Resting
      BY <2>3 DEF Expected, Resting, Terminal
    <2> QED BY <2>1, <2>4 DEF Resting
  <1>3. CASE Begins(t)
    <2>1. state'[t] = Initial /\ ~Running(t)'
      BY <1>3 DEF Begins
    <2>2. Initial # "INTERRUPTED" /\ Initial \notin Resting
      BY DEF Initial, Resting, Terminal
    <2> QED BY <2>1, <2>2
  <1>4. CASE Stays(t)
    BY <1>4 DEF Stays, NeverResumed, StreamsEnd
  <1> QED BY <1>1, <1>2, <1>3, <1>4 DEF Outcome

\* Streams hold what they say through every step before the first exit.
LEMMA NextStreams == IInv /\ IInv' /\ StreamsInv /\ [Next]_vars => StreamsInv'
  <1> SUFFICES ASSUME IInv, IInv', StreamsInv, [Next]_vars, crashes' = 0
               PROVE  NeverResumed' /\ StreamsEnd'
    BY DEF StreamsInv
  <1>0. TypeOK /\ Inv1
    BY DEF IInv, Inv1
  <1>1. crashes = 0 /\ ~Crash
    <2>1. crashes \in Nat
      BY <1>0 DEF TypeOK
    <2>2. ASSUME Crash PROVE FALSE
      BY <2>1, <2>2 DEF Crash
    <2>3. ASSUME NEW t \in Task, Command(t) PROVE crashes' = crashes
      BY <2>3 DEF Command, Submit, CancelIdle, CancelRunning, Approve, Revise, Reject, Resume
    <2>4. ASSUME NEW t \in Task, Progress(t) PROVE crashes' = crashes
      BY <2>4 DEF Progress, Skip, StartAsk, StartBuild, StartResume, StartThrows, ModelFails, RunThrows,
           ModelReturnsLate, Answered, PlanUnusable, Planned, CheckpointReturns, LoopReturns, TurnCallsTools,
           ToolReturns, ChecksPass, ChecksFail, ChecksReturnLate, ReviewPasses, ReviewWantsChanges, CommitReturns
    <2>5. ASSUME NEW t \in Task, TopicExpires(t) \/ Stream(t) PROVE crashes' = crashes
      BY <2>5 DEF TopicExpires, Stream
    <2>6. ASSUME Recover \/ UNCHANGED vars PROVE crashes' = crashes
      BY <2>6 DEF Recover, vars
    <2>7. crashes' = crashes
      BY <2>2, <2>3, <2>4, <2>5, <2>6 DEF Next
    <2> QED BY <2>2, <2>7
  <1>2. NeverResumed /\ StreamsEnd /\ up
    BY <1>1 DEF StreamsInv, NeverResumed
  <1>3. ASSUME NEW t \in Task, Command(t) \/ Progress(t)
        PROVE  NeverResumed' /\ StreamsEnd'
    <2>1. Outcome(t) /\ JobsAfter(t)
      BY <1>2, <1>3, CommandStreams, ProgressStreams
    <2>2. /\ state'[t] # "INTERRUPTED" /\ (Running(t)' => live'[t].entry = Initial)
          /\ state'[t] \in Resting => topic'[t] # "open"
      BY <1>1, <1>2, <2>1, OutcomeStream
    <2>3. ASSUME NEW u \in Task \ {t}
          PROVE  state'[u] = state[u] /\ pc'[u] = pc[u] /\ live'[u] = live[u] /\ topic'[u] = topic[u]
      <3>1. RunKept(u)
        BY <1>0, <1>3, OthersKept
      <3>2. topic'[u] = topic[u]
        BY <1>0, <2>1 DEF Outcome, Ends, GoesOn, Begins, Stays, Finish, Published, Done, TypeOK
      <3> QED BY <3>1, <3>2 DEF RunKept
    <2>4. up'
      BY <1>2, <1>3 DEF Command, Submit, CancelIdle, CancelRunning, Approve, Revise, Reject, Resume,
           Progress, Skip, StartAsk, StartBuild, StartResume, StartThrows, ModelFails, RunThrows,
           ModelReturnsLate, Answered, PlanUnusable, Planned, CheckpointReturns, LoopReturns, TurnCallsTools,
           ToolReturns, ChecksPass, ChecksFail, ChecksReturnLate, ReviewPasses, ReviewWantsChanges, CommitReturns
    <2>5. \A s \in Session : \A i \in 1..Len(queue'[s]) : queue'[s][i].job = "run"
      <3>1. SessionOf[t] \in Session
        BY SessionAssumption
      <3>2. CASE queue' = queue
        BY <1>2, <3>2 DEF NeverResumed
      <3>3. CASE queue[SessionOf[t]] # <<>> /\ queue' = [queue EXCEPT ![SessionOf[t]] = Tail(@)]
        <4>1. \A r \in Session : \A i \in 1..Len(queue'[r]) :
                \E j \in 1..Len(queue[r]) : queue'[r][i] = queue[r][j]
          BY <1>0, <3>1, <3>3, TailQueue
        <4> QED BY <1>2, <4>1 DEF NeverResumed
      <3>4. CASE queue' = [queue EXCEPT ![SessionOf[t]] = Append(@, [task |-> t, job |-> "run"])]
        <4>1. \A r \in Session : \A i \in 1..Len(queue'[r]) :
                \/ i \in 1..Len(queue[r]) /\ queue'[r][i] = queue[r][i]
                \/ r = SessionOf[t] /\ queue'[r][i] = [task |-> t, job |-> "run"]
          BY <1>0, <3>4, AppendQueue
        <4> QED BY <1>2, <4>1 DEF NeverResumed
      <3> QED BY <2>1, <3>2, <3>3, <3>4 DEF JobsAfter
    <2>6. NeverResumed'
      BY <1>2, <2>2, <2>3, <2>4, <2>5 DEF NeverResumed
    <2>7. StreamsEnd'
      BY <1>1, <1>2, <2>2, <2>3 DEF StreamsEnd
    <2> QED BY <2>6, <2>7
  <1>4. ASSUME NEW t \in Task, TopicExpires(t) \/ Stream(t)
        PROVE  NeverResumed' /\ StreamsEnd'
    <2>1. /\ UNCHANGED <<state, up, queue, pc, live, crashes>>
          /\ \E x \in {"absent", "open", "closed"} :
               topic' = [topic EXCEPT ![t] = x] /\ (state[t] \in Resting => x # "open")
      BY <1>4 DEF TopicExpires, Stream, db
    <2>2. NeverResumed'
      BY <1>2, <2>1 DEF NeverResumed
    <2>3. StreamsEnd'
      BY <1>0, <1>1, <1>2, <2>1 DEF StreamsEnd, TypeOK
    <2> QED BY <2>2, <2>3
  <1>5. CASE UNCHANGED vars
    <2>1. UNCHANGED <<state, up, queue, pc, live, topic, crashes>>
      BY <1>5 DEF vars, db, mem
    <2> QED BY <1>2, <2>1 DEF NeverResumed, StreamsEnd
  <1> QED BY <1>1, <1>2, <1>3, <1>4, <1>5 DEF Next, Recover

\* Whatever ends a run, whoever cancels, decides or throws: as long as the
\* process has not exited, the stream of a task that rests has been ended
\* (finish() publishes done to the TaskEventHub).
THEOREM StreamsEndHolds == Spec => []StreamsEnd
  <1>1. Init => StreamsInv
    <2> SUFFICES ASSUME Init PROVE NeverResumed /\ StreamsEnd
      BY DEF StreamsInv
    <2>1. NeverResumed
      BY DEF Init, NeverResumed
    <2>2. StreamsEnd
      BY DEF Init, StreamsEnd
    <2> QED BY <2>1, <2>2
  <1>2. StreamsInv => StreamsEnd
    BY DEF StreamsInv, StreamsEnd
  <1>3. StreamsInv /\ IInv /\ IInv' /\ [Next]_vars => StreamsInv'
    BY NextStreams
  <1>4. Spec => []StreamsInv
    BY <1>1, <1>3, IInvHolds, PTL DEF Spec
  <1> QED BY <1>2, <1>4, PTL

-----------------------------------------------------------------------------
(* The steps of TaskLifecycle                                               *)

\* What the user sees of every task but t stays as it is.
Apart(t) ==
  \A u \in Task \ {t} : /\ PhaseOf(u)' = PhaseOf(u) /\ live'[u].aborted = live[u].aborted
                        /\ unverified'[u] = unverified[u]

\* Then only the phase of t moves.
LEMMA PhasesMove ==
  ASSUME NEW t \in Task, Apart(t), NEW to, PhaseOf(t)' = to
  PROVE  ([u \in Task |-> PhaseOf(u)])' = [[u \in Task |-> PhaseOf(u)] EXCEPT ![t] = to]
  BY DEF Apart

\* A step that changes nothing of this is not seen at all.
LEMMA NothingSeen ==
  ASSUME \A u \in Task : /\ PhaseOf(u)' = PhaseOf(u) /\ live'[u].aborted = live[u].aborted
                         /\ unverified'[u] = unverified[u]
  PROVE  UNCHANGED Lifecycle!vars
  BY DEF Lifecycle!vars

\* A step that changes it for t alone is a step of the lifecycle: a task is
\* submitted.
LEMMA SeenSubmit ==
  ASSUME NEW t \in Task, Apart(t), PhaseOf(t) = "absent", PhaseOf(t)' = "queued",
         live'[t].aborted = live[t].aborted, unverified'[t] = unverified[t]
  PROVE  Lifecycle!Next
  <1>1. Lifecycle!Submit(t)
    BY PhasesMove DEF Lifecycle!Submit, Lifecycle!Move, Apart
  <1> QED BY <1>1 DEF Lifecycle!Next

\* A task begins.
LEMMA SeenBegin ==
  ASSUME NEW t \in Task, Apart(t), PhaseOf(t) \in {"queued", "interrupted"}, PhaseOf(t)' = "working",
         live'[t].aborted = live[t].aborted, unverified'[t] = unverified[t],
         \A u \in Task \ {t} : SessionOf[u] = SessionOf[t] => PhaseOf(u) \notin {"working", "deciding"}
  PROVE  Lifecycle!Next
  <1>1. Lifecycle!Begin(t)
    BY PhasesMove DEF Lifecycle!Begin, Lifecycle!Move, Lifecycle!SessionFree, Lifecycle!Busy, Apart
  <1> QED BY <1>1 DEF Lifecycle!Next

\* It asks.
LEMMA SeenAsk ==
  ASSUME NEW t \in Task, Apart(t), PhaseOf(t) = "working", PhaseOf(t)' = "deciding", live[t].aborted = FALSE,
         live'[t].aborted = live[t].aborted, unverified'[t] = unverified[t]
  PROVE  Lifecycle!Next
  <1>1. Lifecycle!AskUser(t)
    BY PhasesMove DEF Lifecycle!AskUser, Lifecycle!Move, Apart
  <1> QED BY <1>1 DEF Lifecycle!Next

\* It is decided on.
LEMMA SeenDecide ==
  ASSUME NEW t \in Task, Apart(t), PhaseOf(t) = "deciding", PhaseOf(t)' = "working",
         live'[t].aborted = live[t].aborted, unverified'[t] = unverified[t]
  PROVE  Lifecycle!Next
  <1>1. Lifecycle!Decide(t)
    BY PhasesMove DEF Lifecycle!Decide, Lifecycle!Move, Apart
  <1> QED BY <1>1 DEF Lifecycle!Next

\* It is cancelled.
LEMMA SeenRequestCancel ==
  ASSUME NEW t \in Task, Apart(t), PhaseOf(t) = "working", PhaseOf(t)' = "working",
         live'[t].aborted = TRUE, unverified'[t] = unverified[t]
  PROVE  Lifecycle!Next
  <1>1. Lifecycle!RequestCancel(t)
    BY PhasesMove DEF Lifecycle!RequestCancel, Apart
  <1> QED BY <1>1 DEF Lifecycle!Next

\* It edits.
LEMMA SeenEdit ==
  ASSUME NEW t \in Task, Apart(t), PhaseOf(t) = "working", PhaseOf(t)' = "working", live[t].aborted = FALSE,
         live'[t].aborted = live[t].aborted, unverified'[t] = TRUE
  PROVE  Lifecycle!Next
  <1>1. Lifecycle!Edit(t)
    BY PhasesMove DEF Lifecycle!Edit, Apart
  <1> QED BY <1>1 DEF Lifecycle!Next

\* It is checked.
LEMMA SeenCheck ==
  ASSUME NEW t \in Task, Apart(t), PhaseOf(t) = "working", PhaseOf(t)' = "working", live[t].aborted = FALSE,
         live'[t].aborted = live[t].aborted, unverified'[t] = FALSE
  PROVE  Lifecycle!Next
  <1>1. Lifecycle!CheckPasses(t)
    BY PhasesMove DEF Lifecycle!CheckPasses, Apart
  <1> QED BY <1>1 DEF Lifecycle!Next

\* It completes.
LEMMA SeenComplete ==
  ASSUME NEW t \in Task, Apart(t), PhaseOf(t) = "working", PhaseOf(t)' = "complete", live[t].aborted = FALSE,
         live'[t].aborted = live[t].aborted, unverified[t] = FALSE, unverified'[t] = unverified[t]
  PROVE  Lifecycle!Next
  <1>1. Lifecycle!Complete(t)
    BY PhasesMove DEF Lifecycle!Complete, Lifecycle!Move, Apart
  <1> QED BY <1>1 DEF Lifecycle!Next

\* It parks.
LEMMA SeenPark ==
  ASSUME NEW t \in Task, Apart(t), PhaseOf(t) \in {"queued", "working", "interrupted"}, PhaseOf(t)' = "parked",
         live[t].aborted = FALSE, live'[t].aborted = live[t].aborted,
         unverified'[t] = unverified[t] \/ (PhaseOf(t) = "working" /\ unverified'[t] = TRUE)
  PROVE  Lifecycle!Next
  <1>1. Lifecycle!Park(t)
    BY PhasesMove DEF Lifecycle!Park, Lifecycle!Move, Apart
  <1> QED BY <1>1 DEF Lifecycle!Next

\* It ends cancelled.
LEMMA SeenCancel ==
  ASSUME NEW t \in Task, Apart(t), PhaseOf(t) \in {"queued", "working", "deciding", "parked"}, PhaseOf(t)' = "cancelled",
         live'[t].aborted = FALSE, unverified'[t] = unverified[t]
  PROVE  Lifecycle!Next
  <1>1. Lifecycle!Cancel(t)
    BY PhasesMove DEF Lifecycle!Cancel, Lifecycle!Move, Apart
  <1> QED BY <1>1 DEF Lifecycle!Next

\* The process exits.
LEMMA SeenExit ==
  ASSUME \A u \in Task : /\ PhaseOf(u)' = IF PhaseOf(u) \in {"working", "deciding", "queued"}
                                           THEN "interrupted" ELSE PhaseOf(u)
                         /\ live'[u].aborted = FALSE /\ unverified'[u] = unverified[u]
  PROVE  Lifecycle!Next
  <1>1. Lifecycle!Exit
    BY DEF Lifecycle!Exit, Lifecycle!Busy
  <1> QED BY <1>1 DEF Lifecycle!Next

-----------------------------------------------------------------------------
(* What the user sees of a task                                             *)

\* A task with a run is at work, or waits for a decision.
LEMMA AtWorkSeen ==
  IInv /\ OnceInv =>
    \A t \in Task : Running(t) =>
      /\ PhaseOf(t) = IF pc[t] = "approval" THEN "deciding" ELSE "working"
      /\ up /\ state[t] \notin Resting /\ (pc[t] = "approval" => ~live[t].aborted)
  <1> SUFFICES ASSUME IInv, OnceInv, NEW t \in Task, Running(t)
               PROVE  /\ PhaseOf(t) = IF pc[t] = "approval" THEN "deciding" ELSE "working"
                      /\ up /\ state[t] \notin Resting /\ (pc[t] = "approval" => ~live[t].aborted)
    OBVIOUS
  <1>1. up /\ StateOK(t) /\ PlaceOK(t)
    BY RunFacts
  <1>2. state[t] = Expected(t)
    BY <1>1 DEF OnceInv, OnceOK, StateOK
  <1>3. state[t] \in {"PLAN", "EXECUTE", "VALIDATE", "REPAIR", "REVIEW", "CHECKPOINT", "AWAIT_APPROVAL"}
        /\ (state[t] = "AWAIT_APPROVAL" <=> pc[t] = "approval")
    BY <1>2 DEF Expected
  <1>4. PhaseOf(t) = IF state[t] = "AWAIT_APPROVAL" THEN "deciding" ELSE "working"
    BY <1>1, <1>3 DEF PhaseOf, Initial, Left, Terminal
  <1>5. state[t] \notin Resting
    BY <1>3 DEF Resting, Terminal
  <1> QED BY <1>1, <1>3, <1>4, <1>5 DEF PlaceOK

\* Of any other task the user sees its state.
LEMMA AtRestSeen ==
  \A t \in Task :
    /\ state[t] = "ABSENT" => PhaseOf(t) = "absent"
    /\ state[t] = "COMPLETE" => PhaseOf(t) = "complete"
    /\ state[t] = "CANCELLED" => PhaseOf(t) = "cancelled"
    /\ state[t] = "NEEDS_USER" => PhaseOf(t) = "parked"
    /\ state[t] = "INTERRUPTED" => PhaseOf(t) = "interrupted"
    /\ up /\ state[t] = Initial => PhaseOf(t) = "queued"
  BY DEF PhaseOf, Initial, Left, Terminal

\* A task nobody works on does not keep its session busy.
LEMMA IdleSeen ==
  ASSUME IInv, up, NEW t \in Task, ~Running(t)
  PROVE  PhaseOf(t) \notin {"working", "deciding"}
  <1>1. state[t] \in {"ABSENT", "COMPLETE", "CANCELLED", "NEEDS_USER", "INTERRUPTED", Initial}
    BY DEF IInv, Inv2, WaitingOK, Resting, Terminal
  <1> QED BY <1>1, AtRestSeen

\* What the user sees depends on the row, and on whether the process is up.
LEMMA RowSeen ==
  ASSUME NEW t \in Task, state'[t] = state[t], up' = up
  PROVE  PhaseOf(t)' = PhaseOf(t)
  BY DEF PhaseOf, Left

-----------------------------------------------------------------------------
(* The queues                                                               *)

\* A chain without its head, and with one more job.
LEMMA TailPlaces ==
  ASSUME Inv1, NEW s \in Session, queue[s] # <<>>, queue' = [queue EXCEPT ![s] = Tail(@)]
  PROVE  /\ \A r \in Session \ {s} : queue'[r] = queue[r]
         /\ Len(queue[s]) \in Nat /\ 1 \in 1..Len(queue[s]) /\ queue[s][1] = Head(queue[s])
         /\ \A i \in 1..Len(queue'[s]) :
              i + 1 \in 1..Len(queue[s]) /\ i + 1 # 1 /\ queue'[s][i] = queue[s][i + 1]
  <1>1. queue[s] \in Seq(Jobs) /\ queue'[s] = Tail(queue[s])
    BY DEF Inv1, TypeOK
  <1>2. /\ Len(Tail(queue[s])) = Len(queue[s]) - 1
        /\ \A i \in 1..Len(Tail(queue[s])) : Tail(queue[s])[i] = queue[s][i + 1]
        /\ Len(queue[s]) \in Nat /\ Len(queue[s]) # 0
    BY <1>1, HeadTailProperties, EmptySeq, LenProperties
  <1>3. queue[s][1] = Head(queue[s])
    BY <1>1
  <1>4. \A r \in Session \ {s} : queue'[r] = queue[r]
    BY DEF Inv1, TypeOK
  <1>5. 1 \in 1..Len(queue[s])
    BY <1>2
  <1>6. ASSUME NEW i \in 1..Len(queue'[s])
        PROVE  i + 1 \in 1..Len(queue[s]) /\ i + 1 # 1 /\ queue'[s][i] = queue[s][i + 1]
    <2>1. i \in 1..Len(Tail(queue[s])) /\ queue'[s][i] = queue[s][i + 1]
      BY <1>1, <1>2
    <2>2. i + 1 \in 1..Len(queue[s]) /\ i + 1 # 1
      BY <1>2, <2>1
    <2> QED BY <2>1, <2>2
  <1> QED BY <1>2, <1>3, <1>4, <1>5, <1>6

LEMMA AppendPlaces ==
  ASSUME Inv1, NEW t \in Task, NEW job \in {"run", "resume"},
         queue' = [queue EXCEPT ![SessionOf[t]] = Append(@, [task |-> t, job |-> job])]
  PROVE  /\ \A r \in Session \ {SessionOf[t]} : queue'[r] = queue[r]
         /\ \A i \in 1..Len(queue'[SessionOf[t]]) :
              \/ /\ i \in 1..Len(queue[SessionOf[t]])
                 /\ queue'[SessionOf[t]][i] = queue[SessionOf[t]][i]
              \/ /\ i = Len(queue[SessionOf[t]]) + 1
                 /\ queue'[SessionOf[t]][i] = [task |-> t, job |-> job]
  <1> DEFINE s == SessionOf[t]
             j == [task |-> t, job |-> job]
  <1>1. s \in Session /\ j \in Jobs /\ queue[s] \in Seq(Jobs)
    BY SessionAssumption DEF Jobs, Inv1, TypeOK
  <1>2. queue'[s] = Append(queue[s], j) /\ \A r \in Session \ {s} : queue'[r] = queue[r]
    BY <1>1 DEF Inv1, TypeOK
  <1>3. /\ Len(Append(queue[s], j)) = Len(queue[s]) + 1
        /\ Append(queue[s], j)[Len(queue[s]) + 1] = j
        /\ \A i \in 1..Len(queue[s]) : Append(queue[s], j)[i] = queue[s][i]
        /\ Len(queue[s]) \in Nat
    BY <1>1, AppendProperties, LenProperties
  <1> QED BY <1>2, <1>3

\* A job of t joins the chain when none of its jobs is in it.
Joins(t) ==
  \E job \in {"run", "resume"} :
    /\ queue' = [queue EXCEPT ![SessionOf[t]] = Append(@, [task |-> t, job |-> job])]
    /\ \A i \in 1..Len(queue[SessionOf[t]]) : queue[SessionOf[t]][i].task # t
    /\ job = "resume" => state'[t] = "INTERRUPTED"

\* The job of t at the head leaves.
Departs(t) ==
  /\ queue[SessionOf[t]] # <<>> /\ Head(queue[SessionOf[t]]).task = t
  /\ queue' = [queue EXCEPT ![SessionOf[t]] = Tail(@)]

\* The chain stays, and a resume in it still finds what it is for.
Waits(t) ==
  /\ queue' = queue
  /\ Running(t)' \/ (~Running(t) /\ (state[t] = "INTERRUPTED" => state'[t] = "INTERRUPTED"))

\* Each of the three keeps a task's jobs apart and its resume in place.
LEMMA QueueOnce ==
  ASSUME IInv, OnceInv, NEW t \in Task, Joins(t) \/ Departs(t) \/ Waits(t),
         \A u \in Task \ {t} : state'[u] = state[u] /\ pc'[u] = pc[u]
  PROVE  (JobsOnce /\ ResumesFit)'
  <1> DEFINE s == SessionOf[t]
  <1>1. Inv1 /\ TypeOK /\ JobsOnce /\ ResumesFit /\ s \in Session
    BY SessionAssumption DEF IInv, Inv1, OnceInv
  <1>2. \A r \in Session : \A i \in 1..Len(queue[r]) :
          queue[r][i].task \in Task /\ SessionOf[queue[r][i].task] = r
    BY <1>1, JobTask DEF Inv1, QueuesOK
  <1>3. CASE Joins(t)
    <2>1. PICK job \in {"run", "resume"} :
            /\ queue' = [queue EXCEPT ![s] = Append(@, [task |-> t, job |-> job])]
            /\ \A i \in 1..Len(queue[s]) : queue[s][i].task # t
            /\ job = "resume" => state'[t] = "INTERRUPTED"
      BY <1>3 DEF Joins
    <2>2. /\ \A r \in Session \ {s} : queue'[r] = queue[r]
          /\ \A i \in 1..Len(queue'[s]) :
               \/ i \in 1..Len(queue[s]) /\ queue'[s][i] = queue[s][i]
               \/ i = Len(queue[s]) + 1 /\ queue'[s][i] = [task |-> t, job |-> job]
      BY <1>1, <2>1, AppendPlaces
    <2>3. ASSUME NEW r \in Session, NEW i \in 1..Len(queue'[r]), NEW k \in 1..Len(queue'[r]),
                 queue'[r][i].task = queue'[r][k].task
          PROVE  i = k
      <3>1. CASE r # s
        BY <1>1, <2>2, <2>3, <3>1 DEF JobsOnce
      <3>2. CASE r = s
        BY <1>1, <2>1, <2>2, <2>3, <3>2 DEF JobsOnce
      <3> QED BY <3>1, <3>2
    <2>4. ASSUME NEW r \in Session, NEW i \in 1..Len(queue'[r]), queue'[r][i].job = "resume"
          PROVE  pc'[queue'[r][i].task] # "idle" \/ state'[queue'[r][i].task] = "INTERRUPTED"
      <3>1. CASE i \in 1..Len(queue[r]) /\ queue'[r][i] = queue[r][i]
        <4>1. queue[r][i].task \in Task \ {t}
          BY <1>2, <2>1, <3>1
        <4> QED BY <1>1, <2>4, <3>1, <4>1 DEF ResumesFit
      <3>2. CASE r = s /\ queue'[r][i] = [task |-> t, job |-> job]
        BY <2>1, <2>4, <3>2
      <3> QED BY <2>2, <3>1, <3>2
    <2> QED BY <2>3, <2>4 DEF JobsOnce, ResumesFit
  <1>4. CASE Departs(t)
    <2>1. /\ \A r \in Session \ {s} : queue'[r] = queue[r]
          /\ 1 \in 1..Len(queue[s]) /\ queue[s][1].task = t /\ Len(queue[s]) \in Nat
          /\ \A i \in 1..Len(queue'[s]) :
               i + 1 \in 1..Len(queue[s]) /\ i + 1 # 1 /\ queue'[s][i] = queue[s][i + 1]
      BY <1>1, <1>4, TailPlaces DEF Departs
    <2>2. ASSUME NEW r \in Session, NEW i \in 1..Len(queue'[r]), NEW k \in 1..Len(queue'[r]),
                 queue'[r][i].task = queue'[r][k].task
          PROVE  i = k
      <3>1. CASE r # s
        BY <1>1, <2>1, <2>2, <3>1 DEF JobsOnce
      <3>2. CASE r = s
        <4> DEFINE m == i + 1
                   n == k + 1
        <4>1. m \in 1..Len(queue[s]) /\ n \in 1..Len(queue[s])
          BY <2>1, <3>2
        <4>2. queue'[s][i] = queue[s][m] /\ queue'[s][k] = queue[s][n]
          BY <2>1, <3>2
        <4> HIDE DEF m, n
        <4>3. m = n
          BY <1>1, <2>2, <3>2, <4>1, <4>2 DEF JobsOnce
        <4> QED BY <4>3 DEF m, n
      <3> QED BY <3>1, <3>2
    <2>3. ASSUME NEW r \in Session, NEW i \in 1..Len(queue'[r]), queue'[r][i].job = "resume"
          PROVE  pc'[queue'[r][i].task] # "idle" \/ state'[queue'[r][i].task] = "INTERRUPTED"
      <3>1. PICK k \in 1..Len(queue[r]) : queue'[r][i] = queue[r][k] /\ queue[r][k].task # t
        <4>1. CASE r # s
          BY <1>1, <1>2, <2>1, <4>1
        <4>2. CASE r = s
          <5>1. i + 1 \in 1..Len(queue[s]) /\ i + 1 # 1 /\ queue'[s][i] = queue[s][i + 1]
            BY <2>1, <4>2
          <5>2. queue[s][i + 1].task # t
            BY <1>1, <2>1, <5>1 DEF JobsOnce
          <5> QED BY <4>2, <5>1, <5>2
        <4> QED BY <4>1, <4>2
      <3>2. queue[r][k].task \in Task \ {t}
        BY <1>2, <3>1
      <3> QED BY <1>1, <2>3, <3>1, <3>2 DEF ResumesFit
    <2> QED BY <2>2, <2>3 DEF JobsOnce, ResumesFit
  <1>5. CASE Waits(t)
    <2>1. queue' = queue
      BY <1>5 DEF Waits
    <2>2. ASSUME NEW r \in Session, NEW i \in 1..Len(queue[r]), queue[r][i].job = "resume"
          PROVE  pc'[queue[r][i].task] # "idle" \/ state'[queue[r][i].task] = "INTERRUPTED"
      <3>1. Running(queue[r][i].task) \/ state[queue[r][i].task] = "INTERRUPTED"
        BY <1>1, <2>2 DEF ResumesFit
      <3>2. queue[r][i].task \in Task
        BY <1>2
      <3> QED BY <1>5, <3>1, <3>2 DEF Waits
    <2> QED BY <1>1, <2>1, <2>2 DEF JobsOnce, ResumesFit
  <1> QED BY <1>3, <1>4, <1>5

-----------------------------------------------------------------------------
(* How a step moves its task                                                *)

\* A run goes on, or ends with its task at rest.
Onward(t) ==
  /\ queue' = queue /\ pc'[t] # "idle"
  /\ live'[t].entry = live[t].entry /\ live'[t].aborted = live[t].aborted

Ended(t) == Leave(t) /\ state'[t] \in {"CANCELLED", "NEEDS_USER", "COMPLETE"}

\* What it does to the edits.
Kept(t) == unverified'[t] = unverified[t] /\ changed'[t] = changed[t]

Edited(t) ==
  /\ ~live[t].aborted /\ unverified'[t] = TRUE /\ changed'[t] = TRUE
  /\ pc'[t] # "approval" /\ (pc'[t] = "idle" => state'[t] = "NEEDS_USER")

Verified(t) ==
  /\ ~live[t].aborted /\ unverified'[t] = FALSE
  /\ pc'[t] # "approval" /\ (pc'[t] = "idle" => ~changed[t])

\* A settled run has ended, an awaiting one goes on.
LEMMA SettleEnded ==
  ASSUME Inv1, NEW t \in Task, live[t].aborted \in BOOLEAN,
         NEW s \in TaskState \ {"INTERRUPTED"}, NEW e,
         \/ e = "failed"
         \/ e = "answered" /\ (s \in {"EXECUTE", "CHECKPOINT"} \cup Resting \/ live[t].aborted),
         Settle(t, s, e)
  PROVE  Ended(t) /\ pc'[t] = "idle"
  <1>1. \E x \in Resting \ {"INTERRUPTED"} : state' = [state EXCEPT ![t] = x]
    BY SettleRests
  <1>2. state'[t] \in {"CANCELLED", "NEEDS_USER", "COMPLETE"}
    BY <1>1 DEF Inv1, TypeOK, Resting, Terminal
  <1>3. Leave(t) /\ pc'[t] = "idle"
    BY DEF Settle, Leave, Inv1, TypeOK
  <1> QED BY <1>2, <1>3 DEF Ended

\* A failure of a run that was not cancelled asks for the user.
LEMMA FailureParks ==
  ASSUME Inv1, NEW t \in Task, ~live[t].aborted, NEW s \in TaskState \ Terminal, Settle(t, s, "failed")
  PROVE  state'[t] = "NEEDS_USER"
  <1>1. state'[t] = After(t, s, "failed")
    BY DEF Settle, Finish, Inv1, TypeOK
  <1> QED BY <1>1 DEF After, Transition, Terminal

LEMMA AwaitOnward ==
  ASSUME Inv1, NEW t \in Task, NEW s, NEW p, p # "idle", NEW l,
         l.entry = live[t].entry, l.aborted = live[t].aborted, Await(t, s, p, l)
  PROVE  Onward(t) /\ pc'[t] = p
  <1>1. pc'[t] = p /\ live'[t] = l
    BY AwaitValues
  <1> QED BY <1>1 DEF Await, Onward

LEMMA CallOnward ==
  ASSUME Inv1, NEW t \in Task, NEW s, NEW p, p # "idle", NEW l \in Live,
         l.entry = live[t].entry, l.aborted = live[t].aborted, CallModel(t, s, p, l)
  PROVE  Onward(t) /\ pc'[t] = p
  <1> DEFINE m == [l EXCEPT !.modelCalls = @ + 1]
  <1>1. m.entry = l.entry /\ m.aborted = l.aborted
    BY DEF Live
  <1>2. Await(t, s, p, m)
    BY DEF CallModel
  <1> HIDE DEF m
  <1> QED BY <1>1, <1>2, AwaitOnward

LEMMA BuildOnward ==
  ASSUME Inv1, NEW t \in Task, NEW s, NEW l \in Live,
         l.entry = live[t].entry, l.aborted = live[t].aborted, NEW kind, Build(t, s, l, kind)
  PROVE  Onward(t) /\ pc'[t] = "model"
  BY CallOnward DEF Build

\* The end of a review.
LEMMA ConcludeMoves ==
  ASSUME Inv1, NEW t \in Task, live[t] \in Live, Conclude(t, "REVIEW")
  PROVE  /\ Onward(t) \/ Ended(t)
         /\ pc'[t] # "approval" /\ (pc'[t] = "idle" => ~changed[t])
  <1>1. After(t, "REVIEW", "review_passed") = "CHECKPOINT"
    BY DEF After, Transition, Terminal
  <1>2. "CHECKPOINT" \in TaskState \ {"INTERRUPTED"} /\ live[t].aborted \in BOOLEAN
    BY DEF TaskState, Working, Live
  <1>3. CASE changed[t] /\ Await(t, "CHECKPOINT", "commit", live[t])
    BY <1>3, AwaitOnward
  <1>4. CASE ~changed[t] /\ Settle(t, "CHECKPOINT", "answered")
    BY <1>2, <1>4, SettleEnded
  <1> QED BY <1>1, <1>3, <1>4 DEF Conclude

\* Whatever the awaited call answers, the run goes on or ends, and has edited,
\* been checked or done neither.
LEMMA RunMoves ==
  ASSUME IInv, OnceInv, NEW t \in Task, Running(t), Progress(t)
  PROVE  /\ pc[t] # "approval" /\ (Onward(t) \/ (Ended(t) /\ pc'[t] = "idle"))
         /\ Kept(t) \/ Edited(t) \/ Verified(t)
  <1> USE DEF Kept
  <1>1. /\ Inv1 /\ TypeOK /\ live[t] \in Live /\ live[t].aborted \in BOOLEAN
        /\ state[t] = Expected(t) /\ state[t] \in TaskState \ Resting
    <2>1. live[t] \in Live /\ live[t].aborted \in BOOLEAN /\ state[t] \in TaskState /\ StateOK(t)
      BY RunFacts
    <2>2. live[t].entry \in {Initial, "INTERRUPTED"} /\ state[t] \notin Resting
      BY AtWorkSeen DEF OnceInv, OnceOK
    <2> QED BY <2>1, <2>2 DEF IInv, Inv1, StateOK
  <1>2. state[t] \in TaskState \ {"INTERRUPTED"} /\ state[t] \in TaskState \ Terminal
    BY <1>1 DEF Resting
  <1> DEFINE Moves == /\ pc[t] # "approval" /\ (Onward(t) \/ (Ended(t) /\ pc'[t] = "idle"))
                      /\ Kept(t) \/ Edited(t) \/ Verified(t)
  <1> SUFFICES Moves
    OBVIOUS
  <1>3. CASE ModelFails(t) \/ RunThrows(t) \/ ModelReturnsLate(t) \/ PlanUnusable(t)
    <2>1. Settle(t, state[t], "failed") /\ pc[t] # "approval" /\ UNCHANGED <<unverified, changed>>
      BY <1>3 DEF ModelFails, RunThrows, ModelReturnsLate, PlanUnusable, ModelCalling
    <2>2. Ended(t) /\ pc'[t] = "idle"
      BY <1>1, <1>2, <2>1, SettleEnded
    <2>3. Kept(t)
      BY <2>1
    <2> QED BY <2>1, <2>2, <2>3
  <1>4. CASE Answered(t) \/ ChecksReturnLate(t) \/ \E committed \in BOOLEAN : CommitReturns(t, committed)
    <2>1. /\ Settle(t, state[t], "answered") /\ UNCHANGED <<unverified, changed>>
          /\ pc[t] \in {"answer", "commit"} \/ (pc[t] = "validate" /\ live[t].aborted)
      BY <1>4 DEF Answered, ChecksReturnLate, CommitReturns
    <2>2. state[t] \in {"EXECUTE", "CHECKPOINT"} \/ live[t].aborted
      BY <1>1, <2>1 DEF Expected
    <2>7. pc[t] # "approval" /\ (Onward(t) \/ (Ended(t) /\ pc'[t] = "idle"))
      BY <1>1, <1>2, <2>1, <2>2, SettleEnded
    <2>8. Kept(t)
      BY <2>1
    <2> QED BY <2>7, <2>8
  <1>5. ASSUME NEW threshold \in Threshold, Planned(t, threshold)
        PROVE  Moves
    <2>1. /\ pc[t] = "plan" /\ UNCHANGED <<unverified, changed>>
          /\ \/ Await(t, After(t, state[t], "plan_auto_approved"), "checkpoint", live[t])
             \/ Await(t, After(t, state[t], "plan_ready"), "approval", live[t])
      BY <1>5 DEF Planned
    <2>7. pc[t] # "approval" /\ (Onward(t) \/ (Ended(t) /\ pc'[t] = "idle"))
      BY <1>1, <2>1, AwaitOnward
    <2>8. Kept(t)
      BY <2>1
    <2> QED BY <2>7, <2>8
  <1>6. ASSUME NEW row \in {"taken", "unavailable"}, CheckpointReturns(t, row)
        PROVE  Moves
    <2> DEFINE s == After(t, After(t, state[t], "plan_skipped"), "edits_applied")
    <2>1. /\ pc[t] = "checkpoint" /\ UNCHANGED <<unverified, changed>>
          /\ Await(t, s, "validate", live[t]) \/ Build(t, state[t], live[t], "execute")
      BY <1>6 DEF CheckpointReturns
    <2> HIDE DEF s
    <2>7. pc[t] # "approval" /\ (Onward(t) \/ (Ended(t) /\ pc'[t] = "idle"))
      BY <1>1, <2>1, AwaitOnward, BuildOnward
    <2>8. Kept(t)
      BY <2>1
    <2> QED BY <2>7, <2>8
  <1>7. CASE LoopReturns(t)
    <2> DEFINE s == After(t, state[t], IF loop[t] = "repair" THEN "fix_applied" ELSE "edits_applied")
               l == [live[t] EXCEPT !.repairAttempts = IF loop[t] = "repair" THEN @ + 1 ELSE @]
    <2>1. Await(t, s, "validate", l) /\ pc[t] = "model" /\ UNCHANGED <<unverified, changed>>
      BY <1>7 DEF LoopReturns
    <2>2. l.entry = live[t].entry /\ l.aborted = live[t].aborted
      BY <1>1 DEF Live
    <2> HIDE DEF s, l
    <2>7. pc[t] # "approval" /\ (Onward(t) \/ (Ended(t) /\ pc'[t] = "idle"))
      BY <1>1, <2>1, <2>2, AwaitOnward
    <2>8. Kept(t)
      BY <2>1
    <2> QED BY <2>7, <2>8
  <1>8. ASSUME NEW n \in 0..MaxCalls, TurnCallsTools(t, n)
        PROVE  Moves
    <2> DEFINE l == [live[t] EXCEPT !.toolSteps = @ + 1]
    <2>1. /\ pc[t] = "model" /\ UNCHANGED <<unverified, changed>>
          /\ Await(t, state[t], "tool", l) \/ Settle(t, state[t], "failed")
      BY <1>8 DEF TurnCallsTools
    <2>2. l.entry = live[t].entry /\ l.aborted = live[t].aborted
      BY <1>1 DEF Live
    <2> HIDE DEF l
    <2>7. pc[t] # "approval" /\ (Onward(t) \/ (Ended(t) /\ pc'[t] = "idle"))
      BY <1>1, <1>2, <2>1, <2>2, AwaitOnward, SettleEnded
    <2>8. Kept(t)
      BY <2>1
    <2> QED BY <2>7, <2>8
  <1>9. ASSUME NEW edits \in BOOLEAN, ToolReturns(t, edits)
        PROVE  Moves
    <2> DEFINE l == [live[t] EXCEPT !.edited = @ \/ edits]
               m == [l EXCEPT !.toolSteps = @ + 1]
    <2>1. /\ pc[t] = "tool" /\ (edits => ~l.aborted)
          /\ changed' = [changed EXCEPT ![t] = @ \/ edits] /\ unverified' = [unverified EXCEPT ![t] = @ \/ edits]
          /\ Await(t, state[t], "tool", m) \/ CallModel(t, state[t], "model", l) \/ Settle(t, state[t], "failed")
      BY <1>9 DEF ToolReturns
    <2>2. /\ l \in Live /\ l.entry = live[t].entry /\ m.entry = live[t].entry
          /\ l.aborted = live[t].aborted /\ m.aborted = live[t].aborted
      BY <1>1 DEF Live
    <2>3. changed'[t] = (changed[t] \/ edits) /\ unverified'[t] = (unverified[t] \/ edits)
      BY <1>1, <2>1 DEF TypeOK
    <2>4. changed[t] \in BOOLEAN /\ unverified[t] \in BOOLEAN
      BY <1>1 DEF TypeOK
    <2> HIDE DEF l, m
    <2>5. \/ Onward(t) /\ pc'[t] \in {"tool", "model"}
          \/ Ended(t) /\ pc'[t] = "idle" /\ (~live[t].aborted => state'[t] = "NEEDS_USER")
      BY <1>1, <1>2, <2>1, <2>2, AwaitOnward, CallOnward, SettleEnded, FailureParks
    <2>6. Kept(t) \/ Edited(t)
      <3>1. CASE edits = TRUE
        BY <2>1, <2>2, <2>3, <2>5, <3>1 DEF Edited
      <3>2. CASE edits = FALSE
        BY <2>3, <2>4, <3>2
      <3> QED BY <3>1, <3>2
    <2> QED BY <2>1, <2>5, <2>6
  <1>10. CASE ChecksPass(t)
    <2>1. pc[t] = "validate" /\ ~live[t].aborted /\ unverified'[t] = FALSE
      BY <1>1, <1>10 DEF ChecksPass, TypeOK
    <2>2. After(t, state[t], "checks_passed") = "REVIEW"
      BY <1>1, <2>1 DEF Expected, After, Transition, Terminal
    <2>3. CallModel(t, "REVIEW", "review", live[t]) \/ Conclude(t, "REVIEW")
      BY <1>10, <2>2 DEF ChecksPass
    <2>4. CASE CallModel(t, "REVIEW", "review", live[t])
      <3>1. Onward(t) /\ pc'[t] = "review"
        BY <1>1, <2>4, CallOnward
      <3>2. Verified(t)
        BY <2>1, <3>1 DEF Verified
      <3> QED BY <2>1, <3>1, <3>2
    <2>5. CASE Conclude(t, "REVIEW")
      <3>1. /\ Onward(t) \/ Ended(t)
            /\ pc'[t] # "approval" /\ (pc'[t] = "idle" => ~changed[t])
        BY <1>1, <2>5, ConcludeMoves
      <3>2. Ended(t) => pc'[t] = "idle"
        BY <1>1 DEF Ended, Leave, TypeOK
      <3>3. Verified(t)
        BY <2>1, <3>1 DEF Verified
      <3> QED BY <2>1, <3>1, <3>2, <3>3
    <2> QED BY <2>3, <2>4, <2>5
  <1>11. CASE ChecksFail(t)
    <2> DEFINE s == After(t, "DIAGNOSE", "diagnosis_ready")
    <2>1. pc[t] = "validate" /\ UNCHANGED <<unverified, changed>>
      BY <1>11 DEF ChecksFail
    <2>2. After(t, state[t], "checks_failed") = "DIAGNOSE"
      BY <1>1, <2>1 DEF Expected, After, Transition, Terminal
    <2>3. "DIAGNOSE" \in TaskState \ {"INTERRUPTED"}
      BY DEF TaskState, Working
    <2>4. Build(t, s, live[t], "repair") \/ Settle(t, "DIAGNOSE", "failed")
      BY <1>11, <2>2 DEF ChecksFail
    <2> HIDE DEF s
    <2>7. pc[t] # "approval" /\ (Onward(t) \/ (Ended(t) /\ pc'[t] = "idle"))
      BY <1>1, <2>1, <2>3, <2>4, BuildOnward, SettleEnded
    <2>8. Kept(t)
      BY <2>1
    <2> QED BY <2>7, <2>8
  <1>12. CASE ReviewPasses(t)
    <2>1. pc[t] = "review" /\ Conclude(t, state[t]) /\ UNCHANGED <<unverified, changed>>
      BY <1>12 DEF ReviewPasses
    <2>2. state[t] = "REVIEW"
      BY <1>1, <2>1 DEF Expected
    <2>3. Onward(t) \/ Ended(t)
      BY <1>1, <2>1, <2>2, ConcludeMoves
    <2>4. Ended(t) => pc'[t] = "idle"
      BY <1>1 DEF Ended, Leave, TypeOK
    <2>5. Kept(t)
      BY <2>1
    <2> QED BY <2>1, <2>3, <2>4, <2>5
  <1>13. CASE ReviewWantsChanges(t)
    <2> DEFINE l == [live[t] EXCEPT !.reviewRounds = @ + 1]
               s == After(t, state[t], "review_requests_changes")
    <2>1. Build(t, s, l, "review") /\ pc[t] = "review" /\ UNCHANGED <<unverified, changed>>
      BY <1>13 DEF ReviewWantsChanges
    <2>2. l \in Live /\ l.entry = live[t].entry /\ l.aborted = live[t].aborted
      BY <1>1 DEF Live
    <2> HIDE DEF l, s
    <2>7. pc[t] # "approval" /\ (Onward(t) \/ (Ended(t) /\ pc'[t] = "idle"))
      BY <1>1, <2>1, <2>2, BuildOnward
    <2>8. Kept(t)
      BY <2>1
    <2> QED BY <2>7, <2>8
  <1>14. ASSUME \/ Skip(t) \/ StartAsk(t) \/ StartBuild(t) \/ StartResume(t)
                \/ \E job \in {"run", "resume"} : StartThrows(t, job)
         PROVE  FALSE
    BY <1>14 DEF Skip, StartAsk, StartBuild, StartResume, StartThrows, Due
  <1> QED BY <1>3, <1>4, <1>5, <1>6, <1>7, <1>8, <1>9, <1>10, <1>11, <1>12, <1>13, <1>14 DEF Progress

\* Nothing runs, before and after.
Idle(t) == ~Running(t) /\ pc'[t] = pc[t] /\ live'[t] = live[t] /\ Kept(t)

Joined(t) ==
  /\ Idle(t) /\ Joins(t)
  /\ state'[t] = state[t] \/ (state[t] = "ABSENT" /\ state'[t] = Initial)

\* A task that waits is cancelled, unless it is interrupted.
Dismissed(t) ==
  /\ Idle(t) /\ queue' = queue
  /\ \/ state[t] = "INTERRUPTED" /\ state'[t] = state[t]
     \/ state[t] \in {Initial, "NEEDS_USER"} /\ state'[t] = "CANCELLED"

\* Its job leaves the chain: nothing to do, or no run could be started.
Dropped(t) ==
  /\ Idle(t) /\ Departs(t)
  /\ \/ state'[t] = state[t]
     \/ state[t] \in {Initial, "INTERRUPTED"} /\ state'[t] = "NEEDS_USER"

Begun(t) ==
  /\ ~Running(t) /\ queue' = queue /\ queue[SessionOf[t]] # <<>> /\ Head(queue[SessionOf[t]]).task = t
  /\ state[t] \in {Initial, "INTERRUPTED"} /\ pc'[t] \notin {"idle", "approval"}
  /\ live'[t].entry \in {Initial, "INTERRUPTED"} /\ ~live'[t].aborted /\ Kept(t)

Aborted(t) ==
  /\ Running(t) /\ pc[t] # "approval" /\ pc'[t] = pc[t] /\ state'[t] = state[t] /\ queue' = queue
  /\ live'[t].aborted = TRUE /\ live'[t].entry = live[t].entry /\ Kept(t)

Decided(t) ==
  /\ pc[t] = "approval" /\ Kept(t)
  /\ \/ Onward(t) /\ pc'[t] # "approval"
     \/ Leave(t) /\ state'[t] = "CANCELLED"

\* The head of a chain is its first job.
LEMMA HeadIsFirst ==
  ASSUME Inv1, NEW s \in Session, queue[s] # <<>>
  PROVE  1 \in 1..Len(queue[s]) /\ Head(queue[s]) = queue[s][1]
  <1>1. queue[s] \in Seq(Jobs)
    BY DEF Inv1, TypeOK
  <1>2. Len(queue[s]) \in Nat /\ Len(queue[s]) # 0
    BY <1>1, EmptySeq, LenProperties
  <1> QED BY <1>1, <1>2

\* A task is resumed only when no job of it is in its chain.
ResumesOnce == \A t \in Task : Resume(t) => JobsOf(t) = {}

\* So it is when at most one may be.
LEMMA NoneWaits ==
  ASSUME Inv1, MaxResumes <= 1, NEW t \in Task, Cardinality(JobsOf(t)) < MaxResumes
  PROVE  JobsOf(t) = {}
  <1> DEFINE q == queue[SessionOf[t]]
  <1>1. q \in Seq(Jobs)
    BY SessionAssumption DEF Inv1, TypeOK
  <1>2. Len(q) \in Nat /\ DOMAIN q = 1..Len(q)
    BY <1>1, LenProperties
  <1>3. IsFiniteSet(1..Len(q))
    BY <1>2, FS_Interval
  <1>4. JobsOf(t) \in SUBSET (1..Len(q))
    BY <1>2 DEF JobsOf
  <1>5. IsFiniteSet(JobsOf(t))
    BY <1>3, <1>4, FS_Subset
  <1>6. Cardinality(JobsOf(t)) \in Nat
    BY <1>5, FS_CardinalityType
  <1>7. Cardinality(JobsOf(t)) = 0
    BY <1>6, BoundsAssumption
  <1> QED BY <1>5, <1>7, FS_EmptySet

\* Then the resume is the only job of its task.
LEMMA ResumedOnce ==
  ASSUME Inv1, NEW t \in Task, JobsOf(t) = {}
  PROVE  \A i \in 1..Len(queue[SessionOf[t]]) : queue[SessionOf[t]][i].task # t
  <1>1. queue[SessionOf[t]] \in Seq(Jobs)
    BY SessionAssumption DEF Inv1, TypeOK
  <1>2. DOMAIN queue[SessionOf[t]] = 1..Len(queue[SessionOf[t]])
    BY <1>1, LenProperties
  <1> QED BY <1>2 DEF JobsOf

\* What the user's commands do to a task.
LEMMA CommandMoves ==
  ASSUME IInv, OnceInv, ResumesOnce, NEW t \in Task, Command(t)
  PROVE  Joined(t) \/ Dismissed(t) \/ Aborted(t) \/ Decided(t)
  <1>1. Inv1 /\ TypeOK /\ SessionOf[t] \in Session
    BY SessionAssumption DEF IInv, Inv1
  <1>2. ASSUME NEW r \in Requests, Submit(t, r)
        PROVE  Joined(t)
    <2>1. ~Running(t) /\ state[t] = "ABSENT"
      BY <1>1, <1>2 DEF Submit, Inv1, RunsOK
    <2>2. \A i \in 1..Len(queue[SessionOf[t]]) : queue[SessionOf[t]][i].task # t
      BY <1>1, <2>1 DEF Inv1, QueuesOK
    <2>3. Joins(t)
      BY <1>2, <2>2 DEF Submit, Joins
    <2>4. Idle(t) /\ state'[t] = Initial
      BY <1>1, <1>2, <2>1 DEF Submit, Idle, Kept, TypeOK
    <2> QED BY <2>1, <2>3, <2>4 DEF Joined
  <1>3. CASE CancelIdle(t)
    <2>1. Idle(t) /\ queue' = queue /\ state'[t] = After(t, state[t], "cancel")
      BY <1>1, <1>3 DEF CancelIdle, Finish, Idle, Kept, TypeOK
    <2>2. state[t] \in {Initial, "NEEDS_USER", "INTERRUPTED"}
      BY <1>3 DEF CancelIdle, IInv, Inv2, WaitingOK, Resting, Terminal
    <2>3. state'[t] = IF state[t] = "INTERRUPTED" THEN state[t] ELSE "CANCELLED"
      BY <2>1, <2>2 DEF After, Transition, Terminal, Initial
    <2> QED BY <2>1, <2>2, <2>3 DEF Dismissed
  <1>4. CASE CancelRunning(t)
    <2>1. Running(t) /\ Kept(t) /\ live[t] \in Live
      BY <1>1, <1>4 DEF CancelRunning, Kept, TypeOK
    <2>2. CASE pc[t] = "approval"
      <3>1. Leave(t) /\ state'[t] = After(t, state[t], "cancel")
        BY <1>1, <1>4, <2>2 DEF CancelRunning, Finish, TypeOK
      <3>2. state[t] \notin Terminal \cup {"INTERRUPTED"}
        BY <1>4, <2>1, RunFacts DEF CancelRunning
      <3>3. state'[t] = "CANCELLED"
        BY <3>1, <3>2 DEF After, Transition
      <3> QED BY <2>1, <2>2, <3>1, <3>3 DEF Decided
    <2>3. CASE pc[t] # "approval"
      <3>1. UNCHANGED <<state, queue, pc>> /\ live' = [live EXCEPT ![t].aborted = TRUE]
        BY <1>4, <2>3 DEF CancelRunning
      <3>2. live'[t].aborted = TRUE /\ live'[t].entry = live[t].entry
        BY <1>1, <2>1, <3>1 DEF TypeOK, Live
      <3> QED BY <2>1, <2>3, <3>1, <3>2 DEF Aborted
    <2> QED BY <2>2, <2>3
  <1>5. CASE Approve(t) \/ Revise(t)
    <2>1. pc[t] = "approval" /\ Kept(t) /\ live[t] \in Live
      BY <1>1, <1>5 DEF Approve, Revise, Kept, TypeOK
    <2>2. \/ Await(t, After(t, state[t], "approved"), "checkpoint", live[t])
          \/ CallModel(t, After(t, state[t], "revise"), "plan", live[t])
      BY <1>5 DEF Approve, Revise
    <2>3. Onward(t) /\ pc'[t] # "approval"
      BY <1>1, <2>1, <2>2, AwaitOnward, CallOnward
    <2> QED BY <2>1, <2>3 DEF Decided
  <1>6. CASE Reject(t)
    <2>1. /\ pc[t] = "approval" /\ Kept(t) /\ Leave(t) /\ state[t] = "AWAIT_APPROVAL"
          /\ state'[t] = After(t, state[t], "rejected")
      BY <1>1, <1>6 DEF Reject, Kept, Finish, TypeOK
    <2>2. state'[t] = "CANCELLED"
      BY <2>1 DEF After, Transition, Terminal
    <2> QED BY <2>1, <2>2 DEF Decided
  <1>7. CASE Resume(t)
    <2>1. ~Running(t)
      BY <1>7, RunFacts DEF Resume
    <2>2. Idle(t) /\ state'[t] = state[t] /\ state'[t] = "INTERRUPTED"
      BY <1>7, <2>1 DEF Resume, Idle, Kept, db
    <2>3. Joins(t)
      <3>1. JobsOf(t) = {}
        BY <1>7 DEF ResumesOnce
      <3> QED BY <1>1, <1>7, <2>2, <3>1, ResumedOnce DEF Resume, Joins
    <2> QED BY <2>2, <2>3 DEF Joined
  <1> QED BY <1>2, <1>3, <1>4, <1>5, <1>6, <1>7 DEF Command

\* What the first step of a job does.
LEMMA StartMoves ==
  ASSUME IInv, OnceInv, NEW t \in Task, ~Running(t), Progress(t)
  PROVE  Begun(t) \/ Dropped(t)
  <1>1. Inv1 /\ TypeOK /\ SessionOf[t] \in Session
    BY SessionAssumption DEF IInv, Inv1
  <1>2. ASSUME NEW job \in {"run", "resume"}, Due(t, job)
        PROVE  /\ queue[SessionOf[t]] # <<>> /\ Head(queue[SessionOf[t]]).task = t
               /\ job = "resume" => state[t] = "INTERRUPTED"
    <2>1. queue[SessionOf[t]] # <<>> /\ Head(queue[SessionOf[t]]) = [task |-> t, job |-> job]
      BY <1>2 DEF Due
    <2>2. queue[SessionOf[t]][1] = [task |-> t, job |-> job] /\ 1 \in 1..Len(queue[SessionOf[t]])
      BY <1>1, <2>1, HeadIsFirst
    <2> QED BY <1>1, <2>1, <2>2 DEF OnceInv, ResumesFit
  <1>3. Initial \in TaskState /\ "INTERRUPTED" \in TaskState
    BY DEF TaskState, Resting
  <1>4. CASE Skip(t)
    <2>1. Departs(t)
      BY <1>2, <1>4 DEF Skip, Departs
    <2> QED BY <1>4, <2>1 DEF Skip, Dropped, Idle, Kept, db
  <1>5. ASSUME NEW s, NEW p \in {"answer", "plan", "checkpoint", "validate"}, NEW e \in {Initial, "INTERRUPTED"},
               state[t] = e, NEW job \in {"run", "resume"}, Due(t, job), UNCHANGED <<unverified, changed>>,
               CallModel(t, s, p, Started(e)) \/ Await(t, s, p, Started(e))
        PROVE  Begun(t)
    <2>1. Started(e) \in Live /\ Started(e).entry = e /\ Started(e).aborted = FALSE
      BY <1>3, <1>5, StartedType, StartedFields
    <2>2. pc'[t] = p /\ queue' = queue /\ live'[t].entry = e /\ live'[t].aborted = FALSE
      <3>1. CASE Await(t, s, p, Started(e))
        BY <1>1, <2>1, <3>1, AwaitValues DEF Await
      <3>2. CASE CallModel(t, s, p, Started(e))
        <4> DEFINE m == [Started(e) EXCEPT !.modelCalls = @ + 1]
        <4>1. m.entry = e /\ m.aborted = FALSE
          BY <2>1 DEF Live
        <4>2. Await(t, s, p, m)
          BY <3>2 DEF CallModel
        <4> HIDE DEF m
        <4> QED BY <1>1, <4>1, <4>2, AwaitValues DEF Await
      <3> QED BY <1>5, <3>1, <3>2
    <2> QED BY <1>2, <1>5, <2>2 DEF Begun, Kept
  <1>6. CASE StartAsk(t)
    <2>1. /\ Due(t, "run") /\ state[t] = Initial /\ UNCHANGED <<unverified, changed>>
          /\ CallModel(t, After(t, state[t], "context_sufficient"), "answer", Started(Initial))
      BY <1>6 DEF StartAsk
    <2> QED BY <1>5, <2>1
  <1>7. CASE StartBuild(t)
    <2> DEFINE planned == After(t, state[t], "context_sufficient")
    <2>1. /\ Due(t, "run") /\ state[t] = Initial /\ UNCHANGED <<unverified, changed>>
          /\ \/ Await(t, planned, "checkpoint", Started(Initial))
             \/ Await(t, After(t, planned, "plan_skipped"), "checkpoint", Started(Initial))
             \/ CallModel(t, planned, "plan", Started(Initial))
      BY <1>7 DEF StartBuild
    <2> HIDE DEF planned
    <2> QED BY <1>5, <2>1
  <1>8. CASE StartResume(t)
    <2>1. /\ Due(t, "resume") /\ UNCHANGED <<unverified, changed>>
          /\ Await(t, After(t, state[t], "resume"), "validate", Started(state[t]))
      BY <1>8 DEF StartResume
    <2>2. state[t] = "INTERRUPTED"
      BY <1>2, <2>1
    <2> QED BY <1>5, <2>1, <2>2
  <1>9. ASSUME NEW job \in {"run", "resume"}, StartThrows(t, job)
        PROVE  Dropped(t)
    <2> DEFINE s == IF job = "run" THEN state[t] ELSE After(t, state[t], "resume")
    <2>1. /\ Due(t, job) /\ (job = "run" => state[t] = Initial) /\ Idle(t)
          /\ queue' = [queue EXCEPT ![SessionOf[t]] = Tail(@)] /\ Finish(t, s, "failed")
      BY <1>9 DEF StartThrows, Idle, Kept
    <2>2. Departs(t) /\ (job = "resume" => state[t] = "INTERRUPTED")
      BY <1>2, <2>1 DEF Departs
    <2>3. s \notin Terminal
      BY <2>1, <2>2 DEF After, Transition, Terminal, Initial
    <2>4. state'[t] = After(t, s, "failed")
      BY <1>1, <2>1 DEF Finish, TypeOK
    <2> HIDE DEF s
    <2>5. state'[t] = "NEEDS_USER"
      BY <2>3, <2>4 DEF After, Transition
    <2> QED BY <2>1, <2>2, <2>5 DEF Dropped
  <1>10. ASSUME Progress(t)
         PROVE  \/ Skip(t) \/ StartAsk(t) \/ StartBuild(t) \/ StartResume(t)
                \/ \E job \in {"run", "resume"} : StartThrows(t, job)
    BY DEF Progress, ModelFails, RunThrows, ModelReturnsLate, ModelCalling, Answered, PlanUnusable, Planned,
       CheckpointReturns, LoopReturns, TurnCallsTools, ToolReturns, ChecksPass, ChecksFail, ChecksReturnLate,
       ReviewPasses, ReviewWantsChanges, CommitReturns
  <1> QED BY <1>4, <1>6, <1>7, <1>8, <1>9, <1>10

Worked(t) ==
  /\ Running(t) /\ pc[t] # "approval"
  /\ Onward(t) \/ (Ended(t) /\ pc'[t] = "idle")
  /\ Kept(t) \/ Edited(t) \/ Verified(t)

Moved(t) ==
  Joined(t) \/ Dismissed(t) \/ Dropped(t) \/ Begun(t) \/ Aborted(t) \/ Decided(t) \/ Worked(t)

\* Every step of a task is one of these, and leaves the others alone.
LEMMA StepMoves ==
  ASSUME IInv, OnceInv, ResumesOnce, NEW t \in Task, Command(t) \/ Progress(t)
  PROVE  /\ Moved(t) /\ up /\ up' = up
         /\ \A u \in Task \ {t} : /\ state'[u] = state[u] /\ pc'[u] = pc[u] /\ live'[u] = live[u]
                                  /\ unverified'[u] = unverified[u] /\ changed'[u] = changed[u]
  <1>1. Moved(t)
    <2>1. CASE Command(t)
      BY <2>1, CommandMoves DEF Moved
    <2>2. CASE Progress(t) /\ Running(t)
      BY <2>2, RunMoves DEF Moved, Worked
    <2>3. CASE Progress(t) /\ ~Running(t)
      BY <2>3, StartMoves DEF Moved
    <2> QED BY <2>1, <2>2, <2>3
  <1>2. up /\ up' = up
    BY DEF Command, Submit, CancelIdle, CancelRunning, Approve, Revise, Reject, Resume,
       Progress, Skip, StartAsk, StartBuild, StartResume, StartThrows, Due, ModelFails, RunThrows,
       ModelReturnsLate, Answered, PlanUnusable, Planned, CheckpointReturns, LoopReturns, TurnCallsTools,
       ToolReturns, ChecksPass, ChecksFail, ChecksReturnLate, ReviewPasses, ReviewWantsChanges, CommitReturns
  <1>3. ASSUME NEW u \in Task \ {t}
        PROVE  /\ state'[u] = state[u] /\ pc'[u] = pc[u] /\ live'[u] = live[u]
               /\ unverified'[u] = unverified[u] /\ changed'[u] = changed[u]
    <2>1. Inv1
      BY DEF IInv
    <2>2. RunKept(u) /\ changed'[u] = changed[u] /\ unverified'[u] = unverified[u]
      BY <2>1, OthersKept
    <2> QED BY <2>2 DEF RunKept
  <1> QED BY <1>1, <1>2, <1>3

\* What the chain does.
LEMMA ChainMoves ==
  ASSUME Inv1, NEW t \in Task, Moved(t)
  PROVE  Joins(t) \/ Departs(t) \/ Waits(t)
  <1>1. CASE Joined(t)
    BY <1>1 DEF Joined
  <1>2. CASE Dismissed(t)
    BY <1>2 DEF Dismissed, Idle, Waits, Initial
  <1>3. CASE Dropped(t)
    BY <1>3 DEF Dropped
  <1>4. CASE Begun(t)
    BY <1>4 DEF Begun, Waits
  <1>5. CASE Aborted(t)
    BY <1>5 DEF Aborted, Waits
  <1>6. CASE (Decided(t) \/ Worked(t)) /\ Onward(t)
    BY <1>6 DEF Onward, Waits
  <1>7. CASE (Decided(t) \/ Worked(t)) /\ Leave(t)
    <2>1. Running(t)
      BY <1>7 DEF Decided, Worked
    <2>2. queue[SessionOf[t]] # <<>> /\ Head(queue[SessionOf[t]]).task = t
      BY <2>1 DEF Inv1, OneRunPerSession
    <2> QED BY <1>7, <2>2 DEF Leave, Departs
  <1> QED BY <1>1, <1>2, <1>3, <1>4, <1>5, <1>6, <1>7 DEF Moved, Decided, Worked, Ended

\* A run that leaves takes its Live entry with it.
LEMMA LeaveGone ==
  ASSUME TypeOK, NEW t \in Task, Leave(t)
  PROVE  ~Running(t)' /\ live'[t] = NoRun /\ live'[t].aborted = FALSE
  BY DEF Leave, TypeOK, NoRun, Started

\* The part of OnceInv about the task itself.
LEMMA TaskOnce ==
  ASSUME IInv, OnceInv, NEW t \in Task, Moved(t)
  PROVE  OnceOK(t)'
  <1>1. TypeOK /\ OnceOK(t)
    BY DEF IInv, Inv1, OnceInv
  <1>2. unverified'[t] => changed'[t]
    <2>1. Kept(t) \/ Edited(t) \/ Verified(t)
      BY DEF Moved, Joined, Dismissed, Dropped, Idle, Begun, Aborted, Decided, Worked
    <2> QED BY <1>1, <2>1 DEF OnceOK, Kept, Edited, Verified
  <1>3. /\ Running(t)' => live'[t].entry \in {Initial, "INTERRUPTED"}
        /\ ~Running(t)' => ~live'[t].aborted
    <2>1. CASE Idle(t)
      BY <1>1, <2>1 DEF Idle, OnceOK
    <2>2. CASE Begun(t)
      BY <2>2 DEF Begun
    <2>3. CASE Aborted(t)
      BY <1>1, <2>3 DEF Aborted, OnceOK
    <2>4. CASE Running(t) /\ Onward(t)
      BY <1>1, <2>4 DEF Onward, OnceOK
    <2>5. CASE Leave(t)
      BY <1>1, <2>5, LeaveGone
    <2>6. Decided(t) \/ Worked(t) => (Running(t) /\ Onward(t)) \/ Leave(t)
      BY DEF Decided, Worked, Ended
    <2> QED BY <2>1, <2>2, <2>3, <2>4, <2>5, <2>6 DEF Moved, Joined, Dismissed, Dropped
  <1> QED BY <1>2, <1>3 DEF OnceOK

\* OnceInv is inductive as long as a task is resumed once at a time.
LEMMA NextOnce == IInv /\ OnceInv /\ [Next]_vars /\ [ResumesOnce]_vars => OnceInv'
  <1> SUFFICES ASSUME IInv, OnceInv, [Next]_vars, [ResumesOnce]_vars PROVE OnceInv'
    OBVIOUS
  <1>0. Inv1 /\ TypeOK
    BY DEF IInv, Inv1
  <1>1. ASSUME NEW t \in Task, Command(t) \/ Progress(t), ResumesOnce
        PROVE  OnceInv'
    <2>1. /\ Moved(t)
          /\ \A u \in Task \ {t} : /\ state'[u] = state[u] /\ pc'[u] = pc[u] /\ live'[u] = live[u]
                                   /\ unverified'[u] = unverified[u] /\ changed'[u] = changed[u]
      BY <1>1, StepMoves
    <2>2. JobsOnce' /\ ResumesFit'
      <3>1. Joins(t) \/ Departs(t) \/ Waits(t)
        BY <1>0, <2>1, ChainMoves
      <3>2. (JobsOnce /\ ResumesFit)'
        BY <2>1, <3>1, QueueOnce
      <3> QED BY <3>2
    <2>3. OnceOK(t)'
      BY <2>1, TaskOnce
    <2>4. ASSUME NEW u \in Task \ {t} PROVE OnceOK(u)'
      BY <2>1, <2>4 DEF OnceInv, OnceOK
    <2> QED BY <2>2, <2>3, <2>4 DEF OnceInv
  <1>2. ASSUME NEW t \in Task, TopicExpires(t) \/ Stream(t)
        PROVE  OnceInv'
    <2>1. UNCHANGED <<state, queue, pc, live, unverified, changed>>
      BY <1>2 DEF TopicExpires, Stream, db
    <2> QED BY <2>1 DEF OnceInv, JobsOnce, ResumesFit, OnceOK
  <1>3. CASE UNCHANGED vars
    <2>1. UNCHANGED <<state, queue, pc, live, unverified, changed>>
      BY <1>3 DEF vars, db, mem
    <2> QED BY <2>1 DEF OnceInv, JobsOnce, ResumesFit, OnceOK
  <1>4. CASE Crash
    <2>1. /\ \A s \in Session : queue'[s] = <<>>
          /\ \A t \in Task : pc'[t] = "idle" /\ live'[t] = NoRun
          /\ UNCHANGED <<unverified, changed>>
      BY <1>4 DEF Crash, db
    <2>2. \A s \in Session : Len(queue'[s]) = 0
      BY <2>1
    <2>3. JobsOnce' /\ ResumesFit'
      BY <2>2 DEF JobsOnce, ResumesFit
    <2>4. NoRun.aborted = FALSE
      BY DEF NoRun, Started
    <2>5. \A t \in Task : OnceOK(t)'
      BY <2>1, <2>4 DEF OnceInv, OnceOK
    <2> QED BY <2>3, <2>5 DEF OnceInv
  <1>5. CASE Recover
    <2>1. /\ UNCHANGED <<queue, pc, live, unverified, changed>>
          /\ \A t \in Task : state[t] = "INTERRUPTED" => state'[t] = "INTERRUPTED"
      BY <1>5 DEF Recover, Left
    <2>2. JobsOnce' /\ \A t \in Task : OnceOK(t)'
      BY <2>1 DEF OnceInv, JobsOnce, OnceOK
    <2>3. ASSUME NEW s \in Session, NEW i \in 1..Len(queue[s]), queue[s][i].job = "resume"
          PROVE  pc'[queue[s][i].task] # "idle" \/ state'[queue[s][i].task] = "INTERRUPTED"
      <3>1. Running(queue[s][i].task) \/ state[queue[s][i].task] = "INTERRUPTED"
        BY <2>3 DEF OnceInv, ResumesFit
      <3>2. queue[s][i].task \in Task
        BY <1>0, JobTask
      <3> QED BY <2>1, <3>1, <3>2
    <2> QED BY <2>1, <2>2, <2>3 DEF OnceInv, ResumesFit
  <1> QED BY <1>1, <1>2, <1>3, <1>4, <1>5 DEF Next

LEMMA InitOnce == Init => OnceInv
  <1> SUFFICES ASSUME Init PROVE OnceInv
    OBVIOUS
  <1>1. \A s \in Session : Len(queue[s]) = 0
    BY DEF Init
  <1>2. NoRun.aborted = FALSE
    BY DEF NoRun, Started
  <1> QED BY <1>1, <1>2 DEF Init, OnceInv, JobsOnce, ResumesFit, OnceOK

\* It holds in every such behaviour.
LEMMA OnceInvHolds == Spec /\ [][ResumesOnce]_vars => []OnceInv
  <1>1. Init => OnceInv
    BY InitOnce
  <1>2. IInv /\ OnceInv /\ [Next]_vars /\ [ResumesOnce]_vars => OnceInv'
    BY NextOnce
  <1> QED BY <1>1, <1>2, IInvHolds, PTL DEF Spec

-----------------------------------------------------------------------------
(* TaskService implements TaskLifecycle                                     *)

\* The phase of a task that rests or waits follows from its state.
LEMMA AtRestSeenNext ==
  (\A t \in Task :
     /\ state[t] = "ABSENT" => PhaseOf(t) = "absent"
     /\ state[t] = "COMPLETE" => PhaseOf(t) = "complete"
     /\ state[t] = "CANCELLED" => PhaseOf(t) = "cancelled"
     /\ state[t] = "NEEDS_USER" => PhaseOf(t) = "parked"
     /\ state[t] = "INTERRUPTED" => PhaseOf(t) = "interrupted"
     /\ up /\ state[t] = Initial => PhaseOf(t) = "queued")'
  BY AtRestSeen, PTL

\* And the phase of a task with a run.
LEMMA AtWorkSeenNext ==
  (IInv /\ OnceInv =>
     \A t \in Task : Running(t) =>
       /\ PhaseOf(t) = IF pc[t] = "approval" THEN "deciding" ELSE "working"
       /\ up /\ state[t] \notin Resting /\ (pc[t] = "approval" => ~live[t].aborted))'
  BY AtWorkSeen, PTL

\* The steps of a task map to steps of the lifecycle, or to none.
LEMMA WorkMaps ==
  ASSUME IInv, OnceInv, IInv', OnceInv', NEW t \in Task, Worked(t), Apart(t), up, up',
         Command(t) \/ Progress(t)
  PROVE  Lifecycle!Next \/ UNCHANGED Lifecycle!vars
  <1>0. /\ Running(t) /\ TypeOK /\ live[t].aborted \in BOOLEAN /\ live'[t].aborted \in BOOLEAN
        /\ unverified[t] \in BOOLEAN /\ unverified'[t] \in BOOLEAN
    BY DEF IInv, Inv1, TypeOK, Live, Worked
  <1>1. PhaseOf(t) = "working" /\ state[t] \notin Resting
    BY <1>0, AtWorkSeen DEF Worked
  <1>2. CASE Onward(t)
    <2>1. PhaseOf(t)' = IF pc'[t] = "approval" THEN "deciding" ELSE "working"
      BY <1>2, AtWorkSeenNext DEF Onward
    <2>2. live'[t].aborted = live[t].aborted /\ pc'[t] # "idle"
      BY <1>2 DEF Onward
    <2>3. CASE pc'[t] = "approval"
      <3>1. live'[t].aborted = FALSE
        BY <1>0, <2>3, AtWorkSeenNext
      <3>2. unverified'[t] = unverified[t]
        BY <2>3 DEF Worked, Kept, Edited, Verified
      <3> QED BY <1>1, <2>1, <2>2, <2>3, <3>1, <3>2, SeenAsk
    <2>4. CASE pc'[t] # "approval" /\ Kept(t)
      <3>1. PhaseOf(t)' = PhaseOf(t) /\ unverified'[t] = unverified[t]
        BY <1>1, <2>1, <2>4 DEF Kept
      <3> QED BY <2>2, <3>1, NothingSeen DEF Apart
    <2>5. CASE pc'[t] # "approval" /\ Edited(t)
      <3>1. live[t].aborted = FALSE /\ unverified'[t] = TRUE
        BY <1>0, <2>5 DEF Edited
      <3> QED BY <1>1, <2>1, <2>2, <2>5, <3>1, SeenEdit
    <2>6. CASE pc'[t] # "approval" /\ Verified(t)
      <3>1. live[t].aborted = FALSE /\ unverified'[t] = FALSE
        BY <1>0, <2>6 DEF Verified
      <3> QED BY <1>1, <2>1, <2>2, <2>6, <3>1, SeenCheck
    <2> QED BY <2>3, <2>4, <2>5, <2>6 DEF Worked
  <1>3. CASE Ended(t) /\ pc'[t] = "idle"
    <2>1. live'[t].aborted = FALSE /\ ~Running(t)'
      BY <1>0, <1>3, LeaveGone DEF Ended
    <2>2. unverified'[t] = unverified[t] \/ (unverified'[t] = TRUE /\ Edited(t) /\ state'[t] = "NEEDS_USER")
      <3>1. CASE Verified(t)
        <4>1. ~unverified[t]
          BY <1>3, <3>1 DEF Verified, OnceInv, OnceOK
        <4> QED BY <1>0, <3>1, <4>1 DEF Verified
      <3> QED BY <1>3, <3>1 DEF Worked, Kept, Edited
    <2>3. CASE live[t].aborted = TRUE
      <3>1. state'[t] = "CANCELLED"
        BY <1>0, <1>1, <2>1, <2>3, AbortedStep DEF Resting
      <3>2. unverified'[t] = unverified[t]
        BY <2>2, <2>3 DEF Edited
      <3> QED BY <1>1, <2>1, <3>1, <3>2, AtRestSeenNext, SeenCancel
    <2>4. CASE live[t].aborted = FALSE
      <3>1. CASE state'[t] = "CANCELLED"
        <4>1. unverified'[t] = unverified[t]
          BY <2>2, <3>1
        <4> QED BY <1>1, <2>1, <3>1, <4>1, AtRestSeenNext, SeenCancel
      <3>2. CASE state'[t] = "NEEDS_USER"
        <4>1. unverified'[t] = unverified[t] \/ (PhaseOf(t) = "working" /\ unverified'[t] = TRUE)
          BY <1>1, <2>2
        <4> QED BY <1>1, <2>1, <2>4, <3>2, <4>1, AtRestSeenNext, SeenPark
      <3>3. CASE state'[t] = "COMPLETE"
        <4>1. unverified'[t] = unverified[t]
          BY <2>2, <3>3
        <4>2. state[t] # "COMPLETE"
          BY <1>1 DEF Resting, Terminal
        <4>3. ~unverified'[t]
          BY <3>3, <4>2, CompletingStep
        <4>4. unverified[t] = FALSE
          BY <1>0, <4>1, <4>3
        <4> QED BY <1>1, <2>1, <2>4, <3>3, <4>1, <4>4, AtRestSeenNext, SeenComplete
      <3> QED BY <1>3, <3>1, <3>2, <3>3 DEF Ended
    <2> QED BY <1>0, <2>3, <2>4
  <1> QED BY <1>2, <1>3 DEF Worked

\* So do the user's commands and the first steps of a job.
LEMMA OtherMaps ==
  ASSUME IInv, OnceInv, IInv', OnceInv', NEW t \in Task, Moved(t), ~Worked(t), Apart(t), up, up'
  PROVE  Lifecycle!Next \/ UNCHANGED Lifecycle!vars
  <1>0. /\ TypeOK /\ live[t].aborted \in BOOLEAN /\ live'[t].aborted \in BOOLEAN /\ OnceOK(t)
    BY DEF IInv, Inv1, TypeOK, Live, OnceInv
  <1>1. ASSUME state'[t] = state[t]
        PROVE  PhaseOf(t)' = PhaseOf(t)
    BY <1>1, RowSeen
  <1>2. ASSUME Idle(t)
        PROVE  /\ live[t].aborted = FALSE /\ live'[t].aborted = FALSE /\ live'[t].aborted = live[t].aborted
               /\ unverified'[t] = unverified[t]
    BY <1>0, <1>2 DEF Idle, Kept, OnceOK
  <1>3. ASSUME Idle(t), state'[t] = state[t]
        PROVE  UNCHANGED Lifecycle!vars
    <2>1. PhaseOf(t)' = PhaseOf(t) /\ live'[t].aborted = live[t].aborted /\ unverified'[t] = unverified[t]
      BY <1>1, <1>2, <1>3
    <2> QED BY <2>1, NothingSeen DEF Apart
  <1>4. CASE Joined(t)
    <2>1. ASSUME state[t] = "ABSENT", state'[t] = Initial
          PROVE  Lifecycle!Next
      <3>1. PhaseOf(t) = "absent" /\ PhaseOf(t)' = "queued"
        BY <2>1, AtRestSeen, AtRestSeenNext
      <3> QED BY <1>2, <1>4, <3>1, SeenSubmit DEF Joined
    <2> QED BY <1>3, <1>4, <2>1 DEF Joined
  <1>5. CASE Dismissed(t)
    <2>1. ASSUME state[t] \in {Initial, "NEEDS_USER"}, state'[t] = "CANCELLED"
          PROVE  Lifecycle!Next
      <3>1. PhaseOf(t) \in {"queued", "parked"} /\ PhaseOf(t)' = "cancelled"
        BY <2>1, AtRestSeen, AtRestSeenNext
      <3> QED BY <1>2, <1>5, <3>1, SeenCancel DEF Dismissed
    <2> QED BY <1>3, <1>5, <2>1 DEF Dismissed
  <1>6. CASE Dropped(t)
    <2>1. ASSUME state[t] \in {Initial, "INTERRUPTED"}, state'[t] = "NEEDS_USER"
          PROVE  Lifecycle!Next
      <3>1. PhaseOf(t) \in {"queued", "interrupted"} /\ PhaseOf(t)' = "parked"
        BY <2>1, AtRestSeen, AtRestSeenNext
      <3> QED BY <1>2, <1>6, <3>1, SeenPark DEF Dropped
    <2> QED BY <1>3, <1>6, <2>1 DEF Dropped
  <1>7. CASE Begun(t)
    <2>1. ASSUME NEW u \in Task \ {t}, SessionOf[u] = SessionOf[t]
          PROVE  PhaseOf(u) \notin {"working", "deciding"}
      <3>1. ~Running(u)
        BY <1>7, <2>1 DEF Begun, IInv, Inv1, OneRunPerSession
      <3> QED BY <3>1, IdleSeen
    <2>2. PhaseOf(t) \in {"queued", "interrupted"}
      BY <1>7, AtRestSeen DEF Begun
    <2>3. PhaseOf(t)' = "working"
      BY <1>7, AtWorkSeenNext DEF Begun
    <2>4. live'[t].aborted = live[t].aborted /\ unverified'[t] = unverified[t]
      BY <1>0, <1>7 DEF Begun, Kept, OnceOK
    <2> QED BY <2>1, <2>2, <2>3, <2>4, SeenBegin
  <1>8. CASE Aborted(t)
    <2>1. PhaseOf(t) = "working"
      BY <1>8, AtWorkSeen DEF Aborted
    <2>2. PhaseOf(t)' = "working"
      BY <1>1, <1>8, <2>1 DEF Aborted
    <2> QED BY <1>8, <2>1, <2>2, SeenRequestCancel DEF Aborted, Kept
  <1>9. CASE Decided(t)
    <2>1. PhaseOf(t) = "deciding" /\ unverified'[t] = unverified[t]
      BY <1>9, AtWorkSeen DEF Decided, Kept
    <2>2. CASE Onward(t) /\ pc'[t] # "approval"
      <3>1. PhaseOf(t)' = "working"
        BY <2>2, AtWorkSeenNext DEF Onward
      <3> QED BY <2>1, <2>2, <3>1, SeenDecide DEF Onward
    <2>3. CASE Leave(t) /\ state'[t] = "CANCELLED"
      <3>1. PhaseOf(t)' = "cancelled" /\ live'[t].aborted = FALSE
        BY <1>0, <2>3, AtRestSeenNext, LeaveGone
      <3> QED BY <2>1, <3>1, SeenCancel
    <2> QED BY <1>9, <2>2, <2>3 DEF Decided
  <1> QED BY <1>4, <1>5, <1>6, <1>7, <1>8, <1>9 DEF Moved

\* Every step is a step of the lifecycle or is not seen.
LEMMA StepMaps ==
  IInv /\ OnceInv /\ IInv' /\ OnceInv' /\ [Next]_vars /\ [ResumesOnce]_vars =>
    [Lifecycle!Next]_(Lifecycle!vars)
  <1> SUFFICES ASSUME IInv, OnceInv, IInv', OnceInv', [Next]_vars, [ResumesOnce]_vars
               PROVE  Lifecycle!Next \/ UNCHANGED Lifecycle!vars
    OBVIOUS
  <1>1. ASSUME NEW t \in Task, Command(t) \/ Progress(t), ResumesOnce
        PROVE  Lifecycle!Next \/ UNCHANGED Lifecycle!vars
    <2>1. /\ Moved(t) /\ up /\ up' = up
          /\ \A u \in Task \ {t} : /\ state'[u] = state[u] /\ pc'[u] = pc[u] /\ live'[u] = live[u]
                                   /\ unverified'[u] = unverified[u] /\ changed'[u] = changed[u]
      BY <1>1, StepMoves
    <2>2. Apart(t)
      BY <2>1, RowSeen DEF Apart
    <2>3. up'
      BY <2>1
    <2> QED BY <1>1, <2>1, <2>2, <2>3, WorkMaps, OtherMaps
  <1>2. ASSUME UNCHANGED <<state, up, live, unverified>>
        PROVE  UNCHANGED Lifecycle!vars
    <2>1. \A u \in Task : PhaseOf(u)' = PhaseOf(u)
      BY <1>2, RowSeen
    <2> QED BY <1>2, <2>1, NothingSeen
  <1>3. ASSUME NEW t \in Task, TopicExpires(t) \/ Stream(t)
        PROVE  UNCHANGED Lifecycle!vars
    BY <1>2, <1>3 DEF TopicExpires, Stream, db
  <1>4. CASE UNCHANGED vars
    BY <1>2, <1>4 DEF vars, db, mem
  <1>5. CASE Crash
    <2>1. /\ up /\ ~up' /\ UNCHANGED <<state, unverified>>
          /\ \A u \in Task : live'[u].aborted = FALSE
      BY <1>5 DEF Crash, db, NoRun, Started
    <2>2. \A u \in Task : PhaseOf(u)' = IF PhaseOf(u) \in {"working", "deciding", "queued"}
                                        THEN "interrupted" ELSE PhaseOf(u)
      BY <2>1 DEF PhaseOf, Left, Terminal, Initial
    <2> QED BY <2>1, <2>2, SeenExit
  <1>6. CASE Recover
    <2>1. /\ ~up /\ up' /\ UNCHANGED <<live, unverified>>
          /\ state' = [t \in Task |-> IF Left(t) THEN After(t, state[t], "process_exit") ELSE state[t]]
      BY <1>6 DEF Recover
    <2>2. ASSUME NEW u \in Task
          PROVE  PhaseOf(u)' = PhaseOf(u)
      <3>1. CASE Left(u)
        <4>1. state'[u] = "INTERRUPTED"
          BY <2>1, <3>1 DEF Left, After, Transition
        <4>2. PhaseOf(u)' = "interrupted"
          BY <4>1, AtRestSeenNext
        <4>3. PhaseOf(u) = "interrupted"
          BY <2>1, <3>1 DEF PhaseOf, Left, Terminal
        <4> QED BY <4>2, <4>3
      <3>2. CASE ~Left(u)
        <4>1. state'[u] = state[u] /\ state[u] \in {"COMPLETE", "CANCELLED", "ABSENT", "INTERRUPTED", "NEEDS_USER"}
          BY <2>1, <3>2 DEF Left, Terminal
        <4> QED BY <4>1, AtRestSeen, AtRestSeenNext
      <3> QED BY <3>1, <3>2
    <2>3. UNCHANGED Lifecycle!vars
      BY <2>1, <2>2, NothingSeen
    <2> QED BY <2>3
  <1> QED BY <1>1, <1>3, <1>4, <1>5, <1>6 DEF Next

LEMMA InitMaps == Init => Lifecycle!Init
  <1> SUFFICES ASSUME Init PROVE Lifecycle!Init
    OBVIOUS
  <1>1. \A t \in Task : PhaseOf(t) = "absent"
    BY AtRestSeen DEF Init
  <1>2. \A t \in Task : live[t].aborted = FALSE /\ unverified[t] = FALSE
    BY DEF Init, NoRun, Started
  <1> QED BY <1>1, <1>2 DEF Lifecycle!Init

\* The task service keeps the promises of TaskLifecycle (ImplementsLifecycle)
\* to every user who does not resume a task while a job of it waits, for every
\* number of tasks and sessions and every budget.  The condition is needed:
\* resume() checks for INTERRUPTED when it is called, and runFromValidate does
\* not check again when the job runs.
THEOREM LifecycleKept == Spec /\ [][ResumesOnce]_vars => ImplementsLifecycle
  <1>1. Init => Lifecycle!Init
    BY InitMaps
  <1>2. IInv /\ OnceInv /\ IInv' /\ OnceInv' /\ [Next]_vars /\ [ResumesOnce]_vars =>
          [Lifecycle!Next]_(Lifecycle!vars)
    BY StepMaps
  <1>3. Spec /\ [][ResumesOnce]_vars => []OnceInv
    BY OnceInvHolds
  <1> QED BY <1>1, <1>2, <1>3, IInvHolds, PTL DEF Spec, ImplementsLifecycle, Lifecycle!Spec

\* In particular when at most one job of a task may wait, as in the instance
\* TLC checks: resume() finds no job of its task in the chain.
THEOREM ImplementsLifecycleHolds ==
  ASSUME MaxResumes <= 1
  PROVE  Spec => ImplementsLifecycle
  <1>1. IInv /\ [Next]_vars => [ResumesOnce]_vars
    <2> SUFFICES ASSUME IInv, NEW t \in Task, Resume(t) PROVE JobsOf(t) = {}
      BY DEF ResumesOnce
    <2>1. Inv1 /\ Cardinality(JobsOf(t)) < MaxResumes
      BY DEF IInv, Resume
    <2> QED BY <2>1, NoneWaits
  <1>2. Spec => [][ResumesOnce]_vars
    BY <1>1, IInvHolds, PTL DEF Spec
  <1> QED BY <1>2, LifecycleKept, PTL
====
