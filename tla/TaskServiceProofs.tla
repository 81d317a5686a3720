---- MODULE TaskServiceProofs ----
(***************************************************************************)
(* Types, chains and runs of TaskService: the part of the inductive        *)
(* invariant that needs nothing of the pipeline.  RunInv is the part of it *)
(* that runs and queues decide; each step of a run either goes on to its   *)
(* next await (AwaitRunInv) or leaves its chain (LeaveRunInv).             *)
(***************************************************************************)
EXTENDS TaskInvariant, SequenceTheorems, TLAPS

\* transition() of the state machine always yields a task state.
LEMMA TransitionType ==
  ASSUME NEW s \in TaskState, NEW e, NEW mode, NEW attempts
  PROVE  Transition(s, e, mode, attempts) \in TaskState
  BY DEF Transition, TaskState, Initial, Working, Resting, Terminal

\* apply() leaves a task in a task state, whatever the event.
LEMMA AfterType ==
  ASSUME NEW t, NEW s \in TaskState, NEW e
  PROVE  After(t, s, e) \in TaskState
  BY TransitionType DEF After

\* No task, no job and no run: the first part of the invariant holds.
LEMMA InitInv1 == Init => Inv1
  <1> SUFFICES ASSUME Init PROVE Inv1
    OBVIOUS
  <1>1. TypeOK
    BY SessionAssumption DEF Init, TypeOK, NoRun, Started, Live, TaskState, Jobs, PC
  <1>2. QueuesOK
    BY DEF Init, QueuesOK
  <1>3. OneRunPerSession
    BY DEF Init, OneRunPerSession, Running
  <1>4. RunsOK
    BY DEF Init, RunsOK, Running
  <1> QED BY <1>1, <1>2, <1>3, <1>4 DEF Inv1

\* Taking the head off the chain of session s.
LEMMA TailQueue ==
  ASSUME TypeOK, NEW s \in Session, queue[s] # <<>>,
         queue' = [queue EXCEPT ![s] = Tail(@)]
  PROVE  /\ queue' \in [Session -> Seq(Jobs)]
         /\ \A r \in Session : r # s => queue'[r] = queue[r]
         /\ \A r \in Session : \A i \in 1..Len(queue'[r]) :
              \E j \in 1..Len(queue[r]) : queue'[r][i] = queue[r][j]
  <1>1. queue[s] \in Seq(Jobs)
    BY DEF TypeOK
  <1>2. /\ Tail(queue[s]) \in Seq(Jobs)
        /\ Len(Tail(queue[s])) = Len(queue[s]) - 1
        /\ \A i \in 1..Len(Tail(queue[s])) : Tail(queue[s])[i] = queue[s][i + 1]
    BY <1>1, HeadTailProperties
  <1>3. Len(queue[s]) \in Nat
    BY <1>1, LenProperties
  <1>4. queue' \in [Session -> Seq(Jobs)]
    BY <1>2 DEF TypeOK
  <1>5. \A r \in Session : queue'[r] = IF r = s THEN Tail(queue[s]) ELSE queue[r]
    BY DEF TypeOK
  <1>6. ASSUME NEW r \in Session, NEW i \in 1..Len(queue'[r])
        PROVE  \E j \in 1..Len(queue[r]) : queue'[r][i] = queue[r][j]
    <2>1. CASE r = s
      <3>1. queue'[r] = Tail(queue[s])
        BY <1>5, <2>1
      <3>2. i \in 1..(Len(queue[s]) - 1)
        BY <1>2, <1>6, <3>1
      <3>3. i + 1 \in 1..Len(queue[s])
        BY <1>3, <3>2
      <3>4. queue'[r][i] = queue[s][i + 1]
        BY <1>2, <1>6, <3>1
      <3> QED BY <2>1, <3>3, <3>4
    <2>2. CASE r # s
      BY <1>5, <1>6, <2>2
    <2> QED BY <2>1, <2>2
  <1> QED BY <1>4, <1>5, <1>6

\* Adding a job of t to the chain of its session.
LEMMA AppendQueue ==
  ASSUME TypeOK, NEW t \in Task, NEW job \in {"run", "resume"},
         queue' = [queue EXCEPT ![SessionOf[t]] = Append(@, [task |-> t, job |-> job])]
  PROVE  /\ queue' \in [Session -> Seq(Jobs)]
         /\ \A r \in Session : \A i \in 1..Len(queue'[r]) :
              \/ i \in 1..Len(queue[r]) /\ queue'[r][i] = queue[r][i]
              \/ r = SessionOf[t] /\ queue'[r][i] = [task |-> t, job |-> job]
         /\ \A r \in Session : queue[r] # <<>> =>
              queue'[r] # <<>> /\ Head(queue'[r]) = Head(queue[r])
  <1> DEFINE s == SessionOf[t]
             j == [task |-> t, job |-> job]
  <1>1. s \in Session /\ j \in Jobs
    BY SessionAssumption DEF Jobs
  <1>2. queue[s] \in Seq(Jobs)
    BY <1>1 DEF TypeOK
  <1>3. /\ Append(queue[s], j) \in Seq(Jobs)
        /\ Append(queue[s], j) # <<>>
        /\ Len(Append(queue[s], j)) = Len(queue[s]) + 1
        /\ \A i \in 1..Len(queue[s]) : Append(queue[s], j)[i] = queue[s][i]
        /\ Append(queue[s], j)[Len(queue[s]) + 1] = j
    BY <1>1, <1>2, AppendProperties
  <1>4. Len(queue[s]) \in Nat
    BY <1>2, LenProperties
  <1>5. queue' \in [Session -> Seq(Jobs)]
    BY <1>1, <1>3 DEF TypeOK
  <1>6. \A r \in Session : queue'[r] = IF r = s THEN Append(queue[s], j) ELSE queue[r]
    BY <1>1 DEF TypeOK
  <1>7. ASSUME NEW r \in Session, NEW i \in 1..Len(queue'[r])
        PROVE  \/ i \in 1..Len(queue[r]) /\ queue'[r][i] = queue[r][i]
               \/ r = s /\ queue'[r][i] = j
    BY <1>3, <1>4, <1>6, <1>7
  <1>8. ASSUME NEW r \in Session, queue[r] # <<>>
        PROVE  queue'[r] # <<>> /\ Head(queue'[r]) = Head(queue[r])
    <2>1. CASE r = s
      <3>1. queue'[r] = Append(queue[s], j)
        BY <1>6, <2>1
      <3>2. 1 \in 1..Len(queue[s])
        BY <1>2, <1>8, <2>1, EmptySeq
      <3>3. Append(queue[s], j)[1] = queue[s][1]
        BY <1>3, <3>2
      <3> QED BY <1>3, <2>1, <3>1, <3>3, <1>2
    <2>2. CASE r # s
      BY <1>6, <1>8, <2>2
    <2> QED BY <2>1, <2>2
  <1> QED BY <1>5, <1>7, <1>8

\* TypeOK in two parts: what the steps of a run set through Await and Settle,
\* and the rest.
RunTypes ==
  /\ state \in [Task -> TaskState \cup {"ABSENT"}]
  /\ queue \in [Session -> Seq(Jobs)]
  /\ pc \in [Task -> PC]
  /\ loop \in [Task -> {"execute", "repair", "review"}]
  /\ pending \in [Task -> Nat]
  /\ live \in [Task -> Live]
  /\ topic \in [Task -> {"absent", "open", "closed"}]

RowTypes ==
  /\ request \in [Task -> Requests \cup {NoRequest}]
  /\ usage \in [Task -> Nat]
  /\ cost \in [Task -> Nat]
  /\ checkpoint \in [Task -> {"none", "unavailable", "taken", "committed"}]
  /\ changed \in [Task -> BOOLEAN]
  /\ unverified \in [Task -> BOOLEAN]
  /\ gate \in [Task -> {"shut", "skipped", "auto", "approved"}]
  /\ up \in BOOLEAN
  /\ crashes \in Nat

\* The type invariant in two parts: what runs change, what rows hold.
LEMMA TypeParts == TypeOK <=> RunTypes /\ RowTypes
  BY DEF TypeOK, RunTypes, RowTypes

\* The parts of Inv1 that the steps of a run can disturb.
RunInv == RunTypes /\ QueuesOK /\ OneRunPerSession /\ RunsOK

\* A task's job belongs to the task it names, in the chain of its session.
LEMMA JobTask ==
  ASSUME TypeOK, NEW r \in Session, NEW i \in 1..Len(queue[r])
  PROVE  queue[r][i] \in Jobs /\ queue[r][i].task \in Task
  <1>1. queue[r] \in Seq(Jobs)
    BY DEF TypeOK
  <1>2. queue[r][i] \in Jobs
    BY <1>1, ElementOfSeq
  <1> QED BY <1>2 DEF Jobs

\* The Live entry of a task without a run is well typed.
LEMMA NoRunType == NoRun \in Live
  BY DEF NoRun, Started, Live

\* start() makes a well-typed Live entry.
LEMMA StartedType ==
  ASSUME NEW s \in TaskState
  PROVE  Started(s) \in Live /\ Started(s).entry = s
  BY DEF Started, Live

\* A run that ends leaves its session's chain to the next job.
LEMMA LeaveRunInv ==
  ASSUME Inv1, NEW t \in Task, Running(t), NEW x \in TaskState,
         state' = [state EXCEPT ![t] = x], Leave(t), request' = request,
         topic' \in [Task -> {"absent", "open", "closed"}]
  PROVE  RunInv'
  <1> USE DEF Inv1
  <1>0. SessionOf[t] \in Session /\ queue[SessionOf[t]] # <<>>
    BY SessionAssumption DEF OneRunPerSession
  <1>1. /\ queue' \in [Session -> Seq(Jobs)]
        /\ \A r \in Session : r # SessionOf[t] => queue'[r] = queue[r]
        /\ \A r \in Session : \A i \in 1..Len(queue'[r]) :
             \E j \in 1..Len(queue[r]) : queue'[r][i] = queue[r][j]
    BY <1>0, TailQueue DEF Leave
  <1>2. RunTypes'
    BY <1>1, NoRunType DEF RunTypes, TypeOK, Leave, PC
  <1>3. \A u \in Task : state[u] # "ABSENT" => state'[u] # "ABSENT"
    BY DEF TypeOK, TaskState, Initial, Working, Resting, Terminal
  <1>4. QueuesOK'
    <2> SUFFICES ASSUME NEW s \in Session, NEW i \in 1..Len(queue'[s])
                 PROVE  /\ SessionOf[queue'[s][i].task] = s
                        /\ state'[queue'[s][i].task] # "ABSENT"
      BY DEF QueuesOK
    <2>1. PICK j \in 1..Len(queue[s]) : queue'[s][i] = queue[s][j]
      BY <1>1
    <2>2. queue[s][j].task \in Task
      BY JobTask
    <2> QED BY <1>3, <2>1, <2>2 DEF QueuesOK
  <1>5. \A u \in Task : Running(u)' => Running(u) /\ u # t
    BY DEF Running, Leave, TypeOK
  <1>6. OneRunPerSession'
    <2> SUFFICES ASSUME NEW u \in Task, Running(u)'
                 PROVE  /\ queue'[SessionOf[u]] # <<>>
                        /\ Head(queue'[SessionOf[u]]).task = u
      BY DEF OneRunPerSession
    <2>1. SessionOf[u] # SessionOf[t]
      BY <1>5 DEF OneRunPerSession
    <2>2. SessionOf[u] \in Session
      BY SessionAssumption
    <2> QED BY <1>1, <1>5, <2>1, <2>2 DEF OneRunPerSession
  <1>7. RunsOK'
    BY <1>5 DEF RunsOK, Leave, TypeOK, Running, TaskState, Initial, Working, Resting, Terminal
  <1> QED BY <1>2, <1>4, <1>6, <1>7 DEF RunInv

\* A run goes on, or starts, with its job at the head of the chain.
LEMMA AwaitRunInv ==
  ASSUME Inv1, NEW t \in Task, NEW s \in TaskState, NEW p \in PC,
         NEW l \in Live, l.entry \in TaskState, Await(t, s, p, l),
         state[t] # "ABSENT", queue[SessionOf[t]] # <<>>,
         Head(queue[SessionOf[t]]).task = t, request' = request,
         loop' \in [Task -> {"execute", "repair", "review"}],
         pending' \in [Task -> Nat]
  PROVE  RunInv'
  <1> USE DEF Inv1
  <1>1. RunTypes'
    BY DEF RunTypes, TypeOK, Await, Published
  <1>2. \A u \in Task : state[u] # "ABSENT" => state'[u] # "ABSENT"
    BY DEF Await, TypeOK, TaskState, Initial, Working, Resting, Terminal
  <1>3. QueuesOK'
    <2> SUFFICES ASSUME NEW r \in Session, NEW i \in 1..Len(queue[r])
                 PROVE  /\ SessionOf[queue[r][i].task] = r
                        /\ state'[queue[r][i].task] # "ABSENT"
      BY DEF QueuesOK, Await
    <2>1. queue[r][i].task \in Task
      BY JobTask
    <2> QED BY <1>2, <2>1 DEF QueuesOK
  <1>4. OneRunPerSession'
    BY DEF OneRunPerSession, Await, Running, TypeOK
  <1>5. RunsOK'
    BY <1>2 DEF RunsOK, Await, Running, TypeOK
  <1> QED BY <1>1, <1>3, <1>4, <1>5 DEF RunInv

\* settle() ends a run and keeps the queues and the runs in order.
LEMMA SettleRunInv ==
  ASSUME Inv1, NEW t \in Task, Running(t), NEW s \in TaskState, NEW e,
         Settle(t, s, e), request' = request
  PROVE  RunInv'
  <1> DEFINE ev == IF live[t].aborted THEN "cancel" ELSE e
             ef == IF s = "CHECKPOINT" /\ ev = "answered" THEN "checkpoint_created" ELSE ev
  <1>1. After(t, s, ef) \in TaskState
    BY AfterType
  <1>2. /\ state' = [state EXCEPT ![t] = After(t, s, ef)]
        /\ topic' \in [Task -> {"absent", "open", "closed"}]
        /\ Leave(t)
    BY DEF Settle, Finish, Published, Done, Inv1, TypeOK
  <1> QED BY <1>1, <1>2, LeaveRunInv

\* The same for a step of the run of t: the run is at the head of its chain.
LEMMA StepRunInv ==
  ASSUME Inv1, NEW t \in Task, Running(t), NEW s \in TaskState, NEW p \in PC,
         NEW l \in Live, l.entry \in TaskState, Await(t, s, p, l), request' = request,
         loop' \in [Task -> {"execute", "repair", "review"}],
         pending' \in [Task -> Nat]
  PROVE  RunInv'
  BY AwaitRunInv DEF Inv1, OneRunPerSession, RunsOK

\* A due job is at the head of its chain, and its task was submitted.
LEMMA DueHead ==
  ASSUME Inv1, NEW t \in Task, NEW job, Due(t, job)
  PROVE  /\ queue[SessionOf[t]] # <<>> /\ Head(queue[SessionOf[t]]).task = t
         /\ state[t] \in TaskState /\ SessionOf[t] \in Session
  <1>1. SessionOf[t] \in Session /\ queue[SessionOf[t]] \in Seq(Jobs)
    BY SessionAssumption DEF Inv1, TypeOK
  <1>2. 1 \in 1..Len(queue[SessionOf[t]]) /\ queue[SessionOf[t]][1] = Head(queue[SessionOf[t]])
    BY <1>1, EmptySeq DEF Due
  <1>3. Head(queue[SessionOf[t]]).task = t
    BY DEF Due
  <1> QED BY <1>1, <1>2, <1>3 DEF Due, Inv1, QueuesOK, TypeOK

\* A job that ends before its run awaits anything leaves the chain.
LEMMA DropRunInv ==
  ASSUME Inv1, NEW t \in Task, NEW job, Due(t, job), NEW x \in TaskState,
         state' = [state EXCEPT ![t] = x],
         queue' = [queue EXCEPT ![SessionOf[t]] = Tail(@)],
         topic' \in [Task -> {"absent", "open", "closed"}],
         UNCHANGED <<request, pc, loop, pending, live>>
  PROVE  RunInv'
  <1> USE DEF Inv1
  <1>0. SessionOf[t] \in Session /\ queue[SessionOf[t]] # <<>>
    BY DueHead
  <1>1. /\ queue' \in [Session -> Seq(Jobs)]
        /\ \A r \in Session : r # SessionOf[t] => queue'[r] = queue[r]
        /\ \A r \in Session : \A i \in 1..Len(queue'[r]) :
             \E j \in 1..Len(queue[r]) : queue'[r][i] = queue[r][j]
    BY <1>0, TailQueue
  <1>2. RunTypes'
    BY <1>1 DEF RunTypes, TypeOK
  <1>3. \A u \in Task : state[u] # "ABSENT" => state'[u] # "ABSENT"
    BY DEF TypeOK, TaskState, Initial, Working, Resting, Terminal
  <1>4. QueuesOK'
    <2> SUFFICES ASSUME NEW s \in Session, NEW i \in 1..Len(queue'[s])
                 PROVE  /\ SessionOf[queue'[s][i].task] = s
                        /\ state'[queue'[s][i].task] # "ABSENT"
      BY DEF QueuesOK
    <2>1. PICK j \in 1..Len(queue[s]) : queue'[s][i] = queue[s][j]
      BY <1>1
    <2>2. queue[s][j].task \in Task
      BY JobTask
    <2> QED BY <1>3, <2>1, <2>2 DEF QueuesOK
  <1>5. OneRunPerSession'
    <2> SUFFICES ASSUME NEW u \in Task, Running(u)
                 PROVE  /\ queue'[SessionOf[u]] # <<>>
                        /\ Head(queue'[SessionOf[u]]).task = u
      BY DEF OneRunPerSession, Running
    <2>1. SessionOf[u] # SessionOf[t] /\ SessionOf[u] \in Session
      BY DueHead, SessionAssumption DEF OneRunPerSession, Due
    <2> QED BY <1>1, <2>1 DEF OneRunPerSession
  <1>6. RunsOK'
    <2>1. state[t] \in TaskState
      BY DueHead
    <2>2. state[t] # "ABSENT"
      BY <2>1 DEF TaskState, Initial, Working, Resting, Terminal
    <2> QED BY <1>3, <2>2 DEF RunsOK, Running, TypeOK
  <1> QED BY <1>2, <1>4, <1>5, <1>6 DEF RunInv

\* The first part of the invariant follows from its run part and the row types.
LEMMA RowsAndRuns ==
  ASSUME RunInv', RowTypes'
  PROVE  Inv1'
  BY DEF Inv1, RunInv, TypeOK, RunTypes, RowTypes

\* A running task's state, Live entry and model-call answer are well typed.
LEMMA RunningTypes ==
  ASSUME Inv1, NEW t \in Task, Running(t)
  PROVE  /\ state[t] \in TaskState
         /\ live[t] \in Live /\ live[t].entry \in TaskState
         /\ request[t] \in Requests
  <1> USE DEF Inv1
  <1>1. state[t] \in TaskState \cup {"ABSENT"} /\ state[t] # "ABSENT"
    BY DEF TypeOK, RunsOK
  <1> QED BY <1>1 DEF TypeOK, RunsOK

\* Live entries stay well typed when a counter grows.
LEMMA LiveGrows ==
  ASSUME NEW l \in Live, l.entry \in TaskState
  PROVE  /\ [l EXCEPT !.modelCalls = @ + 1] \in Live
         /\ [l EXCEPT !.modelCalls = @ + 1].entry \in TaskState
         /\ [l EXCEPT !.toolSteps = @ + 1] \in Live
         /\ [l EXCEPT !.toolSteps = @ + 1].entry \in TaskState
         /\ [l EXCEPT !.reviewRounds = @ + 1] \in Live
         /\ [l EXCEPT !.reviewRounds = @ + 1].entry \in TaskState
         /\ [l EXCEPT !.repairAttempts = @ + 1] \in Live
         /\ [l EXCEPT !.repairAttempts = @ + 1].entry \in TaskState
         /\ \A b \in BOOLEAN : /\ [l EXCEPT !.edited = @ \/ b] \in Live
                              /\ [l EXCEPT !.edited = @ \/ b].entry \in TaskState
         /\ [l EXCEPT !.aborted = TRUE] \in Live
         /\ [l EXCEPT !.aborted = TRUE].entry \in TaskState
  <1> USE DEF Live
  <1>1. /\ [l EXCEPT !.modelCalls = @ + 1] \in Live
        /\ [l EXCEPT !.modelCalls = @ + 1].entry \in TaskState
    OBVIOUS
  <1>2. /\ [l EXCEPT !.toolSteps = @ + 1] \in Live
        /\ [l EXCEPT !.toolSteps = @ + 1].entry \in TaskState
    OBVIOUS
  <1>3. /\ [l EXCEPT !.reviewRounds = @ + 1] \in Live
        /\ [l EXCEPT !.reviewRounds = @ + 1].entry \in TaskState
    OBVIOUS
  <1>4. /\ [l EXCEPT !.repairAttempts = @ + 1] \in Live
        /\ [l EXCEPT !.repairAttempts = @ + 1].entry \in TaskState
    OBVIOUS
  <1>5. ASSUME NEW b \in BOOLEAN
        PROVE  /\ [l EXCEPT !.edited = @ \/ b] \in Live
               /\ [l EXCEPT !.edited = @ \/ b].entry \in TaskState
    <2>1. (l.edited \/ b) \in BOOLEAN
      OBVIOUS
    <2> QED BY <2>1
  <1>6. /\ [l EXCEPT !.aborted = TRUE] \in Live
        /\ [l EXCEPT !.aborted = TRUE].entry \in TaskState
    OBVIOUS
  <1> QED BY <1>1, <1>2, <1>3, <1>4, <1>5, <1>6

\* A run that is chained first may count a model call and await it.
LEMMA CallRunInv ==
  ASSUME Inv1, NEW t \in Task, NEW s \in TaskState, NEW p \in PC,
         NEW l \in Live, l.entry \in TaskState, CallModel(t, s, p, l),
         state[t] # "ABSENT", queue[SessionOf[t]] # <<>>,
         Head(queue[SessionOf[t]]).task = t, request' = request,
         loop' \in [Task -> {"execute", "repair", "review"}],
         pending' \in [Task -> Nat]
  PROVE  RunInv'
  BY AwaitRunInv, LiveGrows DEF CallModel

\* The same for a run already under way.
LEMMA StepCallRunInv ==
  ASSUME Inv1, NEW t \in Task, Running(t), NEW s \in TaskState, NEW p \in PC,
         NEW l \in Live, l.entry \in TaskState, CallModel(t, s, p, l), request' = request,
         loop' \in [Task -> {"execute", "repair", "review"}],
         pending' \in [Task -> Nat]
  PROVE  RunInv'
  BY StepRunInv, LiveGrows DEF CallModel

\* The same for a run that enters builderLoop().
LEMMA BuildRunInv ==
  ASSUME Inv1, NEW t \in Task, Running(t), NEW s \in TaskState, NEW l \in Live,
         l.entry \in TaskState, NEW kind \in {"execute", "repair", "review"},
         Build(t, s, l, kind), request' = request
  PROVE  RunInv'
  <1>1. loop' \in [Task -> {"execute", "repair", "review"}] /\ pending' \in [Task -> Nat]
    BY DEF Build, Inv1, TypeOK
  <1> QED BY <1>1, StepCallRunInv DEF Build, PC

-----------------------------------------------------------------------------
(* Every step preserves Inv1                                                *)

\* The user's commands keep the first part of the invariant.
LEMMA CommandInv1 ==
  ASSUME Inv1, NEW t \in Task, Command(t)
  PROVE  Inv1'
  <1> USE DEF Inv1
  <1>1. ASSUME NEW r \in Requests, Submit(t, r)
        PROVE  Inv1'
    <2>1. RowTypes'
      BY <1>1 DEF Submit, TypeOK, RowTypes
    <2>2. /\ queue' \in [Session -> Seq(Jobs)]
          /\ \A s \in Session : \A i \in 1..Len(queue'[s]) :
               \/ i \in 1..Len(queue[s]) /\ queue'[s][i] = queue[s][i]
               \/ s = SessionOf[t] /\ queue'[s][i] = [task |-> t, job |-> "run"]
          /\ \A s \in Session : queue[s] # <<>> =>
               queue'[s] # <<>> /\ Head(queue'[s]) = Head(queue[s])
      BY <1>1, AppendQueue DEF Submit
    <2>3. RunTypes'
      BY <1>1, <2>2 DEF Submit, TypeOK, RunTypes, Published, TaskState, Initial
    <2>4. \A u \in Task : state'[u] # "ABSENT" <=> (state[u] # "ABSENT" \/ u = t)
      BY <1>1 DEF Submit, TypeOK, Initial
    <2>5. QueuesOK'
      <3> SUFFICES ASSUME NEW s \in Session, NEW i \in 1..Len(queue'[s])
                   PROVE  /\ SessionOf[queue'[s][i].task] = s
                          /\ state'[queue'[s][i].task] # "ABSENT"
        BY DEF QueuesOK
      <3>1. CASE i \in 1..Len(queue[s]) /\ queue'[s][i] = queue[s][i]
        BY <2>4, <3>1, JobTask DEF QueuesOK
      <3>2. CASE s = SessionOf[t] /\ queue'[s][i] = [task |-> t, job |-> "run"]
        BY <2>4, <3>2
      <3> QED BY <2>2, <3>1, <3>2
    <2>6. OneRunPerSession'
      BY <1>1, <2>2, SessionAssumption DEF Submit, OneRunPerSession, Running
    <2>7. RunsOK'
      BY <1>1, <2>4 DEF Submit, RunsOK, Running, TypeOK
    <2> QED BY <2>1, <2>3, <2>5, <2>6, <2>7, RowsAndRuns DEF RunInv
  <1>2. CASE CancelIdle(t)
    <2>1. RowTypes'
      BY <1>2 DEF CancelIdle, TypeOK, RowTypes
    <2>2. PICK x \in TaskState : /\ state' = [state EXCEPT ![t] = x]
                                 /\ topic' \in [Task -> {"absent", "open", "closed"}]
      <3>1. state[t] \in TaskState
        BY <1>2 DEF CancelIdle, TypeOK
      <3> QED BY <1>2, <3>1, AfterType DEF CancelIdle, Finish, Published, Done, TypeOK
    <2>3. RunTypes'
      BY <1>2, <2>2 DEF CancelIdle, TypeOK, RunTypes
    <2>4. \A u \in Task : state'[u] # "ABSENT" <=> state[u] # "ABSENT"
      BY <1>2, <2>2 DEF CancelIdle, TypeOK, TaskState, Initial, Working, Resting, Terminal
    <2>5. QueuesOK'
      BY <1>2, <2>4, JobTask DEF CancelIdle, QueuesOK
    <2>6. OneRunPerSession'
      BY <1>2 DEF CancelIdle, OneRunPerSession, Running
    <2>7. RunsOK'
      BY <1>2, <2>4 DEF CancelIdle, RunsOK, Running, TypeOK
    <2> QED BY <2>1, <2>3, <2>5, <2>6, <2>7, RowsAndRuns DEF RunInv
  <1>3. CASE CancelRunning(t)
    <2>1. RowTypes'
      BY <1>3 DEF CancelRunning, TypeOK, RowTypes
    <2>2. CASE pc[t] = "approval"
      <3>1. Settle(t, state[t], "cancel")
        BY <1>3, <2>2 DEF CancelRunning, Settle
      <3>2. RunInv'
        BY <1>3, <3>1, RunningTypes, SettleRunInv DEF CancelRunning
      <3> QED BY <2>1, <3>2, RowsAndRuns
    <2>3. CASE pc[t] # "approval"
      <3>1. /\ live' = [live EXCEPT ![t] = [live[t] EXCEPT !.aborted = TRUE]]
            /\ UNCHANGED <<request, state, queue, pc, loop, pending, topic>>
        BY <1>3, <2>3 DEF CancelRunning
      <3>2. /\ [live[t] EXCEPT !.aborted = TRUE] \in Live
            /\ [live[t] EXCEPT !.aborted = TRUE].entry \in TaskState
        BY <1>3, RunningTypes, LiveGrows DEF CancelRunning
      <3>3. RunTypes'
        BY <3>1, <3>2 DEF TypeOK, RunTypes
      <3>4. QueuesOK' /\ OneRunPerSession'
        BY <3>1 DEF QueuesOK, OneRunPerSession, Running
      <3>5. RunsOK'
        BY <3>1, <3>2 DEF RunsOK, Running, TypeOK
      <3> QED BY <2>1, <3>3, <3>4, <3>5, RowsAndRuns DEF RunInv
    <2> QED BY <2>2, <2>3
  <1>4. CASE Approve(t)
    <2>1. RowTypes' /\ Running(t)
      BY <1>4 DEF Approve, TypeOK, RowTypes, Running
    <2>2. After(t, state[t], "approved") \in TaskState
      BY <2>1, RunningTypes, AfterType
    <2>3. RunInv'
      BY <1>4, <2>1, <2>2, RunningTypes, StepRunInv DEF Approve, TypeOK, PC
    <2> QED BY <2>1, <2>3, RowsAndRuns
  <1>5. CASE Revise(t)
    <2>1. RowTypes' /\ Running(t)
      BY <1>5 DEF Revise, TypeOK, RowTypes, Running
    <2>2. After(t, state[t], "revise") \in TaskState
      BY <2>1, RunningTypes, AfterType
    <2>3. RunInv'
      BY <1>5, <2>1, <2>2, RunningTypes, StepCallRunInv DEF Revise, TypeOK, PC
    <2> QED BY <2>1, <2>3, RowsAndRuns
  <1>6. CASE Reject(t)
    <2>1. RowTypes' /\ Running(t)
      BY <1>6 DEF Reject, TypeOK, RowTypes, Running
    <2>2. PICK x \in TaskState : /\ state' = [state EXCEPT ![t] = x]
                                 /\ topic' \in [Task -> {"absent", "open", "closed"}]
      BY <1>6, <2>1, RunningTypes, AfterType DEF Reject, Finish, Published, Done, TypeOK
    <2>3. RunInv'
      BY <1>6, <2>1, <2>2, LeaveRunInv DEF Reject
    <2> QED BY <2>1, <2>3, RowsAndRuns
  <1>7. CASE Resume(t)
    <2>1. RowTypes'
      BY <1>7 DEF Resume, db, TypeOK, RowTypes
    <2>2. /\ queue' \in [Session -> Seq(Jobs)]
          /\ \A s \in Session : \A i \in 1..Len(queue'[s]) :
               \/ i \in 1..Len(queue[s]) /\ queue'[s][i] = queue[s][i]
               \/ s = SessionOf[t] /\ queue'[s][i] = [task |-> t, job |-> "resume"]
          /\ \A s \in Session : queue[s] # <<>> =>
               queue'[s] # <<>> /\ Head(queue'[s]) = Head(queue[s])
      BY <1>7, AppendQueue DEF Resume
    <2>3. RunTypes'
      BY <1>7, <2>2 DEF Resume, db, TypeOK, RunTypes
    <2>4. QueuesOK'
      BY <1>7, <2>2 DEF Resume, db, QueuesOK
    <2>5. OneRunPerSession'
      BY <1>7, <2>2, SessionAssumption DEF Resume, db, OneRunPerSession, Running
    <2>6. RunsOK'
      BY <1>7 DEF Resume, db, RunsOK, Running
    <2> QED BY <2>1, <2>3, <2>4, <2>5, <2>6, RowsAndRuns DEF RunInv
  <1> QED BY <1>1, <1>2, <1>3, <1>4, <1>5, <1>6, <1>7 DEF Command

\* So does the end of validateReviewComplete().
LEMMA ConcludeRunInv ==
  ASSUME Inv1, NEW t \in Task, Running(t), NEW s \in TaskState, Conclude(t, s),
         request' = request
  PROVE  RunInv'
  <1>1. After(t, s, "review_passed") \in TaskState
    BY AfterType
  <1>2. CASE Await(t, After(t, s, "review_passed"), "commit", live[t]) /\ UNCHANGED <<loop, pending>>
    <2>1. loop' \in [Task -> {"execute", "repair", "review"}] /\ pending' \in [Task -> Nat]
      BY <1>2 DEF Inv1, TypeOK
    <2> QED BY <1>1, <1>2, <2>1, RunningTypes, StepRunInv DEF PC
  <1>3. CASE Settle(t, After(t, s, "review_passed"), "answered")
    BY <1>1, <1>3, SettleRunInv
  <1> QED BY <1>2, <1>3 DEF Conclude

\* So does every answer of an awaited call and every job that starts.
LEMMA ProgressInv1 ==
  ASSUME Inv1, NEW t \in Task, Progress(t)
  PROVE  Inv1'
  <1> USE DEF Inv1
  <1>1. CASE Skip(t)
    <2>1. RowTypes'
      BY <1>1 DEF Skip, db, TypeOK, RowTypes
    <2>2. state[t] \in TaskState /\ state' = [state EXCEPT ![t] = state[t]]
      BY <1>1, DueHead DEF Skip, db, TypeOK
    <2>3. RunInv'
      BY <1>1, <2>2, DropRunInv DEF Skip, db, TypeOK
    <2> QED BY <2>1, <2>3, RowsAndRuns
  <1>2. CASE StartAsk(t)
    <2>1. RowTypes'
      BY <1>2 DEF StartAsk, TypeOK, RowTypes
    <2>2. /\ state[t] \in TaskState /\ state[t] # "ABSENT"
          /\ queue[SessionOf[t]] # <<>> /\ Head(queue[SessionOf[t]]).task = t
      BY <1>2, DueHead DEF StartAsk, Initial
    <2>3. After(t, state[t], "context_sufficient") \in TaskState
      BY <2>2, AfterType
    <2>4. /\ CallModel(t, After(t, state[t], "context_sufficient"), "answer", Started(state[t]))
          /\ request' = request
          /\ loop' \in [Task -> {"execute", "repair", "review"}]
          /\ pending' \in [Task -> Nat]
      BY <1>2 DEF StartAsk, TypeOK
    <2>5. "answer" \in PC
      BY DEF PC
    <2>6. RunInv'
      BY <2>2, <2>3, <2>4, <2>5, StartedType, CallRunInv
    <2> QED BY <2>1, <2>6, RowsAndRuns
  <1>3. CASE StartBuild(t)
    <2> DEFINE planned == After(t, state[t], "context_sufficient")
    <2>1. RowTypes'
      BY <1>3 DEF StartBuild, TypeOK, RowTypes
    <2>2. /\ state[t] \in TaskState /\ state[t] # "ABSENT"
          /\ queue[SessionOf[t]] # <<>> /\ Head(queue[SessionOf[t]]).task = t
      BY <1>3, DueHead DEF StartBuild, Initial
    <2>3. planned \in TaskState /\ After(t, planned, "plan_skipped") \in TaskState
      BY <2>2, AfterType
    <2>4. PICK s \in TaskState, p \in PC :
            \/ Await(t, s, p, Started(state[t]))
            \/ CallModel(t, s, p, Started(state[t]))
      BY <1>3, <2>3 DEF StartBuild, PC
    <2>5. /\ request' = request
          /\ loop' \in [Task -> {"execute", "repair", "review"}]
          /\ pending' \in [Task -> Nat]
      BY <1>3 DEF StartBuild, TypeOK
    <2>6. RunInv'
      BY <2>2, <2>4, <2>5, StartedType, CallRunInv, AwaitRunInv
    <2> QED BY <2>1, <2>6, RowsAndRuns
  <1>4. CASE StartResume(t)
    <2>1. RowTypes'
      BY <1>4 DEF StartResume, TypeOK, RowTypes
    <2>2. /\ state[t] \in TaskState
          /\ queue[SessionOf[t]] # <<>> /\ Head(queue[SessionOf[t]]).task = t
      BY <1>4, DueHead DEF StartResume
    <2>3. state[t] # "ABSENT"
      BY <2>2 DEF TaskState, Initial, Working, Resting, Terminal
    <2>4. After(t, state[t], "resume") \in TaskState
      BY <2>2, AfterType
    <2>5. RunInv'
      BY <1>4, <2>2, <2>3, <2>4, StartedType, AwaitRunInv DEF StartResume, TypeOK, PC
    <2> QED BY <2>1, <2>5, RowsAndRuns
  <1>5. ASSUME NEW job \in {"run", "resume"}, StartThrows(t, job)
        PROVE  Inv1'
    <2>1. RowTypes'
      BY <1>5 DEF StartThrows, TypeOK, RowTypes
    <2>2. state[t] \in TaskState
      BY <1>5, DueHead DEF StartThrows
    <2>3. PICK x \in TaskState : /\ state' = [state EXCEPT ![t] = x]
                                 /\ topic' \in [Task -> {"absent", "open", "closed"}]
      BY <1>5, <2>2, AfterType DEF StartThrows, Finish, Published, Done, TypeOK
    <2>4. RunInv'
      BY <1>5, <2>3, DropRunInv DEF StartThrows
    <2> QED BY <2>1, <2>4, RowsAndRuns
  <1>6. CASE ModelFails(t)
    <2>1. RowTypes' /\ Running(t)
      BY <1>6 DEF ModelFails, Billed, ModelCalling, TypeOK, RowTypes, Running
    <2>2. RunInv'
      BY <1>6, <2>1, RunningTypes, SettleRunInv DEF ModelFails
    <2> QED BY <2>1, <2>2, RowsAndRuns
  <1>7. CASE RunThrows(t)
    <2>1. RowTypes' /\ Running(t)
      BY <1>7 DEF RunThrows, Billed, ModelCalling, TypeOK, RowTypes, Running
    <2>2. RunInv'
      BY <1>7, <2>1, RunningTypes, SettleRunInv DEF RunThrows
    <2> QED BY <2>1, <2>2, RowsAndRuns
  <1>8. CASE ModelReturnsLate(t)
    <2>1. RowTypes' /\ Running(t)
      BY <1>8 DEF ModelReturnsLate, Billed, ModelCalling, TypeOK, RowTypes, Running
    <2>2. RunInv'
      BY <1>8, <2>1, RunningTypes, SettleRunInv DEF ModelReturnsLate
    <2> QED BY <2>1, <2>2, RowsAndRuns
  <1>9. CASE Answered(t)
    <2>1. RowTypes' /\ Running(t)
      BY <1>9 DEF Answered, Billed, ModelCalling, TypeOK, RowTypes, Running
    <2>2. RunInv'
      BY <1>9, <2>1, RunningTypes, SettleRunInv DEF Answered
    <2> QED BY <2>1, <2>2, RowsAndRuns
  <1>10. CASE PlanUnusable(t)
    <2>1. RowTypes' /\ Running(t)
      BY <1>10 DEF PlanUnusable, Billed, ModelCalling, TypeOK, RowTypes, Running
    <2>2. RunInv'
      BY <1>10, <2>1, RunningTypes, SettleRunInv DEF PlanUnusable
    <2> QED BY <2>1, <2>2, RowsAndRuns
  <1>11. CASE ChecksReturnLate(t)
    <2>1. RowTypes' /\ Running(t)
      BY <1>11 DEF ChecksReturnLate, Billed, ModelCalling, TypeOK, RowTypes, Running
    <2>2. RunInv'
      BY <1>11, <2>1, RunningTypes, SettleRunInv DEF ChecksReturnLate
    <2> QED BY <2>1, <2>2, RowsAndRuns
  <1>12. ASSUME NEW threshold \in Threshold, Planned(t, threshold)
        PROVE  Inv1'
    <2>1. RowTypes' /\ Running(t)
      <3>1. Running(t) /\ gate' \in [Task -> {"shut", "skipped", "auto", "approved"}]
        <4>1. gate' = [gate EXCEPT ![t] = "auto"] \/ gate' = [gate EXCEPT ![t] = "shut"]
          BY <1>12 DEF Planned
        <4> QED BY <1>12, <4>1 DEF Planned, TypeOK, Running
      <3>2. UNCHANGED <<request, checkpoint, changed, unverified, up, crashes>> /\ Billed(t)
        BY <1>12 DEF Planned
      <3> QED BY <3>1, <3>2 DEF Billed, TypeOK, RowTypes
    <2>2. /\ After(t, state[t], "plan_auto_approved") \in TaskState
          /\ After(t, state[t], "plan_ready") \in TaskState
      BY <2>1, RunningTypes, AfterType
    <2>3. PICK s \in TaskState, p \in PC : Await(t, s, p, live[t])
      BY <1>12, <2>2 DEF Planned, PC
    <2>4. RunInv'
      BY <1>12, <2>1, <2>3, RunningTypes, StepRunInv DEF Planned, TypeOK
    <2> QED BY <2>1, <2>4, RowsAndRuns
  <1>13. ASSUME NEW row \in {"taken", "unavailable"}, CheckpointReturns(t, row)
        PROVE  Inv1'
    <2>1. RowTypes' /\ Running(t)
      BY <1>13 DEF CheckpointReturns, TypeOK, RowTypes, Running
    <2>2. /\ state[t] \in TaskState
          /\ After(t, After(t, state[t], "plan_skipped"), "edits_applied") \in TaskState
      BY <2>1, RunningTypes, AfterType
    <2>3. CASE request[t].intent = "fix"
      BY <1>13, <2>1, <2>2, <2>3, RunningTypes, StepRunInv, RowsAndRuns
         DEF CheckpointReturns, TypeOK, PC
    <2>4. CASE request[t].intent # "fix"
      BY <1>13, <2>1, <2>2, <2>4, RunningTypes, BuildRunInv, RowsAndRuns DEF CheckpointReturns
    <2> QED BY <2>3, <2>4
  <1>14. CASE LoopReturns(t)
    <2> DEFINE repair == loop[t] = "repair"
               s == After(t, state[t], IF repair THEN "fix_applied" ELSE "edits_applied")
               l == [live[t] EXCEPT !.repairAttempts = IF repair THEN @ + 1 ELSE @]
    <2>1. RowTypes' /\ Running(t)
      BY <1>14 DEF LoopReturns, Billed, TypeOK, RowTypes, Running
    <2>2. s \in TaskState
      BY <2>1, RunningTypes, AfterType
    <2>3. l \in Live /\ l.entry \in TaskState
      BY <2>1, RunningTypes DEF Live
    <2>4. Await(t, s, "validate", l)
      BY <1>14 DEF LoopReturns
    <2>5. RunInv'
      BY <1>14, <2>1, <2>2, <2>3, <2>4, StepRunInv DEF LoopReturns, TypeOK, PC
    <2> QED BY <2>1, <2>5, RowsAndRuns
  <1>15. ASSUME NEW k \in 0..MaxCalls, TurnCallsTools(t, k)
        PROVE  Inv1'
    <2>1. RowTypes' /\ Running(t)
      BY <1>15 DEF TurnCallsTools, Billed, TypeOK, RowTypes, Running
    <2>2. CASE StepsLeft(t)
      <3>1. k \in Nat
        BY BoundsAssumption
      <3>2. pending' \in [Task -> Nat] /\ loop' = loop
        BY <1>15, <2>2, <3>1 DEF TurnCallsTools, TypeOK
      <3>3. /\ Await(t, state[t], "tool", [live[t] EXCEPT !.toolSteps = @ + 1])
            /\ request' = request
        BY <1>15, <2>2 DEF TurnCallsTools
      <3>4. /\ [live[t] EXCEPT !.toolSteps = @ + 1] \in Live
            /\ [live[t] EXCEPT !.toolSteps = @ + 1].entry \in TaskState
        BY <2>1, RunningTypes, LiveGrows
      <3>5. loop' \in [Task -> {"execute", "repair", "review"}] /\ "tool" \in PC
        BY <3>2 DEF TypeOK, PC
      <3>6. RunInv'
        BY <2>1, <3>2, <3>3, <3>4, <3>5, RunningTypes, StepRunInv
      <3> QED BY <2>1, <3>6, RowsAndRuns
    <2>3. CASE ~StepsLeft(t)
      BY <1>15, <2>1, <2>3, RunningTypes, SettleRunInv, RowsAndRuns DEF TurnCallsTools
    <2> QED BY <2>2, <2>3
  <1>16. ASSUME NEW edits \in BOOLEAN, ToolReturns(t, edits)
        PROVE  Inv1'
    <2> DEFINE l == [live[t] EXCEPT !.edited = @ \/ edits]
    <2>1. RowTypes' /\ Running(t)
      <3>1. (changed[t] \/ edits) \in BOOLEAN /\ (unverified[t] \/ edits) \in BOOLEAN
        OBVIOUS
      <3> QED BY <1>16, <3>1 DEF ToolReturns, TypeOK, RowTypes, Running
    <2>2. l \in Live /\ l.entry \in TaskState /\ state[t] \in TaskState
      BY <2>1, RunningTypes, LiveGrows
    <2>3. CASE /\ pending[t] > 0 /\ StepsLeft(t)
               /\ Await(t, state[t], "tool", [l EXCEPT !.toolSteps = @ + 1])
               /\ pending' = [pending EXCEPT ![t] = @ - 1]
               /\ UNCHANGED loop
      <3>1. /\ [l EXCEPT !.toolSteps = @ + 1] \in Live
            /\ [l EXCEPT !.toolSteps = @ + 1].entry \in TaskState
        BY <2>2, LiveGrows
      <3>2. pending' \in [Task -> Nat] /\ loop' \in [Task -> {"execute", "repair", "review"}]
        BY <2>3 DEF TypeOK
      <3>3. request' = request
        BY <1>16 DEF ToolReturns
      <3>4. RunInv'
        BY <2>1, <2>2, <2>3, <3>1, <3>2, <3>3, StepRunInv DEF PC
      <3> QED BY <2>1, <3>4, RowsAndRuns
    <2>4. CASE CallModel(t, state[t], "model", l) /\ UNCHANGED <<loop, pending>>
      <3>1. /\ pending' \in [Task -> Nat] /\ loop' \in [Task -> {"execute", "repair", "review"}]
            /\ request' = request
        BY <1>16, <2>4 DEF TypeOK, ToolReturns
      <3>2. RunInv'
        BY <2>1, <2>2, <2>4, <3>1, StepCallRunInv DEF PC
      <3> QED BY <2>1, <3>2, RowsAndRuns
    <2>5. CASE Settle(t, state[t], "failed")
      BY <1>16, <2>1, <2>2, <2>5, SettleRunInv, RowsAndRuns DEF ToolReturns
    <2> QED BY <1>16, <2>3, <2>4, <2>5 DEF ToolReturns
  <1>17. CASE ChecksPass(t)
    <2> DEFINE s == After(t, state[t], "checks_passed")
    <2>1. RowTypes' /\ Running(t)
      BY <1>17 DEF ChecksPass, TypeOK, RowTypes, Running
    <2>2. s \in TaskState /\ live[t] \in Live /\ live[t].entry \in TaskState
      BY <2>1, RunningTypes, AfterType
    <2>3. CASE CallModel(t, s, "review", live[t]) /\ UNCHANGED <<loop, pending>>
      <3>1. /\ pending' \in [Task -> Nat] /\ loop' \in [Task -> {"execute", "repair", "review"}]
            /\ request' = request
        BY <1>17, <2>3 DEF TypeOK, ChecksPass
      <3> QED BY <2>1, <2>2, <2>3, <3>1, StepCallRunInv, RowsAndRuns DEF PC
    <2>4. CASE Conclude(t, s)
      BY <1>17, <2>1, <2>2, <2>4, ConcludeRunInv, RowsAndRuns DEF ChecksPass
    <2> QED BY <1>17, <2>3, <2>4 DEF ChecksPass
  <1>18. CASE ChecksFail(t)
    <2> DEFINE failed == After(t, state[t], "checks_failed")
    <2>1. RowTypes' /\ Running(t)
      BY <1>18 DEF ChecksFail, TypeOK, RowTypes, Running
    <2>2. /\ failed \in TaskState /\ After(t, failed, "diagnosis_ready") \in TaskState
          /\ live[t] \in Live /\ live[t].entry \in TaskState
      BY <2>1, RunningTypes, AfterType
    <2>3. CASE Build(t, After(t, failed, "diagnosis_ready"), live[t], "repair")
      BY <1>18, <2>1, <2>2, <2>3, BuildRunInv, RowsAndRuns DEF ChecksFail
    <2>4. CASE Settle(t, failed, "failed")
      BY <1>18, <2>1, <2>2, <2>4, SettleRunInv, RowsAndRuns DEF ChecksFail
    <2> QED BY <1>18, <2>3, <2>4 DEF ChecksFail
  <1>19. CASE ReviewPasses(t)
    <2>1. RowTypes' /\ Running(t)
      BY <1>19 DEF ReviewPasses, TypeOK, RowTypes, Running
    <2> QED BY <1>19, <2>1, RunningTypes, ConcludeRunInv, RowsAndRuns DEF ReviewPasses
  <1>20. CASE ReviewWantsChanges(t)
    <2> DEFINE l == [live[t] EXCEPT !.reviewRounds = @ + 1]
    <2>1. RowTypes' /\ Running(t)
      BY <1>20 DEF ReviewWantsChanges, TypeOK, RowTypes, Running
    <2>2. /\ After(t, state[t], "review_requests_changes") \in TaskState
          /\ l \in Live /\ l.entry \in TaskState
      BY <2>1, RunningTypes, AfterType, LiveGrows
    <2> QED BY <1>20, <2>1, <2>2, BuildRunInv, RowsAndRuns DEF ReviewWantsChanges
  <1>21. ASSUME NEW committed \in BOOLEAN, CommitReturns(t, committed)
        PROVE  Inv1'
    <2>1. RowTypes' /\ Running(t)
      BY <1>21 DEF CommitReturns, TypeOK, RowTypes, Running
    <2> QED BY <1>21, <2>1, RunningTypes, SettleRunInv, RowsAndRuns DEF CommitReturns
  <1> QED BY <1>1, <1>2, <1>3, <1>4, <1>5, <1>6, <1>7, <1>8, <1>9, <1>10, <1>11,
             <1>12, <1>13, <1>14, <1>15, <1>16, <1>17, <1>18, <1>19, <1>20, <1>21 DEF Progress

\* So does every step: process exit, recovery and the hub included.
LEMMA NextInv1 == Inv1 /\ [Next]_vars => Inv1'
  <1> SUFFICES ASSUME Inv1, [Next]_vars
               PROVE  Inv1'
    OBVIOUS
  <1> USE DEF Inv1
  <1>1. CASE Crash
    <2>1. RunTypes'
      <3>1. queue' \in [Session -> Seq(Jobs)]
        BY <1>1 DEF Crash
      <3> QED BY <1>1, <3>1, NoRunType DEF Crash, db, TypeOK, RunTypes, PC
    <2>2. RowTypes'
      <3>1. up' \in BOOLEAN /\ crashes' \in Nat
        <4>1. up' = FALSE /\ crashes' = crashes + 1
          BY <1>1 DEF Crash
        <4>2. crashes \in Nat
          BY DEF TypeOK
        <4>3. crashes' \in Nat
          BY <4>1, <4>2
        <4> QED BY <4>1, <4>3
      <3>2. UNCHANGED <<request, usage, cost, checkpoint, changed, unverified, gate>>
        BY <1>1 DEF Crash, db
      <3> QED BY <3>1, <3>2 DEF TypeOK, RowTypes
    <2>3. QueuesOK' /\ OneRunPerSession'
      BY <1>1 DEF Crash, QueuesOK, OneRunPerSession, Running
    <2>4. RunsOK'
      BY <1>1 DEF Crash, db, RunsOK, Running
    <2> QED BY <2>1, <2>2, <2>3, <2>4, RowsAndRuns DEF RunInv
  <1>2. CASE Recover
    <2>1. \A t \in Task : state'[t] = IF Left(t) THEN After(t, state[t], "process_exit") ELSE state[t]
      BY <1>2 DEF Recover
    <2>2. \A t \in Task : Left(t) => state[t] \in TaskState
      BY DEF TypeOK, Left
    <2>3. \A t \in Task : Left(t) => state'[t] \in TaskState
      BY <2>1, <2>2, AfterType
    <2>4. \A t \in Task : state[t] # "ABSENT" <=> state'[t] # "ABSENT"
      BY <2>1, <2>3 DEF Left, TaskState, Initial, Working, Resting, Terminal
    <2>5. RunTypes'
      <3>1. state' \in [Task -> TaskState \cup {"ABSENT"}]
        BY <1>2, <2>1, <2>3 DEF Recover, TypeOK
      <3>2. topic' \in [Task -> {"absent", "open", "closed"}]
        BY <1>2 DEF Recover, TypeOK
      <3> QED BY <1>2, <3>1, <3>2 DEF Recover, TypeOK, RunTypes
    <2>6. RowTypes'
      BY <1>2 DEF Recover, TypeOK, RowTypes
    <2>7. QueuesOK'
      BY <1>2, <2>4, JobTask DEF Recover, QueuesOK
    <2>8. OneRunPerSession'
      BY <1>2 DEF Recover, OneRunPerSession, Running
    <2>9. RunsOK'
      BY <1>2, <2>4 DEF Recover, RunsOK, Running
    <2> QED BY <2>5, <2>6, <2>7, <2>8, <2>9, RowsAndRuns DEF RunInv
  <1>3. ASSUME NEW t \in Task, TopicExpires(t) \/ Stream(t)
        PROVE  Inv1'
    <2>1. UNCHANGED <<db, up, queue, pc, loop, pending, live, crashes>>
      BY <1>3 DEF TopicExpires, Stream
    <2>2. topic' \in [Task -> {"absent", "open", "closed"}]
      <3>1. PICK x \in {"absent", "open", "closed"} : topic' = [topic EXCEPT ![t] = x]
        <4>1. CASE TopicExpires(t)
          BY <4>1 DEF TopicExpires
        <4>2. CASE Stream(t)
          <5>1. topic' = [topic EXCEPT ![t] = IF state[t] \in Resting THEN "closed" ELSE "open"]
            BY <4>2 DEF Stream
          <5> QED BY <5>1
        <4> QED BY <1>3, <4>1, <4>2
      <3> QED BY <3>1 DEF TypeOK
    <2>3. RunTypes' /\ RowTypes'
      BY <2>1, <2>2 DEF db, TypeOK, RunTypes, RowTypes
    <2>4. QueuesOK' /\ OneRunPerSession' /\ RunsOK'
      BY <2>1 DEF db, QueuesOK, OneRunPerSession, RunsOK, Running
    <2> QED BY <2>3, <2>4, RowsAndRuns DEF RunInv
  <1>4. CASE UNCHANGED vars
    BY <1>4 DEF vars, db, mem, TypeOK, QueuesOK, OneRunPerSession, RunsOK, Running
  <1> QED BY <1>1, <1>2, <1>3, <1>4, CommandInv1, ProgressInv1 DEF Next

\* Types, chains and runs are in order in every state of the runner.
LEMMA Inv1Holds == Spec => []Inv1
  BY InitInv1, NextInv1, PTL DEF Spec

\* Every variable keeps its type.
THEOREM TypeCorrect == Spec => []TypeOK
  BY Inv1Holds, PTL DEF Inv1

\* One run per session, for any number of tasks and sessions: however
\* commands, crashes and resumes interleave, the running task is the one at
\* the head of its session's chain (TaskService.start chains the runs).
THEOREM OneRunPerSessionHolds == Spec => []OneRunPerSession
  BY Inv1Holds, PTL DEF Inv1
====
