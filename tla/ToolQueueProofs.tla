---- MODULE ToolQueueProofs ----
(***************************************************************************)
(* Types, calls and chains of ToolRuntime: the part of ToolInv that does   *)
(* not speak of rules, executions and rows.  What an action does to the    *)
(* call of one task is one of three things: it leaves (LeaveInv), it joins *)
(* the chain of its project (JoinInv), or it waits for something else in   *)
(* the same place (HoldInv).                                               *)
(***************************************************************************)
EXTENDS ToolInvariant, SequenceTheorems, TLAPS

CallInv == TypeOK /\ CallsOK /\ QueuesOK

\* What is known of a call that t makes or has under way.
IsCall(t, c) ==
  /\ c \in Calls /\ c.n \in 1..MaxCalls[t] /\ <<t, c.n>> \in Id
  /\ c.tool \in Tool /\ c.scope \in Scope /\ InfoOf(c) \in Descriptor

Moves(t, at, c) ==
  /\ pc' = [pc EXCEPT ![t] = at]
  /\ call' = [call EXCEPT ![t] = c]

\* Writing(u), of the next state.
WritingNext(u) == pc'[u] \in {"queued", "running", "stuck"} /\ InfoOf(call'[u]).mutates

-----------------------------------------------------------------------------

\* A chain without its first member.
LEMMA TailFacts ==
  ASSUME NEW S, NEW q \in Seq(S), q # <<>>
  PROVE  /\ Len(q) \in Nat \ {0} /\ Head(q) = q[1]
         /\ Tail(q) \in Seq(S) /\ Len(Tail(q)) = Len(q) - 1
         /\ \A i \in 1..Len(Tail(q)) : i + 1 \in 1..Len(q) /\ Tail(q)[i] = q[i + 1]
  <1>1. Len(q) \in Nat \ {0}
    BY LenProperties, EmptySeq
  <1>2. Head(q) = q[1]
    BY <1>1
  <1>3. /\ Tail(q) \in Seq(S) /\ Len(Tail(q)) = Len(q) - 1
        /\ \A i \in 1..Len(Tail(q)) : Tail(q)[i] = q[i + 1]
    BY HeadTailProperties
  <1> QED BY <1>1, <1>2, <1>3

\* The call a task has under way is one it can make.
LEMMA CallFacts ==
  ASSUME TypeOK, CallsOK, NEW t \in Task, pc[t] # "idle"
  PROVE  IsCall(t, call[t]) /\ call[t].n = made[t] /\ IdOf(t) = <<t, call[t].n>>
  <1>1. call[t] \in Calls /\ call[t].n = made[t] /\ made[t] > 0 /\ made[t] <= MaxCalls[t]
    BY DEF CallsOK
  <1>2. made[t] \in Nat /\ MaxCalls[t] \in Nat
    BY BoundsAssumption DEF TypeOK
  <1>3. call[t].n \in 1..MaxCalls[t]
    BY <1>1, <1>2
  <1>4. <<t, call[t].n>> \in Id
    BY <1>3 DEF Id
  <1>5. call[t].tool \in Tool /\ call[t].scope \in Scope
    BY <1>1 DEF Calls
  <1>6. InfoOf(call[t]) \in Descriptor
    BY <1>5, InfoAssumption DEF InfoOf
  <1> QED BY <1>1, <1>3, <1>4, <1>5, <1>6 DEF IsCall, IdOf

\* So is the next call it makes.
LEMMA NextCallFacts ==
  ASSUME TypeOK, NEW t \in Task, NEW c \in [tool : Tool, scope : Scope, n : {made[t] + 1}],
         made[t] < MaxCalls[t]
  PROVE  IsCall(t, c) /\ c.n = made[t] + 1
  <1>1. made[t] \in Nat /\ MaxCalls[t] \in Nat
    BY BoundsAssumption DEF TypeOK
  <1>2. c.n = made[t] + 1 /\ c.tool \in Tool /\ c.scope \in Scope
    OBVIOUS
  <1>3. c.n \in 1..MaxCalls[t]
    BY <1>1, <1>2
  <1>4. c \in Calls
    BY <1>1, <1>2 DEF Calls
  <1>5. <<t, c.n>> \in Id
    BY <1>3 DEF Id
  <1>6. InfoOf(c) \in Descriptor
    BY <1>2, InfoAssumption DEF InfoOf
  <1> QED BY <1>2, <1>3, <1>4, <1>5, <1>6 DEF IsCall

-----------------------------------------------------------------------------
(* Types                                                                    *)

\* A call that settles.
LEMMA ReturnTypes ==
  ASSUME TypeOK, NEW t \in Task, NEW c, IsCall(t, c),
         NEW decision \in {"allow", "deny"}, NEW ok \in BOOLEAN, Return(t, c, decision, ok)
  PROVE  /\ pc' \in [Task -> {"idle", "consent", "queued", "running", "stuck"}]
         /\ call' \in [Task -> Calls \cup {NoCall}]
         /\ rows' \subseteq Row /\ unaudited' \subseteq Id
  <1>1. [id |-> <<t, c.n>>, decision |-> decision, ok |-> ok] \in Row
    BY DEF IsCall, Row
  <1>2. rows' \subseteq Row
    BY <1>1 DEF Return, TypeOK
  <1>3. unaudited' \subseteq Id
    BY DEF Return, TypeOK, IsCall
  <1> QED BY <1>2, <1>3 DEF Return, TypeOK

\* Chains with one member more or less.
LEMMA QueueTypes ==
  ASSUME TypeOK, NEW t \in Task
  PROVE  /\ [queue EXCEPT ![ProjectOf[t]] = Append(@, t)] \in [Project -> Seq(Task)]
         /\ queue[ProjectOf[t]] # <<>> =>
              [queue EXCEPT ![ProjectOf[t]] = Tail(@)] \in [Project -> Seq(Task)]
  <1> DEFINE q == queue[ProjectOf[t]]
  <1>1. ProjectOf[t] \in Project /\ q \in Seq(Task)
    BY ProjectOfAssumption DEF TypeOK
  <1>2. Append(q, t) \in Seq(Task)
    BY <1>1, AppendProperties
  <1>3. q # <<>> => Tail(q) \in Seq(Task)
    BY <1>1, TailFacts
  <1> QED BY <1>1, <1>2, <1>3 DEF TypeOK

\* A tool that is executed.
LEMMA ExecuteTypes ==
  ASSUME TypeOK, NEW t \in Task, NEW c, IsCall(t, c), Execute(t, c)
  PROVE  /\ pc' \in [Task -> {"idle", "consent", "queued", "running", "stuck"}]
         /\ call' \in [Task -> Calls \cup {NoCall}]
         /\ rows' \subseteq Row /\ unaudited' \subseteq Id
         /\ work' \subseteq [id : Id, tool : Tool]
         /\ done' \subseteq Id
  <1>1. CASE Return(t, c, "allow", TRUE) /\ done' = done \cup {<<t, c.n>>} /\ UNCHANGED work
    BY <1>1, ReturnTypes DEF TypeOK, IsCall
  <1>2. CASE Return(t, c, "allow", FALSE) /\ UNCHANGED <<done, work>>
    BY <1>2, ReturnTypes DEF TypeOK
  <1>3. CASE /\ pc' = [pc EXCEPT ![t] = "running"]
             /\ call' = [call EXCEPT ![t] = c]
             /\ work' = work \cup {Execution(t, c)}
             /\ UNCHANGED <<rows, unaudited, done>>
    <2>1. Execution(t, c) \in [id : Id, tool : Tool]
      BY DEF IsCall, Execution
    <2> QED BY <1>3, <2>1 DEF TypeOK, IsCall
  <1> QED BY <1>1, <1>2, <1>3 DEF Execute

\* A call that the engine lets through.
LEMMA ProceedTypes ==
  ASSUME TypeOK, NEW t \in Task, NEW c, IsCall(t, c), Proceed(t, c)
  PROVE  /\ pc' \in [Task -> {"idle", "consent", "queued", "running", "stuck"}]
         /\ call' \in [Task -> Calls \cup {NoCall}]
         /\ rows' \subseteq Row /\ unaudited' \subseteq Id
         /\ work' \subseteq [id : Id, tool : Tool]
         /\ done' \subseteq Id
         /\ queue' \in [Project -> Seq(Task)]
         /\ passed' \subseteq Passed
  <1>1. passed' \subseteq Passed
    <2>1. [id |-> <<t, c.n>>, tool |-> c.tool, scope |-> c.scope] \in Passed
      BY DEF IsCall, Passed
    <2> QED BY <2>1 DEF Proceed, TypeOK
  <1>2. CASE /\ pc' = [pc EXCEPT ![t] = "queued"]
             /\ call' = [call EXCEPT ![t] = c]
             /\ queue' = [queue EXCEPT ![ProjectOf[t]] = Append(@, t)]
             /\ UNCHANGED <<work, rows, unaudited, done>>
    BY <1>1, <1>2, QueueTypes DEF TypeOK, IsCall
  <1>3. CASE Execute(t, c) /\ UNCHANGED queue
    BY <1>1, <1>3, ExecuteTypes DEF TypeOK
  <1> QED BY <1>2, <1>3 DEF Proceed

-----------------------------------------------------------------------------
(* Chains                                                                   *)

\* A write under way is in its project's chain; one that has begun is first.
LEMMA WriterHead ==
  ASSUME CallInv, NEW t \in Task, Writing(t)
  PROVE  /\ queue[ProjectOf[t]] # <<>>
         /\ pc[t] # "queued" => Head(queue[ProjectOf[t]]) = t
  <1> DEFINE q == queue[ProjectOf[t]]
  <1>1. ProjectOf[t] \in Project /\ q \in Seq(Task)
    BY ProjectOfAssumption DEF CallInv, TypeOK
  <1>2. PICK i \in 1..Len(q) : q[i] = t
    BY DEF CallInv, QueuesOK
  <1>3. q # <<>>
    BY <1>1, <1>2, EmptySeq
  <1>4. Head(q) = q[1] /\ Len(q) \in Nat
    BY <1>1, <1>3, TailFacts
  <1>5. pc[t] # "queued" => i = 1
    <2>1. i > 1 => pc[q[i]] = "queued"
      BY <1>1, <1>2 DEF CallInv, QueuesOK
    <2> QED BY <1>2, <1>4, <2>1
  <1> QED BY <1>2, <1>3, <1>4, <1>5

\* QueuesOK of the next state, without primes of primes.
LEMMA QueuesNext ==
  ASSUME \A p \in Project : \A i \in 1..Len(queue'[p]) :
           /\ ProjectOf[queue'[p][i]] = p /\ WritingNext(queue'[p][i])
           /\ i > 1 => pc'[queue'[p][i]] = "queued"
           /\ \A j \in 1..Len(queue'[p]) : queue'[p][i] = queue'[p][j] => i = j,
         \A u \in Task : WritingNext(u) =>
           \E i \in 1..Len(queue'[ProjectOf[u]]) : queue'[ProjectOf[u]][i] = u
  PROVE  QueuesOK'
  BY DEF QueuesOK, Writing, WritingNext, InfoOf

\* The call of t leaves: of its project's chain, if it writes, as the first.
LEMMA LeaveQueues ==
  ASSUME CallInv, NEW t \in Task, Moves(t, "idle", NoCall),
         Writing(t) => Head(queue[ProjectOf[t]]) = t,
         queue' = IF Writing(t) THEN [queue EXCEPT ![ProjectOf[t]] = Tail(@)] ELSE queue
  PROVE  QueuesOK'
  <1> DEFINE p0 == ProjectOf[t]
             q  == queue[p0]
  <1>1. /\ p0 \in Project /\ q \in Seq(Task)
        /\ \A p \in Project : queue[p] \in Seq(Task) /\ Len(queue[p]) \in Nat
    BY ProjectOfAssumption, LenProperties DEF CallInv, TypeOK
  <1>2. /\ pc'[t] = "idle" /\ ~WritingNext(t)
        /\ \A u \in Task : u # t => pc'[u] = pc[u] /\ call'[u] = call[u]
    BY DEF CallInv, TypeOK, Moves, WritingNext
  <1>3. \A u \in Task : u # t => (WritingNext(u) <=> Writing(u))
    BY <1>2 DEF Writing, WritingNext, InfoOf
  <1>4. \A p \in Project : \A i \in 1..Len(queue[p]) : queue[p][i] \in Task
    BY <1>1, ElementOfSeq
  <1>5. CASE ~Writing(t)
    <2>1. queue' = queue
      BY <1>5
    <2>2. \A p \in Project : \A i \in 1..Len(queue[p]) : queue[p][i] # t
      BY <1>5 DEF CallInv, QueuesOK
    <2>3. \A p \in Project : \A i \in 1..Len(queue[p]) :
            pc'[queue[p][i]] = pc[queue[p][i]] /\ WritingNext(queue[p][i])
      BY <1>2, <1>3, <1>4, <2>2 DEF CallInv, QueuesOK
    <2>4. \A p \in Project : \A i \in 1..Len(queue[p]) :
            /\ ProjectOf[queue[p][i]] = p /\ WritingNext(queue[p][i])
            /\ i > 1 => pc'[queue[p][i]] = "queued"
            /\ \A j \in 1..Len(queue[p]) : queue[p][i] = queue[p][j] => i = j
      BY <2>3 DEF CallInv, QueuesOK
    <2>5. \A u \in Task : WritingNext(u) =>
            \E i \in 1..Len(queue[ProjectOf[u]]) : queue[ProjectOf[u]][i] = u
      BY <1>2, <1>3 DEF CallInv, QueuesOK
    <2>6. \A p \in Project : \A i \in 1..Len(queue'[p]) :
            /\ ProjectOf[queue'[p][i]] = p /\ WritingNext(queue'[p][i])
            /\ i > 1 => pc'[queue'[p][i]] = "queued"
            /\ \A j \in 1..Len(queue'[p]) : queue'[p][i] = queue'[p][j] => i = j
      BY <2>1, <2>4
    <2>7. \A u \in Task : WritingNext(u) =>
            \E i \in 1..Len(queue'[ProjectOf[u]]) : queue'[ProjectOf[u]][i] = u
      BY <2>1, <2>5
    <2> QED BY <2>6, <2>7, QueuesNext
  <1>6. CASE Writing(t)
    <2>1. q # <<>> /\ Head(q) = t
      BY <1>6, WriterHead
    <2>2. /\ Len(q) \in Nat \ {0} /\ Head(q) = q[1] /\ Len(Tail(q)) = Len(q) - 1
          /\ \A i \in 1..Len(Tail(q)) : i + 1 \in 1..Len(q) /\ Tail(q)[i] = q[i + 1]
      BY <1>1, <2>1, TailFacts
    <2>3. \A p \in Project : queue'[p] = IF p = p0 THEN Tail(q) ELSE queue[p]
      BY <1>6 DEF CallInv, TypeOK
    <2>4. \A i \in 1..Len(q) : q[i] = t => i = 1
      BY <1>1, <2>1, <2>2 DEF CallInv, QueuesOK
    <2>5. \A p \in Project : p # p0 => \A i \in 1..Len(queue[p]) : queue[p][i] # t
      BY DEF CallInv, QueuesOK
    <2>6. ASSUME NEW p \in Project, NEW i \in 1..Len(queue'[p])
          PROVE  /\ ProjectOf[queue'[p][i]] = p
                 /\ WritingNext(queue'[p][i])
                 /\ i > 1 => pc'[queue'[p][i]] = "queued"
                 /\ \A j \in 1..Len(queue'[p]) : queue'[p][i] = queue'[p][j] => i = j
      <3>1. CASE p = p0
        <4>1. queue'[p] = Tail(q) /\ i \in 1..(Len(q) - 1)
          BY <2>2, <2>3, <2>6, <3>1
        <4>2. /\ i + 1 \in 1..Len(q) /\ i + 1 > 1 /\ queue'[p][i] = q[i + 1]
              /\ \A j \in 1..Len(queue'[p]) : j + 1 \in 1..Len(q) /\ queue'[p][j] = q[j + 1]
          <5>1. /\ queue'[p] = Tail(q) /\ i \in 1..Len(Tail(q)) /\ i \in Nat \ {0}
            BY <2>2, <2>6, <4>1
          <5>2. i + 1 \in 1..Len(q) /\ i + 1 > 1 /\ queue'[p][i] = q[i + 1]
            <6>1. i + 1 \in 1..Len(q) /\ Tail(q)[i] = q[i + 1]
              BY <2>2, <5>1
            <6>2. i + 1 > 1
              BY <5>1
            <6> QED BY <5>1, <6>1, <6>2
          <5>3. \A j \in 1..Len(queue'[p]) : j + 1 \in 1..Len(q) /\ queue'[p][j] = q[j + 1]
            BY <2>2, <5>1
          <5> QED BY <5>2, <5>3
        <4>3. q[i + 1] \in Task /\ q[i + 1] # t
          BY <1>1, <1>4, <2>4, <4>2
        <4>4. /\ ProjectOf[q[i + 1]] = p0 /\ Writing(q[i + 1]) /\ pc[q[i + 1]] = "queued"
              /\ \A j \in 1..Len(q) : q[i + 1] = q[j] => i + 1 = j
          BY <1>1, <4>2 DEF CallInv, QueuesOK
        <4>5. \A j \in 1..Len(queue'[p]) : queue'[p][i] = queue'[p][j] => i = j
          <5>1. SUFFICES ASSUME NEW j \in 1..Len(queue'[p]), queue'[p][i] = queue'[p][j]
                         PROVE  i = j
            OBVIOUS
          <5>2. i + 1 = j + 1
            BY <4>2, <4>4, <5>1
          <5>3. i \in Int /\ j \in Int
            BY <2>6, <5>1
          <5> QED BY <5>2, <5>3
        <4> QED BY <1>2, <1>3, <3>1, <4>2, <4>3, <4>4, <4>5
      <3>2. CASE p # p0
        <4>1. queue'[p] = queue[p]
          BY <2>3, <3>2
        <4>2. queue[p][i] \in Task /\ queue[p][i] # t
          BY <1>4, <2>5, <2>6, <3>2, <4>1
        <4>3. /\ ProjectOf[queue[p][i]] = p /\ Writing(queue[p][i])
              /\ i > 1 => pc[queue[p][i]] = "queued"
              /\ \A j \in 1..Len(queue[p]) : queue[p][i] = queue[p][j] => i = j
          BY <2>6, <4>1 DEF CallInv, QueuesOK
        <4> QED BY <1>2, <1>3, <4>1, <4>2, <4>3
      <3> QED BY <3>1, <3>2
    <2>7. ASSUME NEW u \in Task, WritingNext(u)
          PROVE  \E i \in 1..Len(queue'[ProjectOf[u]]) : queue'[ProjectOf[u]][i] = u
      <3>1. u # t /\ Writing(u) /\ ProjectOf[u] \in Project
        BY <1>2, <1>3, <2>7, ProjectOfAssumption
      <3>2. PICK k \in 1..Len(queue[ProjectOf[u]]) : queue[ProjectOf[u]][k] = u
        BY <3>1 DEF CallInv, QueuesOK
      <3>3. CASE ProjectOf[u] = p0
        <4>1. k # 1 /\ k \in 1..Len(q)
          BY <2>1, <2>2, <3>1, <3>2, <3>3
        <4>2. k - 1 \in 1..Len(Tail(q)) /\ (k - 1) + 1 = k
          BY <2>2, <4>1
        <4>3. Tail(q)[k - 1] = u
          BY <2>2, <3>2, <3>3, <4>2
        <4> QED BY <2>3, <3>1, <3>3, <4>2, <4>3
      <3>4. CASE ProjectOf[u] # p0
        BY <2>3, <3>1, <3>2, <3>4
      <3> QED BY <3>3, <3>4
    <2> QED BY <2>6, <2>7 DEF QueuesOK, Writing, WritingNext, InfoOf
  <1> QED BY <1>5, <1>6

\* The call of t joins the chain of its project.
LEMMA JoinQueues ==
  ASSUME CallInv, NEW t \in Task, NEW c, Moves(t, "queued", c), InfoOf(c).mutates,
         ~Writing(t), queue' = [queue EXCEPT ![ProjectOf[t]] = Append(@, t)]
  PROVE  QueuesOK'
  <1> DEFINE p0 == ProjectOf[t]
             q  == queue[p0]
  <1>1. /\ p0 \in Project /\ q \in Seq(Task)
        /\ \A p \in Project : queue[p] \in Seq(Task) /\ Len(queue[p]) \in Nat
    BY ProjectOfAssumption, LenProperties DEF CallInv, TypeOK
  <1>2. /\ pc'[t] = "queued" /\ call'[t] = c /\ WritingNext(t)
        /\ \A u \in Task : u # t => pc'[u] = pc[u] /\ call'[u] = call[u]
    BY DEF CallInv, TypeOK, Moves, WritingNext
  <1>3. \A u \in Task : u # t => (WritingNext(u) <=> Writing(u))
    BY <1>2 DEF Writing, WritingNext, InfoOf
  <1>4. /\ \A p \in Project : \A i \in 1..Len(queue[p]) : queue[p][i] \in Task
        /\ \A p \in Project : \A i \in 1..Len(queue[p]) : queue[p][i] # t
    BY <1>1, ElementOfSeq DEF CallInv, QueuesOK
  <1>5. /\ Len(Append(q, t)) = Len(q) + 1 /\ Append(q, t)[Len(q) + 1] = t
        /\ \A i \in 1..Len(q) : Append(q, t)[i] = q[i]
    BY <1>1, AppendProperties
  <1>6. \A p \in Project : queue'[p] = IF p = p0 THEN Append(q, t) ELSE queue[p]
    BY DEF CallInv, TypeOK
  <1>7. ASSUME NEW p \in Project, NEW i \in 1..Len(queue[p])
        PROVE  /\ queue'[p][i] = queue[p][i] /\ i \in 1..Len(queue'[p])
    BY <1>1, <1>5, <1>6, <1>7
  <1>8. ASSUME NEW p \in Project, NEW i \in 1..Len(queue'[p])
        PROVE  \/ i \in 1..Len(queue[p])
               \/ p = p0 /\ i = Len(q) + 1 /\ queue'[p][i] = t
    BY <1>1, <1>5, <1>6, <1>8
  <1>9. ASSUME NEW p \in Project, NEW i \in 1..Len(queue'[p])
        PROVE  /\ ProjectOf[queue'[p][i]] = p
               /\ WritingNext(queue'[p][i])
               /\ i > 1 => pc'[queue'[p][i]] = "queued"
               /\ \A j \in 1..Len(queue'[p]) : queue'[p][i] = queue'[p][j] => i = j
    <2>1. CASE i \in 1..Len(queue[p])
      <3>1. /\ queue'[p][i] = queue[p][i] /\ queue[p][i] \in Task /\ queue[p][i] # t
        BY <1>4, <1>7, <2>1
      <3>2. /\ ProjectOf[queue[p][i]] = p /\ Writing(queue[p][i])
            /\ i > 1 => pc[queue[p][i]] = "queued"
            /\ \A j \in 1..Len(queue[p]) : queue[p][i] = queue[p][j] => i = j
        BY <2>1 DEF CallInv, QueuesOK
      <3>3. ASSUME NEW j \in 1..Len(queue'[p]), queue'[p][i] = queue'[p][j] PROVE i = j
        BY <1>7, <1>8, <3>1, <3>2, <3>3
      <3> QED BY <1>2, <1>3, <3>1, <3>2, <3>3
    <2>2. CASE p = p0 /\ i = Len(q) + 1 /\ queue'[p][i] = t
      <3>1. ASSUME NEW j \in 1..Len(queue'[p]), queue'[p][i] = queue'[p][j] PROVE i = j
        <4>1. CASE j \in 1..Len(queue[p])
          BY <1>4, <1>7, <2>2, <3>1, <4>1
        <4>2. CASE j = Len(q) + 1
          BY <2>2, <4>2
        <4> QED BY <1>8, <3>1, <4>1, <4>2
      <3> QED BY <1>2, <2>2, <3>1
    <2> QED BY <1>8, <1>9, <2>1, <2>2
  <1>10. ASSUME NEW u \in Task, WritingNext(u)
         PROVE  \E i \in 1..Len(queue'[ProjectOf[u]]) : queue'[ProjectOf[u]][i] = u
    <2>1. CASE u = t
      <3>1. Len(q) + 1 \in 1..Len(queue'[p0]) /\ queue'[p0][Len(q) + 1] = t
        <4>1. queue'[p0] = Append(q, t) /\ Len(q) \in Nat
          BY <1>1, <1>6
        <4> QED BY <1>5, <4>1
      <3> QED BY <2>1, <3>1
    <2>2. CASE u # t
      <3>1. Writing(u) /\ ProjectOf[u] \in Project
        BY <1>3, <1>10, <2>2, ProjectOfAssumption
      <3>2. PICK k \in 1..Len(queue[ProjectOf[u]]) : queue[ProjectOf[u]][k] = u
        BY <3>1 DEF CallInv, QueuesOK
      <3> QED BY <1>7, <3>1, <3>2
    <2> QED BY <2>1, <2>2
  <1> QED BY <1>9, <1>10 DEF QueuesOK, Writing, WritingNext, InfoOf

\* The call of t stays where it is in the chains, at the head if it begins.
LEMMA HoldQueues ==
  ASSUME CallInv, NEW t \in Task, NEW at, NEW c, Moves(t, at, c), queue' = queue,
         Writing(t) => InfoOf(c).mutates /\ at \in {"running", "stuck"}
                         /\ Head(queue[ProjectOf[t]]) = t,
         ~Writing(t) => ~InfoOf(c).mutates \/ at \notin {"queued", "running", "stuck"}
  PROVE  QueuesOK'
  <1>1. \A p \in Project : queue[p] \in Seq(Task) /\ Len(queue[p]) \in Nat
    BY LenProperties DEF CallInv, TypeOK
  <1>2. /\ pc'[t] = at /\ call'[t] = c /\ (WritingNext(t) <=> Writing(t))
        /\ \A u \in Task : u # t => pc'[u] = pc[u] /\ call'[u] = call[u]
    BY DEF CallInv, TypeOK, Moves, Writing, WritingNext, InfoOf
  <1>3. \A u \in Task : WritingNext(u) <=> Writing(u)
    BY <1>2 DEF Writing, WritingNext, InfoOf
  <1>4. \A p \in Project : \A i \in 1..Len(queue[p]) : queue[p][i] \in Task
    BY <1>1, ElementOfSeq
  <1>5. ASSUME NEW p \in Project, NEW i \in 1..Len(queue[p]), i > 1
        PROVE  pc'[queue[p][i]] = "queued"
    <2>1. /\ ProjectOf[queue[p][i]] = p /\ Writing(queue[p][i]) /\ pc[queue[p][i]] = "queued"
          /\ \A j \in 1..Len(queue[p]) : queue[p][i] = queue[p][j] => i = j
      BY <1>5 DEF CallInv, QueuesOK
    <2>2. queue[p][i] # t
      <3>1. SUFFICES ASSUME queue[p][i] = t PROVE FALSE
        OBVIOUS
      <3>2. Writing(t) /\ ProjectOf[t] = p /\ Head(queue[p]) = t
        BY <2>1, <3>1
      <3>3. queue[p][1] = t /\ 1 \in 1..Len(queue[p])
        BY <1>1, <1>5, <3>2, WriterHead, TailFacts
      <3> QED BY <1>5, <2>1, <3>1, <3>3
    <2> QED BY <1>2, <1>4, <2>1, <2>2
  <1>6. \A p \in Project : \A i \in 1..Len(queue[p]) :
          /\ ProjectOf[queue[p][i]] = p /\ WritingNext(queue[p][i])
          /\ \A j \in 1..Len(queue[p]) : queue[p][i] = queue[p][j] => i = j
    BY <1>3, <1>4 DEF CallInv, QueuesOK
  <1>7. \A u \in Task : WritingNext(u) =>
          \E i \in 1..Len(queue[ProjectOf[u]]) : queue[ProjectOf[u]][i] = u
    BY <1>3 DEF CallInv, QueuesOK
  <1> QED BY <1>5, <1>6, <1>7 DEF QueuesOK, Writing, WritingNext, InfoOf

-----------------------------------------------------------------------------
(* Steps of a call                                                          *)

\* The number of calls made, while t makes or has made the call c.
MadeFor(t, c) ==
  /\ made' \in [Task -> Nat] /\ made'[t] = c.n
  /\ \A u \in Task : u # t => made'[u] = made[u]

\* A call that settles is no longer under way.
LEMMA ReturnCalls ==
  ASSUME CallInv, NEW t \in Task, NEW c, IsCall(t, c), MadeFor(t, c), Moves(t, "idle", NoCall),
         Writing(t) => Head(queue[ProjectOf[t]]) = t,
         queue' = IF Writing(t) THEN [queue EXCEPT ![ProjectOf[t]] = Tail(@)] ELSE queue
  PROVE  CallsOK' /\ QueuesOK'
  <1>1. QueuesOK'
    BY LeaveQueues
  <1>2. MaxCalls[t] \in Nat /\ c.n \in 1..MaxCalls[t]
    BY BoundsAssumption DEF IsCall
  <1>3. \A u \in Task : /\ pc'[u] = IF u = t THEN "idle" ELSE pc[u]
                        /\ call'[u] = IF u = t THEN NoCall ELSE call[u]
    BY DEF CallInv, TypeOK, Moves
  <1>4. CallsOK'
    BY <1>2, <1>3 DEF CallInv, CallsOK, MadeFor, InfoOf
  <1> QED BY <1>1, <1>4

\* A call that waits is the last one its task made.
LEMMA HoldCalls ==
  ASSUME CallInv, NEW t \in Task, NEW at, NEW c, IsCall(t, c), MadeFor(t, c), Moves(t, at, c),
         at # "idle", at \in {"queued", "stuck"} => InfoOf(c).mutates
  PROVE  CallsOK'
  <1>1. MaxCalls[t] \in Nat /\ c.n \in 1..MaxCalls[t] /\ c \in Calls
    BY BoundsAssumption DEF IsCall
  <1>2. \A u \in Task : /\ pc'[u] = IF u = t THEN at ELSE pc[u]
                        /\ call'[u] = IF u = t THEN c ELSE call[u]
    BY DEF CallInv, TypeOK, Moves
  <1> QED BY <1>1, <1>2 DEF CallInv, CallsOK, MadeFor, InfoOf

\* A call refused at the door or while parked.
LEMMA RefuseCalls ==
  ASSUME CallInv, NEW t \in Task, NEW c, IsCall(t, c), MadeFor(t, c), Refuse(t, c),
         pc[t] \in {"idle", "consent"}
  PROVE  CallsOK' /\ QueuesOK'
  <1>1. ~Writing(t) /\ queue' = queue /\ Moves(t, "idle", NoCall)
    BY DEF Writing, Refuse, Return, Moves
  <1> QED BY <1>1, ReturnCalls

\* A call parked for consent.
LEMMA ParkCalls ==
  ASSUME CallInv, NEW t \in Task, NEW c, IsCall(t, c), MadeFor(t, c), Moves(t, "consent", c),
         pc[t] = "idle", queue' = queue
  PROVE  CallsOK' /\ QueuesOK'
  <1>1. ~Writing(t)
    BY DEF Writing
  <1>2. QueuesOK'
    BY <1>1, HoldQueues
  <1>3. CallsOK'
    BY HoldCalls
  <1> QED BY <1>2, <1>3

\* A call let through: it is queued, or executed at once.
LEMMA ProceedCalls ==
  ASSUME CallInv, NEW t \in Task, NEW c, IsCall(t, c), MadeFor(t, c), Proceed(t, c),
         pc[t] \in {"idle", "consent"}
  PROVE  CallsOK' /\ QueuesOK'
  <1>0. ~Writing(t)
    BY DEF Writing
  <1>1. CASE /\ InfoOf(c).mutates /\ Moves(t, "queued", c)
             /\ queue' = [queue EXCEPT ![ProjectOf[t]] = Append(@, t)]
    <2>1. QueuesOK'
      BY <1>0, <1>1, JoinQueues
    <2>2. CallsOK'
      BY <1>1, HoldCalls
    <2> QED BY <2>1, <2>2
  <1>2. CASE ~InfoOf(c).mutates /\ Moves(t, "idle", NoCall) /\ queue' = queue
    BY <1>0, <1>2, ReturnCalls
  <1>3. CASE ~InfoOf(c).mutates /\ Moves(t, "running", c) /\ queue' = queue
    <2>1. QueuesOK'
      BY <1>0, <1>3, HoldQueues
    <2>2. CallsOK'
      BY <1>3, HoldCalls
    <2> QED BY <2>1, <2>2
  <1> QED BY <1>1, <1>2, <1>3 DEF Proceed, Execute, Return, Moves

\* A call that has begun, or whose turn it is, settles.
LEMMA SettleCalls ==
  ASSUME CallInv, NEW t \in Task, pc[t] \in {"queued", "running", "stuck"},
         pc[t] = "queued" => Head(queue[ProjectOf[t]]) = t,
         Moves(t, "idle", NoCall), LeaveQueue(t, call[t]), made' = made
  PROVE  CallsOK' /\ QueuesOK' /\ queue' \in [Project -> Seq(Task)]
  <1>1. IsCall(t, call[t]) /\ call[t].n = made[t]
    BY CallFacts DEF CallInv
  <1>2. MadeFor(t, call[t])
    BY <1>1 DEF MadeFor, CallInv, TypeOK
  <1>3. Writing(t) <=> InfoOf(call[t]).mutates
    BY DEF Writing
  <1>4. Writing(t) => queue[ProjectOf[t]] # <<>> /\ Head(queue[ProjectOf[t]]) = t
    BY WriterHead
  <1>5. queue' = IF Writing(t) THEN [queue EXCEPT ![ProjectOf[t]] = Tail(@)] ELSE queue
    BY <1>3 DEF LeaveQueue
  <1>6. queue' \in [Project -> Seq(Task)]
    BY <1>4, <1>5, QueueTypes DEF CallInv, TypeOK
  <1>7. CallsOK' /\ QueuesOK'
    BY <1>1, <1>2, <1>4, <1>5, ReturnCalls
  <1> QED BY <1>6, <1>7

-----------------------------------------------------------------------------
(* Actions                                                                  *)

\* No rule the user leaves behind is out of type.
LEMMA SettledTypes ==
  ASSUME TypeOK, NEW t \in Task, NEW c, IsCall(t, c),
         NEW choice, Settled(<<t, c.n>>, ProjectOf[t], InfoOf(c).capability, c.scope, choice)
  PROVE  RulesOK'
  <1> DEFINE cap  == InfoOf(c).capability
             rule == [id |-> <<t, c.n>>, projects |-> {ProjectOf[t]}, capability |-> cap,
                      pattern |-> Widened[cap][c.scope], decision |-> "allow"]
  <1>1. <<t, c.n>> \in RuleId
    BY RuleIdAssumption DEF IsCall
  <1>2. cap \in Capability /\ c.scope \in Scope /\ ProjectOf[t] \in Project
    BY ProjectOfAssumption DEF IsCall, Descriptor
  <1>3. Widened[cap][c.scope] \in SUBSET Scope
    BY <1>2, WidenedAssumption
  <1>4. rule \in Rule
    BY <1>1, <1>2, <1>3 DEF Rule
  <1>5. /\ session' \in {session, session \cup {rule}}
        /\ store' \in {store, store \cup {rule}}
    BY DEF Settled
  <1> QED BY <1>4, <1>5 DEF RulesOK, TypeOK

\* A call t makes next.
LEMMA CallingFacts ==
  ASSUME CallInv, NEW t \in Task, NEW c \in [tool : Tool, scope : Scope, n : {made[t] + 1}],
         Calling(t, c)
  PROVE  IsCall(t, c) /\ MadeFor(t, c) /\ pc[t] = "idle" /\ c.n = made[t] + 1
  <1>1. IsCall(t, c) /\ c.n = made[t] + 1 /\ pc[t] = "idle"
    BY NextCallFacts DEF Calling, CallInv
  <1>2. made[t] \in Nat
    BY DEF CallInv, TypeOK
  <1>3. MadeFor(t, c)
    BY <1>1, <1>2 DEF Calling, MadeFor, CallInv, TypeOK
  <1> QED BY <1>1, <1>3

\* A call made: refused, let through or parked.
LEMMA CallingInv ==
  ASSUME CallInv, NEW t \in Task, NEW c \in [tool : Tool, scope : Scope, n : {made[t] + 1}],
         InvalidInput(t, c) \/ Check(t, c)
  PROVE  CallInv'
  <1>1. Calling(t, c)
    BY DEF InvalidInput, Check
  <1>2. IsCall(t, c) /\ MadeFor(t, c) /\ pc[t] = "idle"
    BY <1>1, CallingFacts
  <1>3. made' \in [Task -> Nat] /\ UNCHANGED <<rules, aborted, exits, lost, consents>>
    BY <1>1, <1>2 DEF Calling, MadeFor
  <1>4. CASE Refuse(t, c)
    <2>1. TypeOK'
      BY <1>2, <1>3, <1>4, ReturnTypes DEF Refuse, CallInv, TypeOK, RulesOK, rules
    <2> QED BY <1>2, <1>4, <2>1, RefuseCalls DEF CallInv
  <1>5. CASE Proceed(t, c)
    <2>1. TypeOK'
      BY <1>2, <1>3, <1>5, ProceedTypes DEF CallInv, TypeOK, RulesOK, rules
    <2> QED BY <1>2, <1>5, <2>1, ProceedCalls DEF CallInv
  <1>6. CASE Moves(t, "consent", c) /\ UNCHANGED <<queue, work, rows, unaudited, passed, done>>
    <2>1. TypeOK'
      BY <1>2, <1>3, <1>6 DEF CallInv, TypeOK, RulesOK, rules, Moves, IsCall
    <2> QED BY <1>2, <1>6, <2>1, ParkCalls DEF CallInv
  <1> QED BY <1>4, <1>5, <1>6 DEF InvalidInput, Check, Moves

\* A parked call is answered or times out.
LEMMA ConsentInv ==
  ASSUME CallInv, NEW t \in Task,
         (\E choice \in Choice : Respond(t, choice)) \/ ConsentTimesOut(t)
  PROVE  CallInv'
  <1>1. pc[t] = "consent" /\ UNCHANGED <<made, aborted, exits, lost>>
    BY DEF Respond, ConsentTimesOut
  <1>2. IsCall(t, call[t]) /\ call[t].n = made[t] /\ IdOf(t) = <<t, call[t].n>>
    BY <1>1, CallFacts DEF CallInv
  <1>3. MadeFor(t, call[t])
    BY <1>1, <1>2 DEF MadeFor, CallInv, TypeOK
  <1>4. RulesOK'
    <2>1. CASE ConsentTimesOut(t)
      BY <2>1 DEF ConsentTimesOut, CallInv, TypeOK, RulesOK, rules
    <2>2. ASSUME NEW choice \in Choice, Respond(t, choice) PROVE RulesOK'
      BY <1>2, <2>2, SettledTypes DEF Respond, CallInv
    <2> QED BY <2>1, <2>2
  <1>5. consents' \subseteq Consent
    <2>1. CASE UNCHANGED consents
      BY <2>1 DEF CallInv, TypeOK
    <2>2. ASSUME NEW choice \in Choice \ {"deny"}
          PROVE  [id |-> IdOf(t), project |-> ProjectOf[t],
                  capability |-> InfoOf(call[t]).capability,
                  scope |-> call[t].scope, choice |-> choice] \in Consent
      BY <1>2, ProjectOfAssumption DEF IsCall, Descriptor, Consent, Choice
    <2> QED BY <2>1, <2>2 DEF Respond, ConsentTimesOut, CallInv, TypeOK
  <1>6. CASE Refuse(t, call[t])
    <2>1. TypeOK'
      BY <1>1, <1>2, <1>4, <1>5, <1>6, ReturnTypes DEF Refuse, CallInv, TypeOK
    <2> QED BY <1>1, <1>2, <1>3, <1>6, <2>1, RefuseCalls DEF CallInv
  <1>7. CASE Proceed(t, call[t])
    <2>1. TypeOK'
      BY <1>1, <1>2, <1>4, <1>5, <1>7, ProceedTypes DEF CallInv, TypeOK
    <2> QED BY <1>1, <1>2, <1>3, <1>7, <2>1, ProceedCalls DEF CallInv
  <1> QED BY <1>6, <1>7 DEF Respond, ConsentTimesOut

\* The turn of a write comes.
LEMMA BeginInv ==
  ASSUME CallInv, NEW t \in Task, Begin(t)
  PROVE  CallInv'
  <1>1. /\ pc[t] = "queued" /\ Head(queue[ProjectOf[t]]) = t
        /\ UNCHANGED <<rules, made, aborted, exits, lost, passed, consents>>
    BY DEF Begin, HasTurn
  <1>2. IsCall(t, call[t]) /\ call[t].n = made[t] /\ InfoOf(call[t]).mutates /\ Writing(t)
    BY <1>1, CallFacts DEF CallInv, CallsOK, Writing
  <1>3. MadeFor(t, call[t])
    BY <1>1, <1>2 DEF MadeFor, CallInv, TypeOK
  <1>4. CASE Execute(t, call[t]) /\ pc'[t] = "idle" /\ LeaveQueue(t, call[t])
    <2>1. Moves(t, "idle", NoCall)
      BY <1>4 DEF Execute, Return, Moves, CallInv, TypeOK
    <2>2. CallsOK' /\ QueuesOK' /\ queue' \in [Project -> Seq(Task)]
      BY <1>1, <1>4, <2>1, SettleCalls
    <2>3. TypeOK'
      BY <1>1, <1>2, <1>4, <2>2, ExecuteTypes DEF CallInv, TypeOK, RulesOK, rules
    <2> QED BY <2>2, <2>3 DEF CallInv
  <1>5. CASE Execute(t, call[t]) /\ pc'[t] # "idle" /\ UNCHANGED queue
    <2>1. Moves(t, "running", call[t])
      BY <1>5 DEF Execute, Return, Moves, CallInv, TypeOK
    <2>2. QueuesOK'
      BY <1>1, <1>2, <1>5, <2>1, HoldQueues
    <2>3. CallsOK'
      BY <1>2, <1>3, <2>1, HoldCalls
    <2>4. TypeOK'
      BY <1>1, <1>2, <1>5, ExecuteTypes DEF CallInv, TypeOK, RulesOK, rules
    <2> QED BY <2>2, <2>3, <2>4 DEF CallInv
  <1>6. CASE pc' = [pc EXCEPT ![t] = "stuck"] /\ UNCHANGED <<call, queue, work, rows, unaudited, done>>
    <2>1. Moves(t, "stuck", call[t])
      BY <1>6 DEF Moves, CallInv, TypeOK
    <2>2. QueuesOK'
      BY <1>1, <1>2, <1>6, <2>1, HoldQueues
    <2>3. CallsOK'
      BY <1>2, <1>3, <2>1, HoldCalls
    <2>4. TypeOK'
      BY <1>1, <1>6 DEF CallInv, TypeOK, RulesOK, rules
    <2> QED BY <2>2, <2>3, <2>4 DEF CallInv
  <1> QED BY <1>4, <1>5, <1>6 DEF Begin

\* Nothing that the calls and the chains are made of changes.
LEMMA StillCalls ==
  ASSUME CallInv, UNCHANGED <<pc, call, made, queue>>
  PROVE  CallsOK' /\ QueuesOK'
  BY DEF CallInv, CallsOK, QueuesOK, Writing, InfoOf

\* An execution ends, awaited or not.
LEMMA EndInv ==
  ASSUME CallInv, NEW x \in work, NEW ok \in BOOLEAN, ToolEnds(x, ok)
  PROVE  CallInv'
  <1>1. /\ work' \subseteq work /\ done' \subseteq done \cup {x.id}
        /\ UNCHANGED <<rules, made, aborted, exits, lost, passed, consents>>
    BY DEF ToolEnds
  <1>2. x.id \in Id /\ x.id[1] \in Task
    BY DEF CallInv, TypeOK, Id
  <1>3. CASE /\ Awaited(x) /\ Return(x.id[1], call[x.id[1]], "allow", ok)
             /\ LeaveQueue(x.id[1], call[x.id[1]])
    <2> DEFINE t == x.id[1]
    <2>1. pc[t] = "running" /\ Moves(t, "idle", NoCall) /\ LeaveQueue(t, call[t])
      BY <1>3 DEF Awaited, Return, Moves
    <2>2. CallsOK' /\ QueuesOK' /\ queue' \in [Project -> Seq(Task)]
      BY <1>1, <1>2, <2>1, SettleCalls
    <2>3. IsCall(t, call[t])
      BY <1>2, <2>1, CallFacts DEF CallInv
    <2>4. TypeOK'
      BY <1>1, <1>2, <1>3, <2>2, <2>3, ReturnTypes DEF CallInv, TypeOK, RulesOK, rules
    <2> QED BY <2>2, <2>4 DEF CallInv
  <1>4. CASE UNCHANGED <<pc, call, rows, unaudited, queue>>
    <2>1. CallsOK' /\ QueuesOK'
      BY <1>1, <1>4, StillCalls
    <2>2. TypeOK'
      BY <1>1, <1>2, <1>4 DEF CallInv, TypeOK, RulesOK, rules
    <2> QED BY <2>1, <2>2 DEF CallInv
  <1> QED BY <1>3, <1>4 DEF ToolEnds

\* A call returns at its tool's timer.
LEMMA TimeOutInv ==
  ASSUME CallInv, NEW t \in Task, ToolTimesOut(t)
  PROVE  CallInv'
  <1>1. /\ pc[t] \in {"running", "stuck"} /\ Return(t, call[t], "allow", FALSE)
        /\ LeaveQueue(t, call[t])
        /\ UNCHANGED <<rules, made, aborted, exits, work, passed, done, lost, consents>>
    BY DEF ToolTimesOut
  <1>2. CallsOK' /\ QueuesOK' /\ queue' \in [Project -> Seq(Task)]
    <2>1. Moves(t, "idle", NoCall)
      BY <1>1 DEF Return, Moves
    <2> QED BY <1>1, <2>1, SettleCalls
  <1>3. IsCall(t, call[t])
    BY <1>1, CallFacts DEF CallInv
  <1>4. TypeOK'
    BY <1>1, <1>2, <1>3, ReturnTypes DEF CallInv, TypeOK, RulesOK, rules
  <1> QED BY <1>2, <1>4 DEF CallInv

\* A task is cancelled.
LEMMA AbortInv ==
  ASSUME CallInv, NEW t \in Task, Abort(t)
  PROVE  CallInv'
  <1>1. aborted' \subseteq Task /\ UNCHANGED <<rules, made, exits, lost, consents>>
    BY DEF Abort, CallInv, TypeOK
  <1>2. CASE pc[t] = "consent" /\ Refuse(t, call[t])
    <2>1. IsCall(t, call[t]) /\ call[t].n = made[t]
      BY <1>2, CallFacts DEF CallInv
    <2>2. MadeFor(t, call[t])
      BY <1>1, <2>1 DEF MadeFor, CallInv, TypeOK
    <2>3. TypeOK'
      BY <1>1, <1>2, <2>1, ReturnTypes DEF Refuse, CallInv, TypeOK, RulesOK, rules
    <2> QED BY <1>2, <2>1, <2>2, <2>3, RefuseCalls DEF CallInv
  <1>3. CASE /\ pc[t] = "running"
             /\ Return(t, call[t], "allow", FALSE) /\ LeaveQueue(t, call[t])
             /\ UNCHANGED <<work, passed, done>>
    <2>1. CallsOK' /\ QueuesOK' /\ queue' \in [Project -> Seq(Task)]
      <3>1. Moves(t, "idle", NoCall)
        BY <1>3 DEF Return, Moves
      <3> QED BY <1>1, <1>3, <3>1, SettleCalls
    <2>2. IsCall(t, call[t])
      BY <1>3, CallFacts DEF CallInv
    <2>3. TypeOK'
      BY <1>1, <1>3, <2>1, <2>2, ReturnTypes DEF CallInv, TypeOK, RulesOK, rules
    <2> QED BY <2>1, <2>3 DEF CallInv
  <1>4. CASE UNCHANGED <<pc, call, rows, unaudited, queue, work, passed, done>>
    <2>1. TypeOK'
      BY <1>1, <1>4 DEF CallInv, TypeOK, RulesOK, rules
    <2> QED BY <1>1, <1>4, <2>1, StillCalls DEF CallInv
  <1> QED BY <1>2, <1>3, <1>4 DEF Abort

\* A new run and a withdrawn rule touch no call.
LEMMA AsideInv ==
  ASSUME CallInv,
         (\E t \in Task : NewRun(t)) \/ (\E rule \in store \cup session : Revoke(rule))
  PROVE  CallInv'
  <1>1. /\ UNCHANGED <<pc, call, made, queue, work, rows, unaudited, passed, done, exits, lost>>
        /\ aborted' \subseteq aborted /\ consents' \subseteq consents
        /\ store' \subseteq store /\ session' \subseteq session
    BY DEF NewRun, Revoke, Withdrawn, calls, rules
  <1>2. CallsOK' /\ QueuesOK'
    BY <1>1, StillCalls
  <1>3. TypeOK'
    BY <1>1 DEF CallInv, TypeOK, RulesOK
  <1> QED BY <1>2, <1>3 DEF CallInv

\* A process exit leaves no call and no chain.
LEMMA ExitInv ==
  ASSUME CallInv, Exit
  PROVE  CallInv'
  <1>1. /\ exits' = exits + 1 /\ session' = {} /\ aborted' = {} /\ work' = {}
        /\ lost' = lost \cup {IdOf(t) : t \in {u \in Task : pc[u] # "idle"}}
        /\ pc' = [t \in Task |-> "idle"] /\ call' = [t \in Task |-> NoCall]
        /\ queue' = [p \in Project |-> <<>>]
        /\ consents' \subseteq consents
        /\ UNCHANGED <<store, made, rows, unaudited, passed>>
    BY DEF Exit
  <1>2. done' \subseteq Id
    BY DEF Exit, CallInv, TypeOK
  <1>3. lost' \subseteq Id
    <2>1. \A t \in Task : pc[t] # "idle" => IdOf(t) \in Id
      BY CallFacts DEF CallInv, IsCall
    <2> QED BY <1>1, <2>1 DEF CallInv, TypeOK
  <1>4. queue' \in [Project -> Seq(Task)] /\ \A p \in Project : Len(queue'[p]) = 0
    BY <1>1, EmptySeq
  <1>5. TypeOK'
    BY <1>1, <1>2, <1>3, <1>4 DEF CallInv, TypeOK, RulesOK
  <1>6. QueuesOK'
    <2>1. \A u \in Task : ~WritingNext(u)
      BY <1>1 DEF WritingNext
    <2>2. \A p \in Project : 1..Len(queue'[p]) = {}
      BY <1>4
    <2> QED BY <2>1, <2>2, QueuesNext
  <1>7. CallsOK'
    BY <1>1 DEF CallInv, CallsOK
  <1> QED BY <1>5, <1>6, <1>7 DEF CallInv

\* The part of the invariant this module is about is inductive by itself.
LEMMA InitCallInv == Init => CallInv
  <1> SUFFICES ASSUME Init PROVE CallInv
    OBVIOUS
  <1>1. queue \in [Project -> Seq(Task)] /\ \A p \in Project : 1..Len(queue[p]) = {}
    BY EmptySeq DEF Init
  <1>2. TypeOK
    BY <1>1, StoredAssumption DEF Init, RulesInit, TypeOK, RulesOK
  <1>3. CallsOK
    BY BoundsAssumption DEF Init, CallsOK
  <1>4. QueuesOK
    BY <1>1 DEF Init, QueuesOK, Writing
  <1> QED BY <1>2, <1>3, <1>4 DEF CallInv

\* The actions of a task, one per case; used for each part of the invariant.
LEMMA NextCallInv == CallInv /\ [Next]_vars => CallInv'
  <1> SUFFICES ASSUME CallInv, [Next]_vars PROVE CallInv'
    OBVIOUS
  <1>1. ASSUME NEW t \in Task, NEW c \in [tool : Tool, scope : Scope, n : {made[t] + 1}],
               InvalidInput(t, c) \/ Check(t, c)
        PROVE  CallInv'
    BY <1>1, CallingInv
  <1>2. ASSUME NEW t \in Task,
               (\E choice \in Choice : Respond(t, choice)) \/ ConsentTimesOut(t)
        PROVE  CallInv'
    BY <1>2, ConsentInv
  <1>3. ASSUME NEW t \in Task, Begin(t) \/ ToolTimesOut(t) \/ Abort(t)
        PROVE  CallInv'
    BY <1>3, BeginInv, TimeOutInv, AbortInv
  <1>4. CASE (\E t \in Task : NewRun(t)) \/ (\E rule \in store \cup session : Revoke(rule))
    BY <1>4, AsideInv
  <1>5. ASSUME NEW x \in work, NEW ok \in BOOLEAN, ToolEnds(x, ok)
        PROVE  CallInv'
    BY <1>5, EndInv
  <1>6. CASE Exit
    BY <1>6, ExitInv
  <1>7. CASE UNCHANGED vars
    <2>1. UNCHANGED <<store, session, pc, call, made, queue, work, rows, unaudited, passed, done,
                      aborted, exits, lost, consents>>
      BY <1>7 DEF vars, rules, calls
    <2>2. CallsOK' /\ QueuesOK'
      BY <2>1, StillCalls
    <2>3. TypeOK'
      BY <2>1 DEF CallInv, TypeOK, RulesOK
    <2> QED BY <2>2, <2>3 DEF CallInv
  <1> QED BY <1>1, <1>2, <1>3, <1>4, <1>5, <1>6, <1>7 DEF Next

\* Whatever tasks, tools, consents, timeouts, cancellations and exits there
\* are, a call under way is the last its task made, and the chain of a project
\* (writeQueues, runtime.ts) holds exactly the writes under way, of which only
\* the first has begun.
THEOREM ToolTypeCorrect == Spec => []TypeOK
  <1>1. Spec => []CallInv
    BY InitCallInv, NextCallInv, PTL DEF Spec
  <1>2. CallInv => TypeOK
    BY DEF CallInv
  <1> QED BY <1>1, <1>2, PTL
====
