---- MODULE ToolRuntimeProofs ----
(***************************************************************************)
(* The rest of ToolInv and what it is for: writes take turns, the audit is *)
(* complete, nothing gets past the permission engine without grounds.      *)
(*                                                                         *)
(* Steps lists what a step can do to executions and rows: the call of one  *)
(* task leaves, or waits at another await, or something else happens.      *)
(***************************************************************************)
EXTENDS ToolQueueProofs

\* The parts of the invariant this module adds, and all of it.
EndsInv == WorkOK /\ PassedOK /\ RowsOK

\* The call that t makes, or has under way.
Current(t, c) ==
  /\ IsCall(t, c) /\ MadeFor(t, c)
  /\ \/ pc[t] = "idle" /\ c.n = made[t] + 1
     \/ pc[t] # "idle" /\ c = call[t] /\ c.n = made[t]

Entry(t, c) == [id |-> <<t, c.n>>, tool |-> c.tool, scope |-> c.scope]

\* A call past the engine: it has just been let through, or was before.
PassedFor(t, c) ==
  passed' = IF pc[t] \in {"idle", "consent"} THEN passed \cup {Entry(t, c)} ELSE passed

Leaves(t, c, decision, ok) ==
  /\ Current(t, c) /\ Return(t, c, decision, ok)
  /\ work' \subseteq work /\ lost' = lost
  /\ \/ /\ decision = "deny" /\ ok = FALSE /\ pc[t] \in {"idle", "consent"}
        /\ passed' = passed /\ done' = done
     \/ /\ decision = "allow" /\ PassedFor(t, c)
        /\ done' \in {done, done \cup {<<t, c.n>>}}
        /\ ok = TRUE => done' = done \cup {<<t, c.n>>}

Holds(t, at, c) ==
  /\ Current(t, c) /\ Moves(t, at, c)
  /\ UNCHANGED <<rows, unaudited, done, lost>>
  /\ \/ at = "consent" /\ pc[t] = "idle" /\ UNCHANGED <<passed, work>>
     \/ at = "queued" /\ pc[t] \in {"idle", "consent"} /\ PassedFor(t, c) /\ UNCHANGED work
     \/ at = "stuck" /\ pc[t] = "queued" /\ PassedFor(t, c) /\ UNCHANGED work
     \/ /\ at = "running" /\ pc[t] \in {"idle", "consent", "queued"} /\ PassedFor(t, c)
        /\ work' = work \cup {Execution(t, c)}

\* Executions end; calls, rows and what was let through stay.
Others ==
  /\ UNCHANGED <<pc, call, made, rows, unaudited, passed, lost>>
  /\ work' \subseteq work /\ done \subseteq done'
  /\ \A id \in done' \ done : \E x \in work : x.id = id

Steps ==
  \/ \E t \in Task, c \in Calls, decision \in {"allow", "deny"}, ok \in BOOLEAN :
       Leaves(t, c, decision, ok)
  \/ \E t \in Task, c \in Calls, at \in {"consent", "queued", "running", "stuck"} :
       Holds(t, at, c)
  \/ Others
  \/ Exit

-----------------------------------------------------------------------------
(* Every step is one of these                                               *)

\* A call refused leaves.
LEMMA RefuseSteps ==
  ASSUME NEW t \in Task, NEW c, Current(t, c), Refuse(t, c),
         pc[t] \in {"idle", "consent"}, lost' = lost
  PROVE  Steps
  <1>1. c \in Calls
    BY DEF Current, IsCall
  <1>2. Leaves(t, c, "deny", FALSE)
    BY DEF Refuse, Leaves
  <1> QED BY <1>1, <1>2 DEF Steps

\* A call executed leaves, or waits for the tool.
LEMMA ExecuteSteps ==
  ASSUME NEW t \in Task, NEW c, Current(t, c), Execute(t, c), PassedFor(t, c),
         pc[t] \in {"idle", "consent", "queued"}, lost' = lost
  PROVE  Steps
  <1>1. c \in Calls
    BY DEF Current, IsCall
  <1>2. CASE Return(t, c, "allow", TRUE) /\ done' = done \cup {<<t, c.n>>} /\ UNCHANGED work
    <2>1. Leaves(t, c, "allow", TRUE)
      BY <1>2 DEF Leaves
    <2> QED BY <1>1, <2>1 DEF Steps
  <1>3. CASE Return(t, c, "allow", FALSE) /\ UNCHANGED <<done, work>>
    <2>1. Leaves(t, c, "allow", FALSE)
      BY <1>3 DEF Leaves
    <2> QED BY <1>1, <2>1 DEF Steps
  <1>4. CASE /\ Moves(t, "running", c) /\ work' = work \cup {Execution(t, c)}
             /\ UNCHANGED <<rows, unaudited, done>>
    <2>1. Holds(t, "running", c)
      BY <1>4 DEF Holds
    <2> QED BY <1>1, <2>1 DEF Steps
  <1> QED BY <1>2, <1>3, <1>4 DEF Execute, Moves

\* A call let through waits for its turn or is executed.
LEMMA ProceedSteps ==
  ASSUME NEW t \in Task, NEW c, Current(t, c), Proceed(t, c),
         pc[t] \in {"idle", "consent"}, lost' = lost
  PROVE  Steps
  <1>1. c \in Calls /\ PassedFor(t, c)
    BY DEF Current, IsCall, Proceed, PassedFor, Entry
  <1>2. CASE Moves(t, "queued", c) /\ UNCHANGED <<work, rows, unaudited, done>>
    <2>1. Holds(t, "queued", c)
      BY <1>1, <1>2 DEF Holds
    <2> QED BY <1>1, <2>1 DEF Steps
  <1>3. CASE Execute(t, c)
    BY <1>1, <1>3, ExecuteSteps
  <1> QED BY <1>2, <1>3 DEF Proceed, Moves

\* A call past the engine returns.
LEMMA ReturnSteps ==
  ASSUME NEW t \in Task, Current(t, call[t]), NEW ok \in BOOLEAN,
         Return(t, call[t], "allow", ok), pc[t] \in {"running", "stuck"},
         work' \subseteq work, lost' = lost, passed' = passed,
         done' = IF ok THEN done \cup {IdOf(t)} ELSE done
  PROVE  Steps
  <1>1. call[t] \in Calls /\ IdOf(t) = <<t, call[t].n>>
    BY DEF Current, IsCall, IdOf
  <1>2. Leaves(t, call[t], "allow", ok)
    BY <1>1 DEF Leaves, PassedFor
  <1> QED BY <1>1, <1>2 DEF Steps

\* The call under way is current in the steps that make no call.
LEMMA UnderWay ==
  ASSUME CallInv, NEW t \in Task, pc[t] # "idle", made' = made
  PROVE  Current(t, call[t]) /\ IdOf(t) = <<t, call[t].n>>
  <1>1. IsCall(t, call[t]) /\ call[t].n = made[t] /\ IdOf(t) = <<t, call[t].n>>
    BY CallFacts DEF CallInv
  <1>2. MadeFor(t, call[t])
    BY <1>1 DEF MadeFor, CallInv, TypeOK
  <1> QED BY <1>1, <1>2 DEF Current

\* Every step of the runtime is listed.
LEMMA NextSteps ==
  ASSUME CallInv, Next
  PROVE  Steps
  <1>1. ASSUME NEW t \in Task, NEW c \in [tool : Tool, scope : Scope, n : {made[t] + 1}],
               InvalidInput(t, c) \/ Check(t, c)
        PROVE  Steps
    <2>1. Calling(t, c) /\ lost' = lost
      BY <1>1 DEF InvalidInput, Check, Calling
    <2>2. Current(t, c) /\ pc[t] = "idle"
      BY <2>1, CallingFacts DEF Current
    <2>3. CASE Refuse(t, c)
      BY <2>1, <2>2, <2>3, RefuseSteps
    <2>4. CASE Proceed(t, c)
      BY <2>1, <2>2, <2>4, ProceedSteps
    <2>5. CASE Moves(t, "consent", c) /\ UNCHANGED <<work, rows, unaudited, passed, done>>
      <3>1. Holds(t, "consent", c) /\ c \in Calls
        BY <2>1, <2>2, <2>5 DEF Holds, Current, IsCall
      <3> QED BY <3>1 DEF Steps
    <2> QED BY <1>1, <2>3, <2>4, <2>5 DEF InvalidInput, Check, Moves
  <1>2. ASSUME NEW t \in Task,
               (\E choice \in Choice : Respond(t, choice)) \/ ConsentTimesOut(t)
        PROVE  Steps
    <2>1. pc[t] = "consent" /\ lost' = lost /\ made' = made
      BY <1>2 DEF Respond, ConsentTimesOut
    <2>2. Current(t, call[t])
      BY <2>1, UnderWay
    <2>3. CASE Refuse(t, call[t])
      BY <2>1, <2>2, <2>3, RefuseSteps
    <2>4. CASE Proceed(t, call[t])
      BY <2>1, <2>2, <2>4, ProceedSteps
    <2> QED BY <1>2, <2>3, <2>4 DEF Respond, ConsentTimesOut
  <1>3. ASSUME NEW t \in Task, Begin(t)
        PROVE  Steps
    <2>1. pc[t] = "queued" /\ lost' = lost /\ made' = made /\ passed' = passed
      BY <1>3 DEF Begin, HasTurn
    <2>2. Current(t, call[t]) /\ PassedFor(t, call[t])
      BY <2>1, UnderWay DEF PassedFor
    <2>3. CASE Execute(t, call[t])
      BY <2>1, <2>2, <2>3, ExecuteSteps
    <2>4. CASE pc' = [pc EXCEPT ![t] = "stuck"] /\ UNCHANGED <<call, work, rows, unaudited, done>>
      <3>1. Moves(t, "stuck", call[t]) /\ call[t] \in Calls
        BY <2>2, <2>4 DEF Moves, CallInv, TypeOK, Current, IsCall
      <3>2. Holds(t, "stuck", call[t])
        BY <2>1, <2>2, <2>4, <3>1 DEF Holds
      <3> QED BY <3>1, <3>2 DEF Steps
    <2> QED BY <1>3, <2>3, <2>4 DEF Begin
  <1>4. ASSUME NEW t \in Task, ToolTimesOut(t)
        PROVE  Steps
    <2>1. /\ pc[t] \in {"running", "stuck"} /\ Return(t, call[t], "allow", FALSE)
          /\ UNCHANGED <<made, lost, passed, work, done>>
      BY <1>4 DEF ToolTimesOut
    <2>2. Current(t, call[t])
      BY <2>1, UnderWay
    <2> QED BY <2>1, <2>2, ReturnSteps
  <1>5. ASSUME NEW t \in Task, Abort(t)
        PROVE  Steps
    <2>1. lost' = lost /\ made' = made
      BY <1>5 DEF Abort
    <2>2. CASE pc[t] = "consent" /\ Refuse(t, call[t])
      <3>1. Current(t, call[t])
        BY <2>1, <2>2, UnderWay
      <3> QED BY <2>1, <2>2, <3>1, RefuseSteps
    <2>3. CASE /\ pc[t] = "running" /\ Return(t, call[t], "allow", FALSE)
               /\ UNCHANGED <<work, passed, done>>
      <3>1. Current(t, call[t])
        BY <2>1, <2>3, UnderWay
      <3> QED BY <2>1, <2>3, <3>1, ReturnSteps
    <2>4. CASE UNCHANGED <<pc, call, rows, unaudited, queue, work, passed, done>>
      BY <2>1, <2>4 DEF Others, Steps
    <2> QED BY <1>5, <2>2, <2>3, <2>4 DEF Abort
  <1>6. ASSUME NEW x \in work, NEW ok \in BOOLEAN, ToolEnds(x, ok)
        PROVE  Steps
    <2>1. /\ work' \subseteq work /\ UNCHANGED <<made, lost, passed>>
          /\ done' = IF ok THEN done \cup {x.id} ELSE done
      BY <1>6 DEF ToolEnds
    <2>2. CASE Awaited(x) /\ Return(x.id[1], call[x.id[1]], "allow", ok)
      <3> DEFINE t == x.id[1]
      <3>1. t \in Task /\ pc[t] = "running" /\ IdOf(t) = x.id
        BY <2>2 DEF CallInv, TypeOK, Id, Awaited
      <3>2. Current(t, call[t])
        BY <2>1, <3>1, UnderWay
      <3>3. done' = IF ok THEN done \cup {IdOf(t)} ELSE done
        BY <2>1, <3>1
      <3>4. Return(t, call[t], "allow", ok)
        BY <2>2
      <3> HIDE DEF t
      <3> QED BY <2>1, <3>1, <3>2, <3>3, <3>4, ReturnSteps
    <2>3. CASE UNCHANGED <<pc, call, rows, unaudited>>
      BY <2>1, <2>3 DEF Others, Steps
    <2> QED BY <1>6, <2>2, <2>3 DEF ToolEnds
  <1>7. CASE (\E t \in Task : NewRun(t)) \/ (\E rule \in store \cup session : Revoke(rule))
    BY <1>7 DEF NewRun, Revoke, calls, Others, Steps
  <1> QED BY <1>1, <1>2, <1>3, <1>4, <1>5, <1>6, <1>7 DEF Next, Steps

-----------------------------------------------------------------------------
(* Executions, rows and what was let through                                *)

\* Ids: the number of a call is never 0, that of no call is.
LEMMA IdFacts ==
  ASSUME NEW id \in Id
  PROVE  id = <<id[1], id[2]>> /\ id[1] \in Task /\ id[2] \in Nat /\ id[2] > 0
  <1>1. PICK t \in Task : id \in {t} \X (1..MaxCalls[t])
    BY DEF Id
  <1>2. MaxCalls[t] \in Nat
    BY BoundsAssumption
  <1> QED BY <1>1, <1>2

\* The id of the call t makes has no row, no entry unless the call is past
\* the engine, and no execution unless it runs.
LEMMA Fresh ==
  ASSUME CallInv, EndsInv, NEW t \in Task, NEW c, Current(t, c)
  PROVE  /\ \A r \in rows : r.id # <<t, c.n>>
         /\ <<t, c.n>> \notin lost \cup unaudited
         /\ pc[t] \in {"idle", "consent"} =>
              /\ \A e \in passed : e.id # <<t, c.n>>
              /\ <<t, c.n>> \notin done
         /\ pc[t] \notin {"idle", "consent"} => HasPassed(<<t, c.n>>)
         /\ \A x \in work : x.id = <<t, c.n>> => pc[t] = "running" /\ x.tool = c.tool
  <1>1. made[t] \in Nat /\ <<t, c.n>>[1] = t /\ <<t, c.n>>[2] = c.n
    BY DEF CallInv, TypeOK
  <1>2. CASE pc[t] = "idle" /\ c.n = made[t] + 1
    <2>1. /\ \A r \in rows : r.id[2] <= made[r.id[1]]
          /\ \A i \in lost \cup unaudited : i[2] <= made[i[1]]
      BY DEF EndsInv, RowsOK
    <2>2. \A e \in passed : e.id[2] <= made[e.id[1]]
      BY DEF EndsInv, PassedOK
    <2>3. \A x \in work : x.id[2] <= made[x.id[1]]
      BY DEF EndsInv, WorkOK
    <2>4. \A e \in passed : e.id # <<t, c.n>>
      BY <1>1, <1>2, <2>2
    <2>5. <<t, c.n>> \notin done
      BY <2>4 DEF EndsInv, PassedOK, HasPassed
    <2> QED BY <1>1, <1>2, <2>1, <2>3, <2>4, <2>5
  <1>3. CASE pc[t] # "idle" /\ c = call[t]
    <2>1. IdOf(t) = <<t, c.n>>
      BY <1>3 DEF IdOf
    <2>2. /\ \A r \in rows : r.id # <<t, c.n>>
          /\ <<t, c.n>> \notin lost \cup unaudited
      BY <1>1, <2>1 DEF EndsInv, RowsOK
    <2>3. pc[t] = "consent" => ~HasPassed(<<t, c.n>>)
      BY <2>1 DEF EndsInv, PassedOK
    <2>4. pc[t] \notin {"idle", "consent"} => HasPassed(<<t, c.n>>)
      BY <2>1 DEF EndsInv, PassedOK, CallInv, TypeOK
    <2>5. \A x \in work : x.id = <<t, c.n>> => pc[t] = "running" /\ x.tool = c.tool
      BY <1>1, <1>3, <2>1 DEF EndsInv, WorkOK
    <2>6. pc[t] = "consent" => <<t, c.n>> \notin done
      BY <2>3 DEF EndsInv, PassedOK
    <2> QED BY <1>3, <2>2, <2>3, <2>4, <2>5, <2>6 DEF HasPassed
  <1> QED BY <1>2, <1>3 DEF Current

\* A call leaves.
LEMMA LeavesInv ==
  ASSUME CallInv, CallInv', EndsInv, NEW t \in Task, NEW c \in Calls,
         NEW decision \in {"allow", "deny"}, NEW ok \in BOOLEAN, Leaves(t, c, decision, ok)
  PROVE  EndsInv'
  <1> DEFINE id  == <<t, c.n>>
             row == [id |-> id, decision |-> decision, ok |-> ok]
  <1>1. /\ Current(t, c) /\ work' \subseteq work /\ lost' = lost
        /\ \/ rows' = rows \cup {row} /\ unaudited' = unaudited
           \/ rows' = rows /\ unaudited' = unaudited \cup {id}
        /\ id[1] = t /\ id[2] = c.n /\ id \in Id
    BY DEF Leaves, Return, Current, IsCall
  <1>2. /\ \A u \in Task : pc'[u] = IF u = t THEN "idle" ELSE pc[u]
        /\ \A u \in Task : call'[u] = IF u = t THEN NoCall ELSE call[u]
    BY DEF Leaves, Return, CallInv, TypeOK
  <1>3. /\ made'[t] = c.n /\ made[t] <= c.n /\ c.n \in Nat
        /\ \A u \in Task : made[u] \in Nat /\ made'[u] \in Nat /\ made[u] <= made'[u]
        /\ \A u \in Task : u # t => made'[u] = made[u]
    <2>1. /\ made \in [Task -> Nat] /\ c.n \in Nat /\ (c.n = made[t] + 1 \/ c.n = made[t])
          /\ made'[t] = c.n /\ \A u \in Task : u # t => made'[u] = made[u]
      BY <1>1 DEF Current, MadeFor, CallInv, TypeOK, IsCall, Calls
    <2>2. \A u \in Task : made[u] \in Nat
      BY <2>1
    <2> QED BY <2>1, <2>2
  <1>4. /\ \A r \in rows : r.id # id
        /\ pc[t] \in {"idle", "consent"} => id \notin done /\ \A e \in passed : e.id # id
        /\ pc[t] \notin {"idle", "consent"} => HasPassed(id)
        /\ \A x \in work : x.id = id => pc[t] = "running" /\ x.tool = c.tool
        /\ id \notin lost \cup unaudited
    BY <1>1, Fresh
  <1>5. /\ passed \subseteq passed' /\ \A e \in passed' : e \in passed \/ e.id = id
        /\ done \subseteq done' /\ \A i \in done' : i \in done \/ i = id
        /\ decision = "deny" => ok = FALSE /\ id \notin done' /\ \A e \in passed' : e.id # id
        /\ decision = "allow" => \E e \in passed' : e.id = id
        /\ ok = TRUE => id \in done'
    <2>1. CASE decision = "deny"
      BY <1>4, <2>1 DEF Leaves
    <2>2. CASE decision = "allow"
      <3>1. /\ passed' = IF pc[t] \in {"idle", "consent"} THEN passed \cup {Entry(t, c)} ELSE passed
            /\ done' \in {done, done \cup {id}} /\ (ok = TRUE => done' = done \cup {id})
        BY <2>2 DEF Leaves, PassedFor
      <3>2. Entry(t, c).id = id
        BY DEF Entry
      <3>3. \E e \in passed' : e.id = id
        BY <1>4, <3>1, <3>2 DEF HasPassed
      <3> QED BY <2>2, <3>1, <3>2, <3>3
    <2> QED BY <2>1, <2>2
  <1>6. /\ \A x \in work : x.id \in Id
        /\ \A r \in rows' : r.id \in Id
        /\ \A e \in passed' : e.id \in Id
        /\ \A i \in lost \cup unaudited : i \in Id
    BY DEF CallInv, TypeOK, Row, Passed
  <1>7. /\ \A u \in Task : IdOf(u)' = <<u, call'[u].n>>
        /\ \A x \in Id : IdOf(t)' # x
        /\ \A u \in Task : u # t => IdOf(u)' = IdOf(u)
    <2>1. \A u \in Task : IdOf(u)' = <<u, call'[u].n>>
      BY DEF IdOf
    <2>2. IdOf(t)' = <<t, 0>>
      BY <1>2, <2>1 DEF NoCall
    <2>3. \A x \in Id : x # <<t, 0>>
      BY IdFacts
    <2>4. \A u \in Task : u # t => IdOf(u)' = IdOf(u)
      BY <1>2, <2>1 DEF IdOf
    <2> QED BY <2>1, <2>2, <2>3, <2>4
  <1>8. WorkOK'
    <2>1. ASSUME NEW x \in work
          PROVE  /\ x.id[2] <= made'[x.id[1]]
                 /\ IdOf(x.id[1])' = x.id => pc'[x.id[1]] = "running" /\ x.tool = call'[x.id[1]].tool
      <3>1. x.id[1] \in Task /\ x.id[2] \in Nat /\ x.id \in Id
        BY <1>6, IdFacts
      <3>2. x.id[2] <= made[x.id[1]]
        BY DEF EndsInv, WorkOK
      <3>3. IdOf(x.id[1]) = x.id => pc[x.id[1]] = "running" /\ x.tool = call[x.id[1]].tool
        BY DEF EndsInv, WorkOK
      <3>4. x.id[2] <= made'[x.id[1]]
        BY <1>3, <3>1, <3>2
      <3>5. x.id[1] # t => IdOf(x.id[1])' = IdOf(x.id[1])
        BY <1>7, <3>1
      <3>6. x.id[1] = t => IdOf(x.id[1])' # x.id
        BY <1>7, <3>1
      <3> QED BY <1>2, <3>1, <3>3, <3>4, <3>5, <3>6
    <2> QED BY <1>1, <2>1 DEF WorkOK
  <1>9. PassedOK'
    <2>1. \A e \in passed' : e.id[2] <= made'[e.id[1]]
      <3>1. ASSUME NEW e \in passed' PROVE e.id[2] <= made'[e.id[1]]
        <4>1. CASE e \in passed
          <5>1. e.id[1] \in Task /\ e.id[2] \in Nat /\ e.id[2] <= made[e.id[1]]
            BY <1>6, <4>1, IdFacts DEF EndsInv, PassedOK
          <5> QED BY <1>3, <5>1
        <4>2. CASE e.id = id
          BY <1>1, <1>3, <4>2
        <4> QED BY <1>5, <4>1, <4>2
      <3> QED BY <3>1
    <2>2. \A i : HasPassed(i) => HasPassed(i)'
      BY <1>5 DEF HasPassed
    <2>3. \A i : HasPassed(i)' => HasPassed(i) \/ i = id
      BY <1>5 DEF HasPassed
    <2>4. ASSUME NEW u \in Task
          PROVE  /\ pc'[u] = "consent" => ~HasPassed(IdOf(u))'
                 /\ pc'[u] \in {"queued", "running", "stuck"} => HasPassed(IdOf(u))'
      <3>1. CASE u = t
        BY <1>2, <3>1
      <3>2. CASE u # t
        <4>1. pc'[u] = pc[u] /\ IdOf(u)' = IdOf(u) /\ IdOf(u) # id
          BY <1>2, <1>7, <3>2 DEF IdOf
        <4>2. /\ pc[u] = "consent" => \A e \in passed : e.id # IdOf(u)
              /\ pc[u] \in {"queued", "running", "stuck"} => \E e \in passed : e.id = IdOf(u)
          BY DEF EndsInv, PassedOK, HasPassed
        <4>3. /\ pc'[u] = "consent" => \A e \in passed' : e.id # IdOf(u)'
              /\ pc'[u] \in {"queued", "running", "stuck"} => \E e \in passed' : e.id = IdOf(u)'
          BY <1>5, <4>1, <4>2
        <4> QED BY <4>3 DEF HasPassed
      <3> QED BY <3>1, <3>2
    <2>5. \A x \in work' : \E e \in passed' : e.id = x.id
      BY <1>1, <1>5 DEF EndsInv, PassedOK, HasPassed
    <2>6. \A i \in done' : \E e \in passed' : e.id = i
      <3>1. \A i \in done : \E e \in passed' : e.id = i
        BY <1>5 DEF EndsInv, PassedOK, HasPassed
      <3> QED BY <1>5, <3>1
    <2> QED BY <2>1, <2>4, <2>5, <2>6 DEF PassedOK, HasPassed
  <1>10. RowsOK'
    <2>1. \A r, q \in rows' : r.id = q.id => r = q
      BY <1>1, <1>4 DEF EndsInv, RowsOK, AuditIsComplete
    <2>2. ASSUME NEW r \in rows'
          PROVE  /\ r.decision = "deny" => r.id \notin done' /\ \A e \in passed' : e.id # r.id
                 /\ r.ok => r.id \in done'
                 /\ r.id[2] <= made'[r.id[1]]
                 /\ IdOf(r.id[1])' # r.id
      <3>1. CASE r = row
        BY <1>1, <1>3, <1>5, <1>7, <3>1
      <3>2. CASE r \in rows
        <4>1. /\ r.decision = "deny" => r.id \notin done /\ \A e \in passed : e.id # r.id
              /\ r.ok => r.id \in done
              /\ r.id[2] <= made[r.id[1]] /\ IdOf(r.id[1]) # r.id
          BY <3>2 DEF EndsInv, RowsOK, AuditIsComplete
        <4>2. r.id # id /\ r.id \in Id /\ r.id[1] \in Task /\ r.id[2] \in Nat
          BY <1>4, <1>6, <3>2, IdFacts
        <4>3. r.id[2] <= made'[r.id[1]]
          BY <1>3, <4>1, <4>2
        <4>4. IdOf(r.id[1])' # r.id
          BY <1>7, <4>1, <4>2
        <4> QED BY <1>5, <4>1, <4>2, <4>3, <4>4
      <3> QED BY <1>1, <3>1, <3>2
    <2>3. ASSUME NEW u \in Task, NEW n \in 1..made'[u]
          PROVE  \/ \E r \in rows' : r.id = <<u, n>>
                 \/ <<u, n>> \in lost' \cup unaudited'
                 \/ pc'[u] # "idle" /\ call'[u].n = n
      <3>1. CASE u = t /\ n = c.n
        <4>1. (row \in rows' /\ row.id = <<u, n>>) \/ <<u, n>> \in unaudited'
          BY <1>1, <3>1
        <4> QED BY <4>1
      <3>2. CASE u # t \/ n # c.n
        <4>1. n \in 1..made[u]
          <5>1. CASE u # t
            BY <1>3, <5>1
          <5>2. CASE u = t
            BY <1>1, <1>3, <2>3, <3>2, <5>2 DEF Current
          <5> QED BY <5>1, <5>2
        <4>2. \/ \E r \in rows : r.id = <<u, n>>
              \/ <<u, n>> \in lost \cup unaudited
              \/ pc[u] # "idle" /\ call[u].n = n
          BY <4>1 DEF EndsInv, RowsOK, AuditIsComplete
        <4>3. u = t => ~(pc[u] # "idle" /\ call[u].n = n)
          BY <1>1, <1>3, <3>2, <4>1 DEF Current
        <4> QED BY <1>1, <1>2, <4>2, <4>3
      <3> QED BY <3>1, <3>2
    <2>4. ASSUME NEW i \in lost' \cup unaudited'
          PROVE  i[2] <= made'[i[1]] /\ IdOf(i[1])' # i /\ \A r \in rows' : r.id # i
      <3>1. CASE i = id
        <4>1. rows' = rows
          BY <1>1, <1>4, <3>1
        <4> QED BY <1>1, <1>3, <1>4, <1>7, <3>1, <4>1
      <3>2. CASE i # id
        <4>1. i \in lost \cup unaudited /\ i \in Id /\ i[1] \in Task /\ i[2] \in Nat
          BY <1>1, <1>6, <3>2, IdFacts
        <4>2. /\ i[2] <= made[i[1]] /\ IdOf(i[1]) # i
              /\ \A r \in rows : r.id # i
          BY <4>1 DEF EndsInv, RowsOK, AuditIsComplete
        <4>3. i[2] <= made'[i[1]]
          BY <1>3, <4>1, <4>2
        <4>4. IdOf(i[1])' # i
          BY <1>7, <4>1, <4>2
        <4> QED BY <1>1, <3>2, <4>2, <4>3, <4>4
      <3> QED BY <3>1, <3>2
    <2> QED BY <2>1, <2>2, <2>3, <2>4 DEF RowsOK, AuditIsComplete
  <1> QED BY <1>8, <1>9, <1>10 DEF EndsInv

\* A call waits at another await.
LEMMA HoldsInv ==
  ASSUME CallInv, CallInv', EndsInv, NEW t \in Task, NEW c \in Calls,
         NEW at \in {"consent", "queued", "running", "stuck"}, Holds(t, at, c)
  PROVE  EndsInv'
  <1> DEFINE id == <<t, c.n>>
  <1>1. /\ Current(t, c) /\ lost' = lost /\ rows' = rows /\ unaudited' = unaudited /\ done' = done
        /\ id[1] = t /\ id[2] = c.n /\ id \in Id
    BY DEF Holds, Current, IsCall
  <1>2. /\ \A u \in Task : pc'[u] = IF u = t THEN at ELSE pc[u]
        /\ \A u \in Task : call'[u] = IF u = t THEN c ELSE call[u]
    BY DEF Holds, Moves, CallInv, TypeOK
  <1>3. /\ made'[t] = c.n /\ made[t] <= c.n /\ c.n \in Nat
        /\ \A u \in Task : made[u] \in Nat /\ made'[u] \in Nat /\ made[u] <= made'[u]
        /\ \A u \in Task : u # t => made'[u] = made[u]
    <2>1. /\ made \in [Task -> Nat] /\ c.n \in Nat /\ (c.n = made[t] + 1 \/ c.n = made[t])
          /\ made'[t] = c.n /\ \A u \in Task : u # t => made'[u] = made[u]
      BY <1>1 DEF Current, MadeFor, CallInv, TypeOK, IsCall, Calls
    <2>2. \A u \in Task : made[u] \in Nat
      BY <2>1
    <2> QED BY <2>1, <2>2
  <1>4. /\ \A r \in rows : r.id # id
        /\ pc[t] \in {"idle", "consent"} => id \notin done /\ \A e \in passed : e.id # id
        /\ pc[t] \notin {"idle", "consent"} => HasPassed(id)
        /\ \A x \in work : x.id = id => pc[t] = "running" /\ x.tool = c.tool
    BY <1>1, Fresh
  <1>5. /\ passed \subseteq passed' /\ \A e \in passed' : e \in passed \/ e.id = id
        /\ at = "consent" => \A e \in passed' : e.id # id
        /\ at # "consent" => \E e \in passed' : e.id = id
    <2>1. CASE at = "consent"
      BY <1>4, <2>1 DEF Holds
    <2>2. CASE at # "consent"
      <3>1. passed' = IF pc[t] \in {"idle", "consent"} THEN passed \cup {Entry(t, c)} ELSE passed
        BY <2>2 DEF Holds, PassedFor
      <3>2. Entry(t, c).id = id
        BY DEF Entry
      <3>3. \E e \in passed' : e.id = id
        BY <1>4, <3>1, <3>2 DEF HasPassed
      <3> QED BY <2>2, <3>1, <3>2, <3>3
    <2> QED BY <2>1, <2>2
  <1>6. /\ \A x \in work' : x \in work \/ (at = "running" /\ x.id = id /\ x.tool = c.tool)
        /\ \A x \in work : x.id # id
    <2>1. pc[t] # "running"
      BY DEF Holds
    <2>2. Execution(t, c).id = id /\ Execution(t, c).tool = c.tool
      BY DEF Execution
    <2> QED BY <1>4, <2>1, <2>2 DEF Holds
  <1>7. /\ \A x \in work : x.id \in Id
        /\ \A r \in rows : r.id \in Id
        /\ \A e \in passed' : e.id \in Id
    BY DEF CallInv, TypeOK, Row, Passed
  <1>8. /\ IdOf(t)' = id
        /\ \A u \in Task : u # t => IdOf(u)' = IdOf(u) /\ IdOf(u) # id
    BY <1>2 DEF IdOf
  <1>9. WorkOK'
    <2>1. ASSUME NEW x \in work'
          PROVE  /\ x.id[2] <= made'[x.id[1]]
                 /\ IdOf(x.id[1])' = x.id => pc'[x.id[1]] = "running" /\ x.tool = call'[x.id[1]].tool
      <3>1. CASE at = "running" /\ x.id = id /\ x.tool = c.tool
        BY <1>1, <1>2, <1>3, <3>1
      <3>2. CASE x \in work
        <4>1. x.id[1] \in Task /\ x.id[2] \in Nat /\ x.id # id
          BY <1>6, <1>7, <3>2, IdFacts
        <4>2. x.id[2] <= made[x.id[1]]
          BY <3>2 DEF EndsInv, WorkOK
        <4>3. IdOf(x.id[1]) = x.id => pc[x.id[1]] = "running" /\ x.tool = call[x.id[1]].tool
          BY <3>2 DEF EndsInv, WorkOK
        <4>4. x.id[2] <= made'[x.id[1]]
          BY <1>3, <4>1, <4>2
        <4> QED BY <1>2, <1>8, <4>1, <4>3, <4>4
      <3> QED BY <1>6, <3>1, <3>2
    <2> QED BY <2>1 DEF WorkOK
  <1>10. PassedOK'
    <2>1. \A e \in passed' : e.id[2] <= made'[e.id[1]]
      <3>1. ASSUME NEW e \in passed' PROVE e.id[2] <= made'[e.id[1]]
        <4>1. CASE e \in passed
          <5>1. e.id[1] \in Task /\ e.id[2] \in Nat /\ e.id[2] <= made[e.id[1]]
            BY <1>7, <4>1, IdFacts DEF EndsInv, PassedOK
          <5> QED BY <1>3, <5>1
        <4>2. CASE e.id = id
          BY <1>1, <1>3, <4>2
        <4> QED BY <1>5, <4>1, <4>2
      <3> QED BY <3>1
    <2>2. ASSUME NEW u \in Task
          PROVE  /\ pc'[u] = "consent" => ~HasPassed(IdOf(u))'
                 /\ pc'[u] \in {"queued", "running", "stuck"} => HasPassed(IdOf(u))'
      <3>1. CASE u = t
        <4>1. pc'[u] = at /\ IdOf(u)' = id
          BY <1>2, <1>8, <3>1
        <4> QED BY <1>5, <4>1 DEF HasPassed
      <3>2. CASE u # t
        <4>1. pc'[u] = pc[u] /\ IdOf(u)' = IdOf(u) /\ IdOf(u) # id
          BY <1>2, <1>8, <3>2
        <4>2. /\ pc[u] = "consent" => \A e \in passed : e.id # IdOf(u)
              /\ pc[u] \in {"queued", "running", "stuck"} => \E e \in passed : e.id = IdOf(u)
          BY DEF EndsInv, PassedOK, HasPassed
        <4>3. /\ pc'[u] = "consent" => \A e \in passed' : e.id # IdOf(u)'
              /\ pc'[u] \in {"queued", "running", "stuck"} => \E e \in passed' : e.id = IdOf(u)'
          BY <1>5, <4>1, <4>2
        <4> QED BY <4>3 DEF HasPassed
      <3> QED BY <3>1, <3>2
    <2>3. \A x \in work' : \E e \in passed' : e.id = x.id
      <3>1. \A x \in work : \E e \in passed' : e.id = x.id
        BY <1>5 DEF EndsInv, PassedOK, HasPassed
      <3> QED BY <1>5, <1>6, <3>1
    <2>4. \A i \in done' : \E e \in passed' : e.id = i
      BY <1>1, <1>5 DEF EndsInv, PassedOK, HasPassed
    <2> QED BY <2>1, <2>2, <2>3, <2>4 DEF PassedOK, HasPassed
  <1>11. RowsOK'
    <2>1. \A r, q \in rows' : r.id = q.id => r = q
      BY <1>1 DEF EndsInv, RowsOK, AuditIsComplete
    <2>2. ASSUME NEW r \in rows
          PROVE  /\ r.decision = "deny" => r.id \notin done' /\ \A e \in passed' : e.id # r.id
                 /\ r.ok => r.id \in done'
                 /\ r.id[2] <= made'[r.id[1]]
                 /\ IdOf(r.id[1])' # r.id
      <3>1. /\ r.decision = "deny" => r.id \notin done /\ \A e \in passed : e.id # r.id
            /\ r.ok => r.id \in done
            /\ r.id[2] <= made[r.id[1]] /\ IdOf(r.id[1]) # r.id
        BY DEF EndsInv, RowsOK, AuditIsComplete
      <3>2. r.id # id /\ r.id \in Id /\ r.id[1] \in Task /\ r.id[2] \in Nat
        BY <1>4, <1>7, IdFacts
      <3>3. r.id[2] <= made'[r.id[1]]
        BY <1>3, <3>1, <3>2
      <3>4. IdOf(r.id[1])' # r.id
        BY <1>8, <3>1, <3>2
      <3> QED BY <1>1, <1>5, <3>1, <3>2, <3>3, <3>4
    <2>3. ASSUME NEW u \in Task, NEW n \in 1..made'[u]
          PROVE  \/ \E r \in rows' : r.id = <<u, n>>
                 \/ <<u, n>> \in lost' \cup unaudited'
                 \/ pc'[u] # "idle" /\ call'[u].n = n
      <3>1. CASE u = t /\ n = c.n
        BY <1>2, <3>1
      <3>2. CASE u # t \/ n # c.n
        <4>1. n \in 1..made[u]
          <5>1. CASE u # t
            BY <1>3, <5>1
          <5>2. CASE u = t
            BY <1>1, <1>3, <2>3, <3>2, <5>2 DEF Current
          <5> QED BY <5>1, <5>2
        <4>2. \/ \E r \in rows : r.id = <<u, n>>
              \/ <<u, n>> \in lost \cup unaudited
              \/ pc[u] # "idle" /\ call[u].n = n
          BY <4>1 DEF EndsInv, RowsOK, AuditIsComplete
        <4>3. u = t => ~(pc[u] # "idle" /\ call[u].n = n)
          BY <1>1, <1>3, <3>2, <4>1 DEF Current
        <4> QED BY <1>1, <1>2, <4>2, <4>3
      <3> QED BY <3>1, <3>2
    <2>4. ASSUME NEW i \in lost \cup unaudited
          PROVE  i[2] <= made'[i[1]] /\ IdOf(i[1])' # i /\ \A r \in rows : r.id # i
      <3>1. /\ i[2] <= made[i[1]] /\ IdOf(i[1]) # i
            /\ \A r \in rows : r.id # i
        BY DEF EndsInv, RowsOK, AuditIsComplete
      <3>2. i \in Id
        BY DEF CallInv, TypeOK
      <3>3. i # id /\ i[1] \in Task /\ i[2] \in Nat
        BY <1>1, <3>2, Fresh, IdFacts
      <3>4. i[2] <= made'[i[1]]
        BY <1>3, <3>1, <3>3
      <3>5. IdOf(i[1])' # i
        BY <1>8, <3>1, <3>2, <3>3
      <3> QED BY <3>1, <3>4, <3>5
    <2> QED BY <1>1, <2>1, <2>2, <2>3, <2>4 DEF RowsOK, AuditIsComplete
  <1> QED BY <1>9, <1>10, <1>11 DEF EndsInv

\* Executions end and nothing else changes.
LEMMA OthersInv ==
  ASSUME CallInv, EndsInv, Others
  PROVE  EndsInv'
  <1>1. \A u \in Task : IdOf(u)' = IdOf(u)
    BY DEF Others, IdOf
  <1>2. \A x \in work : x.id[1] \in Task
    BY IdFacts DEF CallInv, TypeOK
  <1>3. \A r \in rows : r.id[1] \in Task
    BY IdFacts DEF CallInv, TypeOK, Row
  <1>4. \A i \in done' : i \in done \/ \E x \in work : x.id = i
    BY DEF Others
  <1>5. \A i \in done' : \E e \in passed : e.id = i
    BY <1>4 DEF EndsInv, PassedOK, HasPassed
  <1>6. WorkOK'
    BY <1>1, <1>2 DEF EndsInv, WorkOK, Others
  <1>7. PassedOK'
    <2>1. \A u \in Task : /\ pc'[u] = "consent" => \A e \in passed' : e.id # IdOf(u)'
                          /\ pc'[u] \in {"queued", "running", "stuck"} =>
                               \E e \in passed' : e.id = IdOf(u)'
      BY <1>1 DEF EndsInv, PassedOK, HasPassed, Others
    <2>2. /\ \A e \in passed' : e.id[2] <= made'[e.id[1]]
          /\ \A x \in work' : \E e \in passed' : e.id = x.id
      BY DEF EndsInv, PassedOK, HasPassed, Others
    <2>3. \A i \in done' : \E e \in passed' : e.id = i
      BY <1>5 DEF Others
    <2> QED BY <2>1, <2>2, <2>3 DEF PassedOK, HasPassed
  <1>8. RowsOK'
    <2>1. /\ rows' = rows /\ pc' = pc /\ call' = call /\ made' = made /\ lost' = lost
          /\ unaudited' = unaudited
          /\ passed' = passed /\ done \subseteq done'
      BY DEF Others
    <2>2. ASSUME NEW r \in rows
          PROVE  /\ r.decision = "deny" => r.id \notin done' /\ \A e \in passed' : e.id # r.id
                 /\ r.ok => r.id \in done'
                 /\ r.id[2] <= made'[r.id[1]]
                 /\ IdOf(r.id[1])' # r.id
      <3>1. /\ r.decision = "deny" => \A e \in passed : e.id # r.id
            /\ r.ok => r.id \in done
            /\ r.id[2] <= made[r.id[1]] /\ IdOf(r.id[1]) # r.id
        BY DEF EndsInv, RowsOK, AuditIsComplete
      <3>2. r.decision = "deny" => r.id \notin done'
        BY <1>5, <3>1
      <3> QED BY <1>1, <1>3, <2>1, <3>1, <3>2
    <2>3. /\ \A r, q \in rows : r.id = q.id => r = q
          /\ \A u \in Task : \A n \in 1..made[u] :
               \/ \E r \in rows : r.id = <<u, n>>
               \/ <<u, n>> \in lost \cup unaudited
               \/ pc[u] # "idle" /\ call[u].n = n
      BY DEF EndsInv, RowsOK, AuditIsComplete
    <2>4. ASSUME NEW i \in lost \cup unaudited
          PROVE  i[2] <= made'[i[1]] /\ IdOf(i[1])' # i /\ \A r \in rows : r.id # i
      <3>1. /\ i[2] <= made[i[1]] /\ IdOf(i[1]) # i
            /\ \A r \in rows : r.id # i
        BY DEF EndsInv, RowsOK, AuditIsComplete
      <3>2. i \in Id
        BY DEF CallInv, TypeOK
      <3>3. i[1] \in Task
        BY <3>2, IdFacts
      <3> QED BY <1>1, <2>1, <3>1, <3>3
    <2> QED BY <2>1, <2>2, <2>3, <2>4 DEF RowsOK, AuditIsComplete
  <1> QED BY <1>6, <1>7, <1>8 DEF EndsInv

\* The process exits: what is cut off is lost or was done.
LEMMA ExitEnds ==
  ASSUME CallInv, EndsInv, Exit
  PROVE  EndsInv'
  <1>1. /\ work' = {} /\ rows' = rows /\ unaudited' = unaudited /\ passed' = passed /\ made' = made
        /\ lost' = lost \cup {IdOf(t) : t \in {u \in Task : pc[u] # "idle"}}
        /\ \A u \in Task : pc'[u] = "idle" /\ call'[u] = NoCall
    BY DEF Exit
  <1>2. done \subseteq done' /\ \A i \in done' : i \in done \/ \E x \in work : x.id = i
    BY DEF Exit
  <1>3. \A i \in done' : \E e \in passed : e.id = i
    BY <1>2 DEF EndsInv, PassedOK, HasPassed
  <1>4. \A i \in Id : \A u \in Task : IdOf(u)' # i
    <2>1. \A u \in Task : IdOf(u)' = <<u, 0>>
      BY <1>1 DEF IdOf, NoCall
    <2> QED BY <2>1, IdFacts
  <1>5. WorkOK'
    BY <1>1 DEF WorkOK
  <1>6. PassedOK'
    <2>1. /\ \A e \in passed' : e.id[2] <= made'[e.id[1]]
          /\ \A i \in done' : \E e \in passed' : e.id = i
      BY <1>1, <1>3 DEF EndsInv, PassedOK
    <2> QED BY <1>1, <2>1 DEF PassedOK, HasPassed
  <1>7. RowsOK'
    <2>1. ASSUME NEW r \in rows
          PROVE  /\ r.decision = "deny" => r.id \notin done' /\ \A e \in passed' : e.id # r.id
                 /\ r.ok => r.id \in done'
                 /\ r.id[2] <= made'[r.id[1]]
                 /\ IdOf(r.id[1])' # r.id
      <3>1. /\ r.decision = "deny" => \A e \in passed : e.id # r.id
            /\ r.ok => r.id \in done
            /\ r.id[2] <= made[r.id[1]]
        BY DEF EndsInv, RowsOK, AuditIsComplete
      <3>2. r.id \in Id /\ r.id[1] \in Task
        BY IdFacts DEF CallInv, TypeOK, Row
      <3>3. r.decision = "deny" => r.id \notin done'
        BY <1>3, <3>1
      <3> QED BY <1>1, <1>2, <1>4, <3>1, <3>2, <3>3
    <2>2. ASSUME NEW u \in Task, NEW n \in 1..made[u]
          PROVE  (\E r \in rows : r.id = <<u, n>>) \/ <<u, n>> \in lost' \cup unaudited'
      <3>1. \/ \E r \in rows : r.id = <<u, n>>
            \/ <<u, n>> \in lost \cup unaudited
            \/ pc[u] # "idle" /\ call[u].n = n
        BY DEF EndsInv, RowsOK, AuditIsComplete
      <3>2. pc[u] # "idle" /\ call[u].n = n => <<u, n>> \in lost'
        BY <1>1 DEF IdOf
      <3> QED BY <1>1, <3>1, <3>2
    <2>3. \A r, q \in rows : r.id = q.id => r = q
      BY DEF EndsInv, RowsOK, AuditIsComplete
    <2>4. ASSUME NEW i \in lost' \cup unaudited'
          PROVE  i[2] <= made'[i[1]] /\ IdOf(i[1])' # i /\ \A r \in rows : r.id # i
      <3>1. CASE i \in lost \cup unaudited
        <4>1. i[2] <= made[i[1]] /\ \A r \in rows : r.id # i
          BY <3>1 DEF EndsInv, RowsOK, AuditIsComplete
        <4>2. i \in Id
          BY <3>1 DEF CallInv, TypeOK
        <4>3. i[1] \in Task
          BY <4>2, IdFacts
        <4> QED BY <1>1, <1>4, <4>1, <4>2, <4>3
      <3>2. ASSUME NEW u \in Task, pc[u] # "idle", i = IdOf(u)
            PROVE  i[2] <= made'[i[1]] /\ IdOf(i[1])' # i /\ \A r \in rows : r.id # i
        <4>1. IsCall(u, call[u]) /\ call[u].n = made[u] /\ i = <<u, call[u].n>>
          BY <3>2, CallFacts DEF CallInv
        <4>2. i \in Id /\ i[1] = u /\ i[2] = made[u] /\ made[u] \in Nat
          BY <4>1 DEF IsCall, CallInv, TypeOK
        <4>3. \A r \in rows : r.id # i
          BY <3>2, <4>2 DEF EndsInv, RowsOK
        <4>4. i[2] <= made'[i[1]]
          BY <1>1, <4>2
        <4>5. IdOf(i[1])' # i
          BY <1>4, <4>2
        <4> QED BY <4>3, <4>4, <4>5
      <3> QED BY <1>1, <3>1, <3>2
    <2> QED BY <1>1, <2>1, <2>2, <2>3, <2>4 DEF RowsOK, AuditIsComplete
  <1> QED BY <1>5, <1>6, <1>7 DEF EndsInv

\* The second part of the invariant, on top of the first.
LEMMA NextEndsInv ==
  ASSUME CallInv, CallInv', EndsInv, [Next]_vars
  PROVE  EndsInv'
  <1>1. CASE Next
    <2>1. Steps
      BY <1>1, NextSteps
    <2> QED BY <2>1, LeavesInv, HoldsInv, OthersInv, ExitEnds DEF Steps
  <1>2. CASE UNCHANGED vars
    <2>1. Others
      BY <1>2 DEF Others, vars, rules, calls
    <2> QED BY <2>1, OthersInv
  <1> QED BY <1>1, <1>2

-----------------------------------------------------------------------------
(* Rules                                                                    *)

\* What makes a rule that allows stand: it is old, or a consent is behind it.
Behind(r, k) ==
  /\ k.id = r.id /\ r.projects = {k.project} /\ k.capability = r.capability
  /\ r.pattern = Widened[k.capability][k.scope]

Stands(r, kept, given) ==
  \/ r \in Stored
  \/ \E k \in given : /\ Behind(r, k)
                      /\ k.choice = IF r \in kept THEN "allow_project" ELSE "allow_session"

\* RulesStand in these words.
LEMMA StandsNow ==
  ASSUME RulesStand
  PROVE  /\ \A r \in store \cup session : r.decision = "allow" => Stands(r, store, consents)
         /\ \A r \in store \cup session : r.decision = "deny" => r \in Stored
  BY DEF RulesStand, Stands, Behind

\* Rules that stand in these words stand in those of RulesStand, in the next state.
LEMMA StandsNext ==
  ASSUME \A r \in store' \cup session' : r.decision = "allow" => Stands(r, store', consents'),
         \A r \in store' \cup session' : r.decision = "deny" => r \in Stored,
         \A k, l \in consents' : k.id = l.id => k = l,
         \A k \in consents' : \E e \in passed' : e.id = k.id
  PROVE  RulesStand'
  BY DEF RulesStand, Stands, Behind, HasPassed

\* A rule with the id of a call of this model is not an old one.
LEMMA NewRule ==
  ASSUME CallInv, RulesStand, NEW r \in store \cup session, r.id \in Id
  PROVE  /\ r.decision = "allow"
         /\ \E k \in consents : Behind(r, k)
                /\ k.choice = IF r \in store THEN "allow_project" ELSE "allow_session"
  <1>1. r \notin Stored
    BY StoredIdAssumption
  <1>2. r.decision \in {"allow", "deny"}
    BY DEF CallInv, TypeOK, RulesOK, Rule
  <1> QED BY <1>1, <1>2, StandsNow DEF Stands

\* Rules and consents stay while calls go on.
LEMMA RulesStay ==
  ASSUME RulesStand, store' = store, session' = session, consents' = consents,
         passed \subseteq passed'
  PROVE  RulesStand'
  <1>1. \A k \in consents : \E e \in passed' : e.id = k.id
    BY DEF RulesStand, HasPassed
  <1>2. \A k, l \in consents : k.id = l.id => k = l
    BY DEF RulesStand
  <1> QED BY <1>1, <1>2, StandsNow, StandsNext

\* The user answers a parked call.
LEMMA RespondRules ==
  ASSUME CallInv, EndsInv, RulesStand, NEW t \in Task, NEW choice \in Choice, Respond(t, choice)
  PROVE  RulesStand'
  <1> DEFINE c    == call[t]
             id   == <<t, c.n>>
             cap  == InfoOf(c).capability
             rule == [id |-> id, projects |-> {ProjectOf[t]}, capability |-> cap,
                      pattern |-> Widened[cap][c.scope], decision |-> "allow"]
             k0   == [id |-> id, project |-> ProjectOf[t], capability |-> cap,
                      scope |-> c.scope, choice |-> choice]
  <1>1. /\ pc[t] = "consent" /\ made' = made /\ IdOf(t) = id /\ id \in Id
    BY CallFacts DEF Respond, CallInv, IsCall
  <1>2. /\ session' = IF choice = "allow_session" THEN session \cup {rule} ELSE session
        /\ store' = IF choice = "allow_project" THEN store \cup {rule} ELSE store
    BY <1>1 DEF Respond, Settled
  <1>3. ~HasPassed(id)
    BY <1>1 DEF EndsInv, PassedOK
  <1>4. \A k \in consents : k.id # id
    BY <1>3 DEF RulesStand
  <1>5. rule \notin store \cup session
    <2>1. SUFFICES ASSUME rule \in store \cup session PROVE FALSE
      OBVIOUS
    <2>2. rule.id = id
      OBVIOUS
    <2> HIDE DEF rule
    <2> QED BY <1>1, <1>4, <2>1, <2>2, NewRule DEF Behind
  <1>6. CASE choice = "deny"
    <2>1. passed' = passed /\ consents' = consents
      BY <1>6 DEF Respond, Refuse
    <2> QED BY <1>2, <1>6, <2>1, RulesStay
  <1>7. CASE choice # "deny"
    <2>1. consents' = consents \cup {k0} /\ passed' = passed \cup {Entry(t, c)}
      BY <1>1, <1>7 DEF Respond, Proceed, Entry
    <2>2. Entry(t, c).id = id /\ k0.id = id /\ k0.choice = choice /\ Behind(rule, k0)
      BY DEF Entry, Behind
    <2>3. \A k, l \in consents' : k.id = l.id => k = l
      BY <1>4, <2>1, <2>2 DEF RulesStand
    <2>4. \A k \in consents' : \E e \in passed' : e.id = k.id
      BY <2>1, <2>2 DEF RulesStand, HasPassed
    <2>5. rule.decision = "allow"
      OBVIOUS
    <2>6. /\ \A r \in store' \cup session' : r \in store \cup session \/ r = rule
          /\ rule \in store' => choice = "allow_project"
          /\ rule \in session' => choice = "allow_session"
          /\ \A r \in store \cup session : r \in store' <=> r \in store
      BY <1>2, <1>5
    <2> HIDE DEF rule, k0
    <2>7. ASSUME NEW r \in store' \cup session', r.decision = "allow"
          PROVE  Stands(r, store', consents')
      <3>1. CASE r = rule
        BY <2>1, <2>2, <2>6, <3>1 DEF Stands
      <3>2. CASE r \in store \cup session
        BY <2>1, <2>6, <2>7, <3>2, StandsNow DEF Stands
      <3> QED BY <2>6, <3>1, <3>2
    <2>8. \A r \in store' \cup session' : r.decision = "deny" => r \in Stored
      BY <2>5, <2>6, StandsNow
    <2> QED BY <2>3, <2>4, <2>7, <2>8, StandsNext
  <1> QED BY <1>6, <1>7

\* The user withdraws a rule, and the consent behind it.
LEMMA RevokeRules ==
  ASSUME CallInv, RulesStand, NEW rule \in store \cup session, Revoke(rule)
  PROVE  RulesStand'
  <1>1. /\ store' = store \ {rule} /\ session' = session \ {rule} /\ passed' = passed
        /\ consents' = {k \in consents : k.id # rule.id}
    BY DEF Revoke, Withdrawn, calls
  <1>2. ASSUME NEW r \in store' \cup session', r.decision = "allow"
        PROVE  Stands(r, store', consents')
    <2>1. r \in store \cup session /\ r # rule /\ (r \in store' <=> r \in store)
      BY <1>1
    <2>2. CASE r \in Stored
      BY <2>2 DEF Stands
    <2>3. CASE r \notin Stored
      <3>1. PICK k \in consents :
              /\ Behind(r, k)
              /\ k.choice = IF r \in store THEN "allow_project" ELSE "allow_session"
        BY <1>2, <2>1, <2>3, StandsNow DEF Stands
      <3>2. k.id # rule.id
        <4>1. SUFFICES ASSUME k.id = rule.id PROVE FALSE
          OBVIOUS
        <4>2. rule.id \in Id
          BY <4>1 DEF CallInv, TypeOK, Consent
        <4>3. PICK l \in consents : rule.decision = "allow" /\ Behind(rule, l)
          BY <4>2, NewRule
        <4>4. l = k
          BY <4>1, <4>3 DEF RulesStand, Behind
        <4>5. r \in Rule /\ rule \in Rule
          BY <2>1 DEF CallInv, TypeOK, RulesOK
        <4>6. /\ r.id = rule.id /\ r.projects = rule.projects /\ r.capability = rule.capability
              /\ r.pattern = rule.pattern /\ r.decision = rule.decision
          BY <1>2, <3>1, <4>3, <4>4 DEF Behind
        <4>7. r = rule
          BY <4>5, <4>6 DEF Rule
        <4> QED BY <2>1, <4>7
      <3> QED BY <1>1, <2>1, <3>1, <3>2 DEF Stands
    <2> QED BY <2>2, <2>3
  <1>3. \A r \in store' \cup session' : r.decision = "deny" => r \in Stored
    BY <1>1, StandsNow
  <1>4. /\ \A k, l \in consents' : k.id = l.id => k = l
        /\ \A k \in consents' : \E e \in passed' : e.id = k.id
    BY <1>1 DEF RulesStand, HasPassed
  <1> QED BY <1>2, <1>3, <1>4, StandsNext

\* The process exits: rules of the project stay, with the consents behind them.
LEMMA ExitRules ==
  ASSUME RulesStand, Exit
  PROVE  RulesStand'
  <1>1. /\ store' = store /\ session' = {} /\ passed' = passed
        /\ consents' = {k \in consents : k.choice = "allow_project"}
    BY DEF Exit
  <1>2. /\ \A k, l \in consents' : k.id = l.id => k = l
        /\ \A k \in consents' : \E e \in passed' : e.id = k.id
    BY <1>1 DEF RulesStand, HasPassed
  <1>3. \A r \in store' : r.decision = "allow" => Stands(r, store', consents')
    BY <1>1, StandsNow DEF Stands
  <1>4. \A r \in store' : r.decision = "deny" => r \in Stored
    BY <1>1, StandsNow
  <1> QED BY <1>1, <1>2, <1>3, <1>4, StandsNext

\* The third part of the invariant, on top of the others.
LEMMA NextRules ==
  ASSUME CallInv, EndsInv, RulesStand, [Next]_vars
  PROVE  RulesStand'
  <1>1. ASSUME NEW t \in Task, NEW choice \in Choice, Respond(t, choice)
        PROVE  RulesStand'
    BY <1>1, RespondRules
  <1>2. ASSUME NEW rule \in store \cup session, Revoke(rule)
        PROVE  RulesStand'
    BY <1>2, RevokeRules
  <1>3. CASE Exit
    BY <1>3, ExitRules
  <1>4. CASE UNCHANGED <<store, session, consents>> /\ passed \subseteq passed'
    BY <1>4, RulesStay
  <1>5. ASSUME NEW t \in Task, NEW c \in [tool : Tool, scope : Scope, n : {made[t] + 1}],
               InvalidInput(t, c) \/ Check(t, c)
        PROVE  UNCHANGED <<store, session, consents>> /\ passed \subseteq passed'
    BY <1>5 DEF InvalidInput, Check, Calling, Refuse, Proceed, rules
  <1>6. ASSUME NEW t \in Task, \/ ConsentTimesOut(t) \/ Begin(t) \/ ToolTimesOut(t)
                               \/ Abort(t) \/ NewRun(t)
        PROVE  UNCHANGED <<store, session, consents>> /\ passed \subseteq passed'
    BY <1>6 DEF ConsentTimesOut, Begin, ToolTimesOut, Abort, NewRun, Refuse, calls, rules
  <1>7. ASSUME NEW x \in work, NEW ok \in BOOLEAN, ToolEnds(x, ok)
        PROVE  UNCHANGED <<store, session, consents>> /\ passed \subseteq passed'
    BY <1>7 DEF ToolEnds, rules
  <1>8. CASE UNCHANGED vars
    BY <1>4, <1>8 DEF vars, calls, rules
  <1> QED BY <1>1, <1>2, <1>3, <1>4, <1>5, <1>6, <1>7, <1>8 DEF Next

-----------------------------------------------------------------------------
(* The invariant                                                            *)

\* Nothing has happened yet.
LEMMA InitToolInv == Init => ToolInv
  <1> SUFFICES ASSUME Init PROVE ToolInv
    OBVIOUS
  <1>1. CallInv
    BY InitCallInv
  <1>2. /\ work = {} /\ rows = {} /\ unaudited = {} /\ lost = {} /\ passed = {} /\ done = {} /\ consents = {}
        /\ store = Stored /\ session = {}
        /\ \A t \in Task : pc[t] = "idle" /\ made[t] = 0
    BY DEF Init, RulesInit
  <1>3. WorkOK /\ PassedOK
    BY <1>2 DEF WorkOK, PassedOK, HasPassed
  <1>4. RowsOK
    BY <1>2 DEF RowsOK, AuditIsComplete
  <1>5. RulesStand
    BY <1>2 DEF RulesStand
  <1> QED BY <1>1, <1>3, <1>4, <1>5 DEF ToolInv, CallInv

\* Every step keeps all parts.
LEMMA NextToolInv == ToolInv /\ [Next]_vars => ToolInv'
  <1> SUFFICES ASSUME ToolInv, [Next]_vars PROVE ToolInv'
    OBVIOUS
  <1>1. CallInv /\ EndsInv /\ RulesStand
    BY DEF ToolInv, CallInv, EndsInv
  <1>2. CallInv'
    BY <1>1, NextCallInv
  <1>3. EndsInv'
    BY <1>1, <1>2, NextEndsInv
  <1>4. RulesStand'
    BY <1>1, NextRules
  <1> QED BY <1>2, <1>3, <1>4 DEF ToolInv, CallInv, EndsInv

\* For every set of tasks, tools, rules and scopes, and any interleaving of
\* their calls with consents, timeouts, cancellations and exits: the chains
\* (writeQueues, runtime.ts) hold the writes under way, an execution of a call
\* under way is the one it waits for, and a rule (engine.ts) is an old one or
\* has a consent of the user behind it.
THEOREM ToolInvariantHolds == Spec => []ToolInv
  BY InitToolInv, NextToolInv, PTL DEF Spec

\* Two executions that write to one project at the same time are never both
\* waited for: runtime.ts chains the writes of a project, and what overlaps
\* was given up at its timer or at an abort.
THEOREM WritesTakeTurnsHolds == Spec => []WritesTakeTurns
  <1>1. ToolInv => WritesTakeTurns
    <2>1. SUFFICES ASSUME ToolInv, NEW p \in Project,
                          NEW x \in WritesGoing(p), NEW y \in WritesGoing(p),
                          Awaited(x), Awaited(y)
                   PROVE  x = y
      BY DEF WritesTakeTurns
    <2>2. CallInv
      BY <2>1 DEF ToolInv, CallInv
    <2>3. ASSUME NEW z \in WritesGoing(p), Awaited(z)
          PROVE  /\ z.id[1] \in Task /\ z.id = IdOf(z.id[1]) /\ z.tool = call[z.id[1]].tool
                 /\ z \in [id : Id, tool : Tool]
                 /\ Head(queue[p]) = z.id[1]
      <3>1. /\ z \in work /\ Info[z.tool].mutates /\ ProjectOf[z.id[1]] = p
            /\ pc[z.id[1]] = "running" /\ IdOf(z.id[1]) = z.id
        BY <2>3 DEF WritesGoing, Awaited
      <3>2. z \in [id : Id, tool : Tool] /\ z.id[1] \in Task
        BY <2>2, <3>1, IdFacts DEF CallInv, TypeOK
      <3>3. z.tool = call[z.id[1]].tool
        BY <2>1, <3>1 DEF ToolInv, WorkOK
      <3>4. Writing(z.id[1])
        BY <3>1, <3>3 DEF Writing, InfoOf
      <3> QED BY <2>2, <3>1, <3>2, <3>3, <3>4, WriterHead
    <2>4. x.id[1] = y.id[1]
      BY <2>1, <2>3
    <2>5. x.id = y.id /\ x.tool = y.tool
      BY <2>1, <2>3, <2>4
    <2> QED BY <2>1, <2>3, <2>5
  <1> QED BY <1>1, ToolInvariantHolds, PTL

\* Every call that has returned has one audit row at most (audit, runtime.ts),
\* true to what was executed; it has none only if the process exited in it or
\* the row could not be written.
THEOREM AuditIsCompleteHolds == Spec => []AuditIsComplete
  <1>1. ToolInv => AuditIsComplete
    BY DEF ToolInv, RowsOK
  <1> QED BY <1>1, ToolInvariantHolds, PTL

\* A verdict "allow" rests on the tool's default or on a rule.
LEMMA VerdictGrounds ==
  ASSUME NEW project, NEW info, NEW scope, Verdict(project, info, scope) = "allow"
  PROVE  \/ info.default = "allow" /\ ~info.destructive
         \/ \E r \in store \cup session :
              /\ r.decision = "allow" /\ project \in r.projects
              /\ r.capability = info.capability /\ scope \in r.pattern
  <1> DEFINE said == {r.decision : r \in Matching(project, info.capability, scope)}
  <1>1. said = {"allow"} => \E r \in Matching(project, info.capability, scope) :
                              r.decision = "allow"
    OBVIOUS
  <1>2. said = {"allow"} \/ (info.default = "allow" /\ ~info.destructive)
    BY DEF Verdict
  <1> QED BY <1>1, <1>2 DEF Matching

\* Nothing gets past the permission engine (check and settle, engine.ts)
\* without grounds, whatever rules are made and withdrawn meanwhile.
THEOREM ConsentCoversHolds == Spec => ConsentCovers
  <1>1. ASSUME ToolInv, [Next]_vars, NEW e \in passed' \ passed
        PROVE  Grounds(e)
    <2>1. ASSUME NEW t \in Task, NEW c \in [tool : Tool, scope : Scope, n : {made[t] + 1}],
                 Check(t, c), Verdict(ProjectOf[t], InfoOf(c), c.scope) = "allow",
                 Proceed(t, c)
          PROVE  Grounds(e)
      <3>1. e = Entry(t, c) /\ consents' = consents
        BY <1>1, <2>1 DEF Check, Calling, Proceed, Entry
      <3>2. e.id[1] = t /\ e.tool = c.tool /\ e.scope = c.scope
        BY <3>1 DEF Entry
      <3>3. CASE InfoOf(c).default = "allow" /\ ~InfoOf(c).destructive
        BY <3>2, <3>3 DEF Grounds, InfoOf
      <3>4. ASSUME NEW r \in store \cup session, r.decision = "allow",
                   ProjectOf[t] \in r.projects, r.capability = InfoOf(c).capability,
                   c.scope \in r.pattern
            PROVE  Grounds(e)
        <4>1. CASE r \in Stored
          BY <3>2, <3>4, <4>1 DEF Grounds, InfoOf
        <4>2. ASSUME NEW k \in consents, Behind(r, k),
                     k.choice = IF r \in store THEN "allow_project" ELSE "allow_session"
              PROVE  Grounds(e)
          <5>1. /\ k \in consents' /\ k.project = ProjectOf[t]
                /\ k.capability = InfoOf(c).capability /\ k.choice # "allow_once"
                /\ c.scope \in Widened[k.capability][k.scope]
            BY <3>1, <3>4, <4>2 DEF Behind
          <5> QED BY <3>2, <5>1 DEF Grounds, InfoOf
        <4> QED BY <1>1, <3>4, <4>1, <4>2, StandsNow DEF Stands, ToolInv
      <3> QED BY <2>1, <3>3, <3>4, VerdictGrounds
    <2>2. ASSUME NEW t \in Task, NEW choice \in Choice, Respond(t, choice), choice # "deny"
          PROVE  Grounds(e)
      <3> DEFINE k0 == [id |-> IdOf(t), project |-> ProjectOf[t],
                        capability |-> InfoOf(call[t]).capability,
                        scope |-> call[t].scope, choice |-> choice]
      <3>1. e = Entry(t, call[t]) /\ k0 \in consents'
        BY <1>1, <2>2 DEF Respond, Proceed, Entry
      <3>2. e.id[1] = t /\ e.tool = call[t].tool /\ e.id = IdOf(t)
        BY <3>1 DEF Entry, IdOf
      <3>3. /\ k0.id = e.id /\ k0.project = ProjectOf[e.id[1]]
            /\ k0.capability = Info[e.tool].capability
        BY <3>2 DEF InfoOf
      <3> HIDE DEF k0
      <3> QED BY <3>1, <3>3 DEF Grounds
    <2>3. ASSUME NEW t \in Task, NEW c \in [tool : Tool, scope : Scope, n : {made[t] + 1}],
                 InvalidInput(t, c) \/ Check(t, c)
          PROVE  Grounds(e)
      <3>1. CASE Verdict(ProjectOf[t], InfoOf(c), c.scope) = "allow" /\ Check(t, c) /\ Proceed(t, c)
        BY <2>1, <3>1
      <3>2. CASE passed' = passed
        BY <1>1, <3>2
      <3> QED BY <2>3, <3>1, <3>2 DEF InvalidInput, Check, Refuse
    <2>4. ASSUME NEW t \in Task, NEW choice \in Choice, Respond(t, choice)
          PROVE  Grounds(e)
      <3>1. choice = "deny" => passed' = passed
        BY <2>4 DEF Respond, Refuse
      <3> QED BY <1>1, <2>2, <2>4, <3>1
    <2>5. ASSUME NEW t \in Task, \/ ConsentTimesOut(t) \/ Begin(t) \/ ToolTimesOut(t)
                                 \/ Abort(t) \/ NewRun(t)
          PROVE  passed' = passed
      BY <2>5 DEF ConsentTimesOut, Begin, ToolTimesOut, Abort, NewRun, Refuse, calls
    <2>6. ASSUME NEW x \in work, NEW ok \in BOOLEAN, ToolEnds(x, ok)
          PROVE  passed' = passed
      BY <2>6 DEF ToolEnds
    <2>7. ASSUME (\E rule \in store \cup session : Revoke(rule)) \/ Exit \/ UNCHANGED vars
          PROVE  passed' = passed
      BY <2>7 DEF Revoke, Exit, vars, calls
    <2> QED BY <1>1, <2>3, <2>4, <2>5, <2>6, <2>7 DEF Next
  <1>2. ToolInv /\ [Next]_vars => [\A c \in passed' \ passed : Grounds(c)]_vars
    BY <1>1
  <1>3. [][\A c \in passed' \ passed : Grounds(c)]_vars <=> ConsentCovers
    BY DEF ConsentCovers
  <1> QED BY <1>2, <1>3, ToolInvariantHolds, PTL DEF Spec
====
