---- MODULE ToolRuntime ----
(***************************************************************************)
(* ToolRuntime.execute (packages/tools/src/runtime.ts) with the permission *)
(* engine it asks.  A task's run makes one call at a time (builderLoop);   *)
(* tasks of different sessions call side by side.                          *)
(*                                                                         *)
(* pc[t] is the await the call of t is suspended at:                       *)
(*   consent  parked in the engine until the user, the timer or the abort  *)
(*            settles it                                                   *)
(*   queued   waits for the writes of its project that came before it      *)
(*   running  races the tool with the tool's timer and the abort           *)
(*   stuck    was aborted before its turn came: runWithTimeout awaits a    *)
(*            timer nobody cuts short, since the abort it listens for is   *)
(*            past; the project's other writes wait behind it              *)
(*                                                                         *)
(* Promise jobs that follow one another without a macrotask between them   *)
(* (a write settles, the next one begins) are separate steps here, which   *)
(* allows a few more interleavings than the event loop has.  Calls refused *)
(* at the door (signal aborted, unknown tool) return at once, change       *)
(* nothing and leave no audit row: they are steps that change nothing, and *)
(* so the registry of tools, which grows and shrinks with MCP servers, is  *)
(* left out.                                                               *)
(* An audit row that cannot be written is logged and given up.             *)
(***************************************************************************)
EXTENDS PermissionEngine, Sequences, FiniteSets

CONSTANTS
  Task, ProjectOf,
  Tool,
  Info,      \* each tool's descriptor; "sync" tools return without awaiting
  MaxCalls,  \* bound: calls each task makes
  MaxFaults  \* bound: process exits and rows that cannot be written

Descriptor == [capability : Capability, mutates : BOOLEAN, sync : BOOLEAN,
               default : {"allow", "ask", "deny"}, destructive : BOOLEAN]

ASSUME ProjectOfAssumption == ProjectOf \in [Task -> Project]
ASSUME InfoAssumption == Info \in [Tool -> Descriptor]
ASSUME RuleIdAssumption == \A t \in Task : {t} \X (1..MaxCalls[t]) \subseteq RuleId
ASSUME BoundsAssumption == MaxCalls \in [Task -> Nat] /\ MaxFaults \in Nat

VARIABLES
  pc,       \* where each task's call is
  call,     \* what it calls
  made,     \* calls made
  aborted,  \* tasks whose signal is aborted
  queue,    \* writeQueues: each project's chain of writes, the first one at work
  work,     \* tool executions under way, those their call gave up included
  rows,     \* the audit: the rows in the database
  exits,    \* bound
  \* History.
  passed,   \* calls the permission engine let through
  done,     \* calls whose tool did its work
  unaudited, \* calls that returned although their row could not be written
  lost,     \* calls a process exit cut off
  consents  \* the user's consents, as given and not withdrawn

calls == <<pc, call, made, queue, work, rows, unaudited, passed, done>>
vars  == <<rules, calls, aborted, exits, lost, consents>>

Id     == UNION {{t} \X (1..MaxCalls[t]) : t \in Task}
Calls  == [tool : Tool, scope : Scope, n : Nat]
NoCall == [tool |-> "none", scope |-> "none", n |-> 0]
Row    == [id : Id, decision : {"allow", "deny"}, ok : BOOLEAN]
Passed == [id : Id, tool : Tool, scope : Scope]
Consent == [id : Id, project : Project, capability : Capability, scope : Scope,
            choice : {"allow_once", "allow_session", "allow_project"}]

\* Ids are generated afresh: a rule found in the database has an old one.
ASSUME StoredIdAssumption == \A rule \in Stored : rule.id \notin Id

TypeOK ==
  /\ RulesOK
  /\ pc \in [Task -> {"idle", "consent", "queued", "running", "stuck"}]
  /\ call \in [Task -> Calls \cup {NoCall}]
  /\ made \in [Task -> Nat]
  /\ aborted \subseteq Task
  /\ queue \in [Project -> Seq(Task)]
  /\ work \subseteq [id : Id, tool : Tool]
  /\ rows \subseteq Row
  /\ exits \in Nat
  /\ passed \subseteq Passed /\ done \subseteq Id /\ lost \subseteq Id /\ unaudited \subseteq Id
  /\ consents \subseteq Consent

Init ==
  /\ RulesInit
  /\ pc = [t \in Task |-> "idle"]
  /\ call = [t \in Task |-> NoCall]
  /\ made = [t \in Task |-> 0]
  /\ aborted = {}
  /\ queue = [p \in Project |-> <<>>]
  /\ work = {}
  /\ rows = {}
  /\ exits = 0
  /\ passed = {} /\ done = {} /\ lost = {} /\ unaudited = {}
  /\ consents = {}

-----------------------------------------------------------------------------
(* Helpers                                                                  *)

Faults      == exits + Cardinality(unaudited)
InfoOf(c)   == Info[c.tool]
IdOf(t)     == <<t, call[t].n>>
Execution(t, c) == [id |-> <<t, c.n>>, tool |-> c.tool]

\* The call of t settles and is audited; it returns all the same when the row
\* cannot be written.
Return(t, c, decision, ok) ==
  /\ pc' = [pc EXCEPT ![t] = "idle"]
  /\ call' = [call EXCEPT ![t] = NoCall]
  /\ \/ /\ rows' = rows \cup {[id |-> <<t, c.n>>, decision |-> decision, ok |-> ok]}
        /\ UNCHANGED unaudited
     \/ /\ Faults < MaxFaults   \* bound
        /\ unaudited' = unaudited \cup {<<t, c.n>>}
        /\ UNCHANGED rows

\* A call that was given its turn leaves the chain when it settles.
LeaveQueue(t, c) ==
  queue' = IF InfoOf(c).mutates THEN [queue EXCEPT ![ProjectOf[t]] = Tail(@)] ELSE queue

\* runWithTimeout, the signal not aborted: the tool is executed.  One that
\* awaits nothing has returned, well or not, before any timer can fire.
Execute(t, c) ==
  /\ \/ /\ InfoOf(c).sync
        /\ \/ Return(t, c, "allow", TRUE) /\ done' = done \cup {<<t, c.n>>}
           \/ Return(t, c, "allow", FALSE) /\ UNCHANGED done
        /\ UNCHANGED work
     \/ /\ ~InfoOf(c).sync
        /\ pc' = [pc EXCEPT ![t] = "running"]
        /\ call' = [call EXCEPT ![t] = c]
        /\ work' = work \cup {Execution(t, c)}
        /\ UNCHANGED <<rows, unaudited, done>>

\* execute() after an "allow": a write joins its project's chain, anything
\* else is executed at once.
Proceed(t, c) ==
  /\ passed' = passed \cup {[id |-> <<t, c.n>>, tool |-> c.tool, scope |-> c.scope]}
  /\ \/ /\ InfoOf(c).mutates
        /\ pc' = [pc EXCEPT ![t] = "queued"]
        /\ call' = [call EXCEPT ![t] = c]
        /\ queue' = [queue EXCEPT ![ProjectOf[t]] = Append(@, t)]
        /\ UNCHANGED <<work, rows, unaudited, done>>
     \/ /\ ~InfoOf(c).mutates
        /\ Execute(t, c)
        /\ UNCHANGED queue

\* A call that never ran is refused.
Refuse(t, c) ==
  /\ Return(t, c, "deny", FALSE)
  /\ UNCHANGED <<queue, work, passed, done>>

-----------------------------------------------------------------------------
(* Calls                                                                    *)

\* execute(): the next call of t passes the door.
Calling(t, c) ==
  /\ pc[t] = "idle" /\ t \notin aborted
  /\ made[t] < MaxCalls[t]   \* bound
  /\ c.n = made[t] + 1
  /\ made' = [made EXCEPT ![t] = c.n]
  /\ UNCHANGED <<rules, aborted, exits, lost, consents>>

InvalidInput(t, c) == Calling(t, c) /\ Refuse(t, c)

\* check() answers at once, or parks the call.
Check(t, c) ==
  LET verdict == Verdict(ProjectOf[t], InfoOf(c), c.scope)
  IN /\ Calling(t, c)
     /\ \/ verdict = "deny" /\ Refuse(t, c)
        \/ verdict = "allow" /\ Proceed(t, c)
        \/ /\ verdict = "ask"
           /\ pc' = [pc EXCEPT ![t] = "consent"]
           /\ call' = [call EXCEPT ![t] = c]
           /\ UNCHANGED <<queue, work, rows, unaudited, passed, done>>

\* respond(): other parked calls the new rule would cover stay parked.
Respond(t, choice) ==
  LET c == call[t]
      cap == InfoOf(c).capability
  IN /\ pc[t] = "consent"
     /\ Settled(IdOf(t), ProjectOf[t], cap, c.scope, choice)
     /\ IF choice = "deny"
        THEN Refuse(t, c) /\ UNCHANGED consents
        ELSE /\ Proceed(t, c)
             /\ consents' = consents \cup
                  {[id |-> IdOf(t), project |-> ProjectOf[t], capability |-> cap,
                    scope |-> c.scope, choice |-> choice]}
     /\ UNCHANGED <<made, aborted, exits, lost>>

ConsentTimesOut(t) ==
  /\ pc[t] = "consent"
  /\ Refuse(t, call[t])
  /\ UNCHANGED <<rules, made, aborted, exits, lost, consents>>

\* Fault: writes are not chained.
HasTurnFault(t) == pc[t] = "queued"

\* The writes before it have settled.
HasTurn(t) == pc[t] = "queued" /\ Head(queue[ProjectOf[t]]) = t

\* Fault: a call whose signal is aborted when its turn comes is forgotten.
BeginFault(t) ==
  /\ HasTurn(t)
  /\ t \notin aborted
  /\ Execute(t, call[t])
  /\ IF pc'[t] = "idle" THEN LeaveQueue(t, call[t]) ELSE UNCHANGED queue
  /\ UNCHANGED <<rules, made, aborted, exits, lost, passed, consents>>

\* The turn of a write comes.
Begin(t) ==
  /\ HasTurn(t)
  /\ \/ /\ t \notin aborted
        /\ Execute(t, call[t])
        /\ IF pc'[t] = "idle" THEN LeaveQueue(t, call[t]) ELSE UNCHANGED queue
     \/ /\ t \in aborted
        /\ pc' = [pc EXCEPT ![t] = "stuck"]
        /\ UNCHANGED <<call, queue, work, rows, unaudited, done>>
  /\ UNCHANGED <<rules, made, aborted, exits, lost, passed, consents>>

\* An execution ends, well or not.  If its call still waits for it, the call
\* returns; if the call gave up, nobody hears of it.
Awaited(x) == pc[x.id[1]] = "running" /\ IdOf(x.id[1]) = x.id

ToolEnds(x, ok) ==
  /\ x \in work
  /\ work' = work \ {x}
  /\ done' = IF ok THEN done \cup {x.id} ELSE done
  /\ IF Awaited(x)
     THEN Return(x.id[1], call[x.id[1]], "allow", ok) /\ LeaveQueue(x.id[1], call[x.id[1]])
     ELSE UNCHANGED <<pc, call, rows, unaudited, queue>>
  /\ UNCHANGED <<rules, made, aborted, exits, lost, passed, consents>>

\* Fault: a call that times out is audited as a success.
ToolTimesOutFault(t) ==
  /\ pc[t] \in {"running", "stuck"}
  /\ Return(t, call[t], "allow", TRUE)
  /\ LeaveQueue(t, call[t])
  /\ UNCHANGED <<rules, made, aborted, exits, work, passed, done, lost, consents>>

\* The tool's timer fires: the call returns, the execution goes on.
ToolTimesOut(t) ==
  /\ pc[t] \in {"running", "stuck"}
  /\ Return(t, call[t], "allow", FALSE)
  /\ LeaveQueue(t, call[t])
  /\ UNCHANGED <<rules, made, aborted, exits, work, passed, done, lost, consents>>

-----------------------------------------------------------------------------
(* The task, the user and the process                                       *)

\* The task is cancelled.  A parked or a running call returns at once, the
\* execution of a running one goes on; a queued call does not notice.
Abort(t) ==
  /\ t \notin aborted
  /\ aborted' = aborted \cup {t}
  /\ \/ pc[t] = "consent" /\ Refuse(t, call[t])
     \/ /\ pc[t] = "running"
        /\ Return(t, call[t], "allow", FALSE) /\ LeaveQueue(t, call[t])
        /\ UNCHANGED <<work, passed, done>>
     \/ /\ pc[t] \in {"idle", "queued"}
        /\ UNCHANGED <<pc, call, rows, unaudited, queue, work, passed, done>>
  /\ UNCHANGED <<rules, made, exits, lost, consents>>

\* A new run of the task, with a signal of its own, once the old one has ended.
NewRun(t) ==
  /\ t \in aborted /\ pc[t] = "idle"
  /\ aborted' = aborted \ {t}
  /\ UNCHANGED <<rules, calls, exits, lost, consents>>

\* revoke() from the project's settings; the user takes the consent back.
Revoke(rule) ==
  /\ rule \in store \cup session
  /\ Withdrawn(rule)
  /\ consents' = {k \in consents : k.id # rule.id}
  /\ UNCHANGED <<calls, aborted, exits, lost>>

\* The process exits and starts again: memory is gone, and executions under
\* way may or may not have done their work.
Exit ==
  /\ Faults < MaxFaults   \* bound
  /\ exits' = exits + 1
  /\ session' = {}
  /\ lost' = lost \cup {IdOf(t) : t \in {u \in Task : pc[u] # "idle"}}
  /\ \E ended \in SUBSET work : done' = done \cup {x.id : x \in ended}
  /\ pc' = [t \in Task |-> "idle"]
  /\ call' = [t \in Task |-> NoCall]
  /\ aborted' = {}
  /\ queue' = [p \in Project |-> <<>>]
  /\ work' = {}
  /\ consents' = {k \in consents : k.choice = "allow_project"}
  /\ UNCHANGED <<store, made, rows, unaudited, passed>>

-----------------------------------------------------------------------------

Choice == {"allow_once", "allow_session", "allow_project", "deny"}

Next ==
  \/ \E t \in Task :
       \/ \E c \in [tool : Tool, scope : Scope, n : {made[t] + 1}] :
            InvalidInput(t, c) \/ Check(t, c)
       \/ \E choice \in Choice : Respond(t, choice)
       \/ ConsentTimesOut(t)
       \/ Begin(t)
       \/ ToolTimesOut(t)
       \/ Abort(t)
       \/ NewRun(t)
  \/ \E x \in work : \E ok \in BOOLEAN : ToolEnds(x, ok)
  \/ \E rule \in store \cup session : Revoke(rule)
  \/ Exit

Spec == Init /\ [][Next]_vars

\* The event loop runs the promise jobs that are due and the timers that
\* expire: the consent timer and the tool's.  Nothing is assumed of the user
\* nor of the tools.
Fairness ==
  \A t \in Task : /\ WF_vars(ConsentTimesOut(t))
                  /\ WF_vars(Begin(t))
                  /\ WF_vars(ToolTimesOut(t))

FairSpec == Spec /\ Fairness

-----------------------------------------------------------------------------
(* Properties                                                               *)

\* A call gets past the permission engine only on a tool that may run without
\* asking, on a rule found in the database, or on a consent the user gave in
\* this project for this capability: to this very call, or, standing and not
\* withdrawn since, to a scope whose pattern covers this one.
Grounds(c) ==
  LET project == ProjectOf[c.id[1]]
      info    == Info[c.tool]
  IN \/ info.default = "allow" /\ ~info.destructive
     \/ \E rule \in Stored : /\ rule.decision = "allow" /\ project \in rule.projects
                             /\ rule.capability = info.capability /\ c.scope \in rule.pattern
     \/ \E k \in consents' :
          /\ k.project = project /\ k.capability = info.capability
          /\ \/ k.id = c.id
             \/ k.choice # "allow_once" /\ c.scope \in Widened[k.capability][k.scope]

ConsentCovers == [][\A c \in passed' \ passed : Grounds(c)]_vars

\* Of two executions that write to one project at the same time, one was given
\* up by its call, at its timer or at an abort.
WritesGoing(p) == {x \in work : Info[x.tool].mutates /\ ProjectOf[x.id[1]] = p}

WritesTakeTurns ==
  \A p \in Project : \A x, y \in WritesGoing(p) : x # y => ~Awaited(x) \/ ~Awaited(y)

\* The audit: a call has at most one row, and has it from the moment it
\* returns; a denied call's tool was never executed, and one that is reported to
\* have worked did its work.  A call is without a row when a process exit cut it
\* off, or when the row could not be written (audit(), runtime.ts, logs that).
AuditIsComplete ==
  /\ \A r, q \in rows : r.id = q.id => r = q
  /\ \A r \in rows : /\ r.decision = "deny" =>
                          r.id \notin done /\ \A c \in passed : c.id # r.id
                     /\ r.ok => r.id \in done
                     /\ r.id \notin lost \cup unaudited
  /\ \A t \in Task : \A n \in 1..made[t] :
       \/ \E r \in rows : r.id = <<t, n>>
       \/ <<t, n>> \in lost \cup unaudited
       \/ pc[t] # "idle" /\ call[t].n = n

\* Every call returns, whatever the user, the tools and the calls before it
\* in the project's chain do.
EveryCallReturns == \A t \in Task : pc[t] # "idle" ~> pc[t] = "idle"
====
