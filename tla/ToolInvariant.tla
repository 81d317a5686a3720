---- MODULE ToolInvariant ----
(***************************************************************************)
(* The inductive invariant of ToolRuntime.  TLC checks it on a small       *)
(* instance, ToolRuntimeProofs proves it.                                  *)
(***************************************************************************)
EXTENDS ToolRuntime

\* A call under way is the last one its task made.
CallsOK ==
  \A t \in Task :
    /\ made[t] <= MaxCalls[t]
    /\ IF pc[t] = "idle" THEN call[t] = NoCall
       ELSE call[t] \in Calls /\ call[t].n = made[t] /\ made[t] > 0
    /\ pc[t] \in {"queued", "stuck"} => InfoOf(call[t]).mutates

\* The chain of a project holds its writes under way, each once; only the
\* first one has begun.
Writing(t) == pc[t] \in {"queued", "running", "stuck"} /\ InfoOf(call[t]).mutates

QueuesOK ==
  /\ \A p \in Project : \A i \in 1..Len(queue[p]) :
       /\ ProjectOf[queue[p][i]] = p
       /\ Writing(queue[p][i])
       /\ i > 1 => pc[queue[p][i]] = "queued"
       /\ \A j \in 1..Len(queue[p]) : queue[p][i] = queue[p][j] => i = j
  /\ \A t \in Task : Writing(t) =>
       \E i \in 1..Len(queue[ProjectOf[t]]) : queue[ProjectOf[t]][i] = t

\* An execution of the call under way is the one the call waits for.
WorkOK ==
  \A x \in work :
    /\ x.id[2] <= made[x.id[1]]
    /\ IdOf(x.id[1]) = x.id => pc[x.id[1]] = "running" /\ x.tool = call[x.id[1]].tool

\* What was let through: calls past the engine, and everything they left.
HasPassed(id) == \E c \in passed : c.id = id

PassedOK ==
  /\ \A c \in passed : c.id[2] <= made[c.id[1]]
  /\ \A t \in Task : /\ pc[t] = "consent" => ~HasPassed(IdOf(t))
                     /\ pc[t] \in {"queued", "running", "stuck"} => HasPassed(IdOf(t))
  /\ \A x \in work : HasPassed(x.id)
  /\ \A id \in done : HasPassed(id)

\* Rows are about calls that have returned, as is what has none.
RowsOK ==
  /\ AuditIsComplete
  /\ \A r \in rows : r.id[2] <= made[r.id[1]] /\ IdOf(r.id[1]) # r.id
  /\ \A id \in lost \cup unaudited : id[2] <= made[id[1]] /\ IdOf(id[1]) # id

\* A rule is an old one or stands for a consent of the user.
RulesStand ==
  /\ \A r \in store \cup session : r.decision = "allow" =>
       \/ r \in Stored
       \/ \E k \in consents :
            /\ k.id = r.id /\ r.projects = {k.project} /\ k.capability = r.capability
            /\ r.pattern = Widened[k.capability][k.scope]
            /\ k.choice = IF r \in store THEN "allow_project" ELSE "allow_session"
  /\ \A r \in store \cup session : r.decision = "deny" => r \in Stored
  /\ \A k, l \in consents : k.id = l.id => k = l
  /\ \A k \in consents : HasPassed(k.id)

ToolInv == TypeOK /\ CallsOK /\ QueuesOK /\ WorkOK /\ PassedOK /\ RowsOK /\ RulesStand
====
