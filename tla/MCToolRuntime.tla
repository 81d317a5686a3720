---- MODULE MCToolRuntime ----
(***************************************************************************)
(* Instances of ToolRuntime for TLC: two tasks of one project and three    *)
(* kinds of tools.                                                         *)
(***************************************************************************)
EXTENDS ToolInvariant, TLC

CONSTANTS t1, t2, p1, p2, read, edit, sql

\* A read (search.text), an edit (fs.write: synchronous, the rule covers the
\* directory), a statement (db.execute: asynchronous, its own scope).
Tools == read :> [capability |-> "fs", mutates |-> FALSE, sync |-> FALSE,
                  default |-> "allow", destructive |-> FALSE]
      @@ edit :> [capability |-> "fs", mutates |-> TRUE, sync |-> TRUE,
                  default |-> "ask", destructive |-> FALSE]
      @@ sql  :> [capability |-> "db", mutates |-> TRUE, sync |-> FALSE,
                  default |-> "ask", destructive |-> FALSE]

\* The scopes are paths of one directory; a statement's scope stays exact.
Patterns == [capability \in Capability |->
               [s \in Scope |-> IF capability = "fs" THEN Scope ELSE {s}]]

OneProject  == [t \in Task |-> p1]
Calls2And1  == [t \in Task |-> IF t = t1 THEN 2 ELSE 1]
RuleIds     == (Task \cup {"stored"}) \X (1..2)

\* The permissions table at the start: no statements in any project.
OldRules ==
  {[id |-> <<"stored", 1>>, projects |-> Project, capability |-> "db",
    pattern |-> Scope, decision |-> "deny"]}
====
