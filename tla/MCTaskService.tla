---- MODULE MCTaskService ----
(***************************************************************************)
(* Instances of TaskService for TLC: who submits what, and budgets small   *)
(* enough to be reached.                                                   *)
(***************************************************************************)
EXTENDS TaskInvariant, TaskRefinement, TaskClaims, TLC

CONSTANTS t1, t2, s1, s2

SameSession == [t \in Task |-> s1]

Ask           == [mode |-> "ask", intent |-> "change", complexity |-> "standard"]
Change(c)     == [mode |-> "build", intent |-> "change", complexity |-> c]
Fix           == [mode |-> "build", intent |-> "fix", complexity |-> "standard"]
AllRequests   == {Ask, Fix} \cup {Change(c) : c \in Complexity}
TwoRequests   == {Change("standard"), Fix}

\* Budgets (12/30/60 tool steps and 6/20/40 model calls in the code): two tool
\* steps are spent by one turn of two calls or by two turns of one; a complex
\* task can plan, build, be reviewed and build again.
ToolSteps  == [c \in Complexity |-> IF c = "complex" THEN 3 ELSE 2]
ModelCalls == (("trivial" :> 2) @@ ("standard" :> 3)) @@ ("complex" :> 5)

\* Where two tasks share the state space, the smallest budgets that reach
\* every step.
FewToolSteps  == [c \in Complexity |-> 1]
FewModelCalls == [c \in Complexity |-> 2]

\* Tasks of one session are interchangeable (not for liveness).
TaskSymmetry == Permutations(Task)
====
