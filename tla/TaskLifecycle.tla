---- MODULE TaskLifecycle ----
(***************************************************************************)
(* What the task service promises the user about a task, without the       *)
(* pipeline behind it: when it works, when it waits for a decision, what   *)
(* stops it, and what "complete" means.                                    *)
(***************************************************************************)
CONSTANTS Task, Session, SessionOf

VARIABLES
  phase,      \* what the user sees of each task
  cancelling, \* working tasks the user has cancelled
  unchecked   \* tasks with edits that no passing check has seen

vars == <<phase, cancelling, unchecked>>

Phase == {"absent", "queued", "working", "deciding", "complete", "cancelled",
          "parked", "interrupted"}

Busy == {"working", "deciding"}

TypeOK ==
  /\ phase \in [Task -> Phase]
  /\ cancelling \subseteq Task
  /\ unchecked \subseteq Task

Init ==
  /\ phase = [t \in Task |-> "absent"]
  /\ cancelling = {}
  /\ unchecked = {}

Move(t, from, to) == phase[t] \in from /\ phase' = [phase EXCEPT ![t] = to]

SessionFree(t) == \A u \in Task \ {t} : SessionOf[u] = SessionOf[t] => phase[u] \notin Busy

Submit(t) == Move(t, {"absent"}, "queued") /\ UNCHANGED <<cancelling, unchecked>>

\* A task starts, or starts again after a process exit, when no other task of
\* its session is being worked on.
Begin(t) ==
  /\ SessionFree(t)
  /\ Move(t, {"queued", "interrupted"}, "working")
  /\ UNCHANGED <<cancelling, unchecked>>

AskUser(t) ==
  /\ t \notin cancelling
  /\ Move(t, {"working"}, "deciding")
  /\ UNCHANGED <<cancelling, unchecked>>

Decide(t) == Move(t, {"deciding"}, "working") /\ UNCHANGED <<cancelling, unchecked>>

RequestCancel(t) ==
  /\ phase[t] = "working"
  /\ cancelling' = cancelling \cup {t}
  /\ UNCHANGED <<phase, unchecked>>

\* Only a task that works and is not being cancelled edits.
Edit(t) ==
  /\ phase[t] = "working" /\ t \notin cancelling
  /\ unchecked' = unchecked \cup {t}
  /\ UNCHANGED <<phase, cancelling>>

CheckPasses(t) ==
  /\ phase[t] = "working" /\ t \notin cancelling
  /\ unchecked' = unchecked \ {t}
  /\ UNCHANGED <<phase, cancelling>>

\* A task completes only when the checks passed after its last edit.
Complete(t) ==
  /\ t \notin cancelling \cup unchecked
  /\ Move(t, {"working"}, "complete")
  /\ UNCHANGED <<cancelling, unchecked>>

\* Something failed, perhaps right after an edit: the user is needed.
Park(t) ==
  /\ t \notin cancelling
  /\ Move(t, {"queued", "working", "interrupted"}, "parked")
  /\ unchecked' \in {unchecked, unchecked \cup {t}}
  /\ phase[t] # "working" => UNCHANGED unchecked
  /\ UNCHANGED cancelling

Cancel(t) ==
  /\ Move(t, {"queued", "working", "deciding", "parked"}, "cancelled")
  /\ cancelling' = cancelling \ {t}
  /\ UNCHANGED unchecked

\* The process exits: whatever had not come to rest is interrupted.
Exit ==
  /\ phase' = [t \in Task |-> IF phase[t] \in Busy \cup {"queued"}
                              THEN "interrupted" ELSE phase[t]]
  /\ cancelling' = {}
  /\ UNCHANGED unchecked

Next ==
  \/ \E t \in Task : \/ Submit(t) \/ Begin(t) \/ AskUser(t) \/ Decide(t)
                     \/ RequestCancel(t) \/ Edit(t) \/ CheckPasses(t)
                     \/ Complete(t) \/ Park(t) \/ Cancel(t)
  \/ Exit

Spec == Init /\ [][Next]_vars
====
