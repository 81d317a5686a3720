---- MODULE MCRenderer ----
(***************************************************************************)
(* Instances of Renderer for TLC.  The calls of a window and its streams   *)
(* share nothing but the order of the channel, so that a run with many of  *)
(* both is replaced by two kinds of runs.                                  *)
(***************************************************************************)
EXTENDS RendererInvariant

CONSTANTS t1, t2

NoTasks == row = [t \in Task |-> "over"]

\* Calls: two fetches and two commands, one of which is cancelled.
Calls1 == used = Stream \cup {3} /\ NoTasks /\ listens = MaxListens /\ cancels = 0

\* Three fetches and a command, and the listener of another event.
Calls2 == used = Stream \cup {11} /\ NoTasks /\ listens = 0 /\ cancels = MaxCancels

\* Streams: a task that is new or interrupted, and one that is over.
Streams1 ==
  /\ used = Call /\ row[t1] # "over" /\ row[t2] = "over"
  /\ listens = MaxListens /\ cancels = MaxCancels

\* A stream and the fetches it causes.
Streams2 ==
  /\ used = Command \cup {22} /\ row[t1] # "over" /\ row[t2] = "over"
  /\ listens = MaxListens /\ cancels = MaxCancels

MCInit == Init /\ (Calls1 \/ Calls2 \/ Streams1 \/ Streams2)

MCSpec == MCInit /\ [][Next]_vars
====
