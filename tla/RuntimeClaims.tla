---- MODULE RuntimeClaims ----
(***************************************************************************)
(* What the repository says of the supervisor and the code does not do.    *)
(* The claim is refuted by a run of its own.                               *)
(***************************************************************************)
EXTENDS RuntimeSupervisor

\* Every project process is a supervised child (supervisor.ts), one per phase
\* (runtime/README.md): a live process is the child of its slot's record.
EveryProcessIsSupervised ==
  \A m \in Managed : process[m] = "alive" => IsCurrent(m) /\ managed[m].child
====
