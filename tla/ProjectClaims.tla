---- MODULE ProjectClaims ----
(***************************************************************************)
(* What a comment of the repository says of projects and the code does not *)
(* do.  The claim is refuted by a run of its own.                          *)
(***************************************************************************)
EXTENDS Projects

\* REQ-nnn is scoped by project (storage/src/schema.ts): no save of a blueprint
\* fails on the ids that another project's requirements have.
EveryProjectIsSynced == refused = {}
====
