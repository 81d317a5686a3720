---- MODULE MCRuntime ----
(***************************************************************************)
(* Instances of RuntimeSupervisor for TLC.                                 *)
(***************************************************************************)
EXTENDS RuntimeClaims, RuntimeInvariant, TLC

CONSTANTS web, api, install

\* The dev servers of two projects and an install, each started once.
StartsOfEach == web :> 1 @@ api :> 1 @@ install :> 1

\* One dev server, started a second time.
StartsOfOne == web :> 2

Servers == Permutations({web, api})
====
