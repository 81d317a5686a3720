---- MODULE MCServices ----
(***************************************************************************)
(* The services of the main process for TLC.  Only the vault is common to  *)
(* several of them, so that one run explores them one after the other:     *)
(* `part` says which one moves, the others stay where they start.  In the  *)
(* part "vault" two of them move: the edits of targets, with the ends of   *)
(* the process they are cut short by, and the servers' sign-ins, whose     *)
(* tools are left out.                                                      *)
(***************************************************************************)
EXTENDS ServicesInvariant, MCProjects, TLC

CONSTANTS r1, r2

VARIABLE part

Attempts == {1, 2}

\* What the vault is tried with: two places for secrets, of one adapter.
Simple == [adapter : {"none", "vercel"}, config : {TRUE}, secret : SUBSET Secret, env : [EnvName -> SUBSET Secret]]

Init ==
  /\ part \in {"databases", "deployments", "extensions", "providers", "projects", "upgrade", "vault"}
  /\ ServicesInit
  /\ part \notin {"deployments", "extensions", "vault"} => issued = {}
  /\ part # "deployments" => project = [static |-> FALSE, build |-> FALSE, docker |-> FALSE]
  /\ part \notin {"deployments", "vault"} => \A g \in Target : target[g] = NoTarget
  /\ part \notin {"extensions", "vault"} => \A s \in Server : server[s] = NoServer
  /\ part # "extensions" => \A p \in Plugin : plugin[p] = NoPlugin
  /\ part # "projects" => effort = CHOOSE f \in ProjectActs : TRUE
  \* In the vault the targets are not set up yet, and the servers sign in.
  /\ part = "vault" => /\ \A g \in Target : target[g] = NoTarget
                       /\ \A s \in Server : server[s].auth = "oauth"

Next ==
  /\ UNCHANGED part
  /\ \/ part = "databases"   /\ DatabasesMove
     \/ part = "deployments" /\ DeploymentsMove
     \/ part = "extensions"  /\ ExtensionsMove
     \/ part = "providers"   /\ ProvidersMove
     \/ part = "projects"    /\ ProjectsMove
     \/ part = "upgrade"     /\ UpgradeMove
     \/ /\ part = "vault"
        /\ \/ DeploymentsMove /\ UNCHANGED run /\ \A g \in Target : target'[g] \in Simple
           \/ ExtensionsMove /\ UNCHANGED <<plugin, registry>> /\ calls' <= 2

Spec == Init /\ [][Next]_<<part, servicesVars>>
====
