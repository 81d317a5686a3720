---- MODULE PermissionEngine ----
(***************************************************************************)
(* The standing rules of packages/permissions/src/engine.ts and the        *)
(* decision it takes on a tool call.  Parked requests belong to the calls  *)
(* that wait for them, in ToolRuntime.                                     *)
(*                                                                         *)
(* A scope pattern is the set of scopes it matches (glob.ts); which rule   *)
(* of several is named in the audit row is left out.  No code creates a    *)
(* rule of lifetime "once" or one that expires, so neither is modelled.  A  *)
(* stored rule may be without a project (schema.ts): it is for all of them. *)
(***************************************************************************)
EXTENDS Naturals

CONSTANTS
  Project, Capability,
  Scope,        \* concrete scopes: a path, a host, a server's tool
  Widened,      \* the scopes scopePatternFor(capability, scope) matches
  RuleId,       \* ids of rules
  Stored        \* rules in the permissions table when the application starts

Rule == [id : RuleId, projects : {{p} : p \in Project} \cup {Project}, capability : Capability,
         pattern : SUBSET Scope, decision : {"allow", "deny"}]

ASSUME WidenedAssumption == Widened \in [Capability -> [Scope -> SUBSET Scope]]
ASSUME StoredAssumption == Stored \subseteq Rule

VARIABLES
  store,   \* PolicyStore: rules that survive the process
  session  \* rules of this process

rules == <<store, session>>

RulesOK == store \subseteq Rule /\ session \subseteq Rule

RulesInit == store = Stored /\ session = {}

\* matching(): the rules of either kind that speak about a call.
Matching(project, capability, scope) ==
  {r \in store \cup session :
     project \in r.projects /\ r.capability = capability /\ scope \in r.pattern}

\* check(): a deny rule wins, then an allow rule, then the tool's default; a
\* destructive tool's default never allows.
Verdict(project, info, scope) ==
  LET said == {r.decision : r \in Matching(project, info.capability, scope)}
  IN CASE "deny" \in said -> "deny"
       [] said = {"allow"} -> "allow"
       [] said = {} /\ info.default = "deny" -> "deny"
       [] said = {} /\ info.default = "allow" /\ ~info.destructive -> "allow"
       [] OTHER -> "ask"

\* Fault: a consent to one call leaves a rule behind.
SettledFault(id, project, capability, scope, choice) ==
  LET rule == [id |-> id, projects |-> {project}, capability |-> capability,
               pattern |-> Widened[capability][scope], decision |-> "allow"]
  IN /\ session' = IF choice \in {"allow_once", "allow_session"}
                   THEN session \cup {rule} ELSE session
     /\ store' = IF choice = "allow_project" THEN store \cup {rule} ELSE store

\* settle(): the rule, if any, that the user's choice leaves behind.
Settled(id, project, capability, scope, choice) ==
  LET rule == [id |-> id, projects |-> {project}, capability |-> capability,
               pattern |-> Widened[capability][scope], decision |-> "allow"]
  IN /\ session' = IF choice = "allow_session" THEN session \cup {rule} ELSE session
     /\ store' = IF choice = "allow_project" THEN store \cup {rule} ELSE store

\* revoke(): a rule of the session, or else of the store.
Withdrawn(rule) ==
  /\ session' = session \ {rule}
  /\ store' = store \ {rule}
====
