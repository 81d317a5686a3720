---- MODULE ServicesInvariant ----
(***************************************************************************)
(* The inductive invariants behind the properties of the services: what    *)
(* holds between any two steps of each part, of which the properties that  *)
(* the runs check are consequences.  Services.cfg has TLC check them.      *)
(***************************************************************************)
EXTENDS Services

-----------------------------------------------------------------------------
(* Databases                                                                *)

RequestRecord ==
  [at : {"none", "closing", "running", "done", "failed", "deleting"},
   for : {{}} \cup {{l} : l \in Link}, use : Uses \cup {"none"}, stamp : 0..MaxStamp,
   did : DOMAIN Severity, hidden : BOOLEAN, alone : BOOLEAN]

PoolRecord == [open : BOOLEAN, of : {{}} \cup {{l} : l \in Link}]

\* A request at work is at work on one link, and has no pool before it is
\* through with the old one.
AtWork(r) ==
  /\ request[r].at \in {"closing", "running", "deleting"} => request[r].for # {}
  /\ request[r].at \in {"none", "closing", "deleting"} => ~pool[r].open

\* Who waits for a pool of the link to end leaves no other one open that was
\* built by somebody who knew nothing of it; and of two who wait, neither is
\* alone with it.
Waits(l) ==
  \A r \in Busy(l) :
    /\ \A other \in Request : pool[other].open /\ pool[other].of = {l} => ~request[other].alone
    /\ \A other \in Busy(l) : other # r /\ request[other].at = "closing" => ~request[other].alone

DatabaseInv ==
  /\ DatabaseTypeOK
  /\ request \in [Request -> RequestRecord] /\ pool \in [Request -> PoolRecord]
  /\ \A r \in Request : AtWork(r)
  /\ \A l \in Link : Waits(l)
  /\ PoolsAreKept

-----------------------------------------------------------------------------
(* Deployments                                                              *)

\* Nothing names a secret twice: neither two targets nor two places of one.
NamedOnce ==
  /\ \A t, u \in Target : t = u \/ SecretsOf(t) \cap SecretsOf(u) = {}
  /\ \A t \in Target, n \in EnvName :
       /\ target[t].secret \cap target[t].env[n] = {}
       /\ \A m \in EnvName : m = n \/ target[t].env[m] \cap target[t].env[n] = {}

\* A place holds one secret or none.
OneEach ==
  \A t \in Target : \A ids \in {target[t].secret} \cup {target[t].env[n] : n \in EnvName} :
    ids = {} \/ \E s \in Secret : ids = {s}

PhaseName == {"env", "site", "upload", "create", "poll", "build", "dockerfile", "image"}

RunRecord ==
  [at : {"none", "readying", "live", "finished", "over"}, on : SUBSET Target, adapter : Adapter \cup {"none"},
   todo : Seq(PhaseName), polls : Nat, ready : BOOLEAN, aborted : BOOLEAN]

DeploymentInv ==
  /\ SecretsTypeOK /\ DeployTypeOK /\ run \in [Run -> RunRecord] /\ gone \subseteq Secret
  /\ NamedOnce /\ OneEach /\ TargetsHaveTheirSecrets

-----------------------------------------------------------------------------
(* Extensions                                                               *)

AttemptRecord ==
  [at : Waiting \cup {"none", "done", "failed"}, of : {{}} \cup {{o} : o \in Owner},
   then : {"none", "save", "disconnect", "delete", "opening", "importing", "disable", "remove"},
   token : SUBSET Secret, auth : {"none", "bearer", "oauth"}, granted : BOOLEAN, alone : BOOLEAN]

ExtensionsTyped ==
  /\ SecretsTypeOK /\ ExtensionsTypeOK /\ attempt \in [Attempt -> AttemptRecord]
  /\ tokens \in [Server -> SUBSET Secret]

Connecting == {"opening", "authorizing", "finishing", "listing"}
Activating == {"importing", "activating"}
OfServers  == {"save", "disconnect", "delete", "opening"}

\* A connect is of a server, an activation of a plugin.
Kind(a) ==
  LET r == attempt[a] IN
  /\ r.at \in Waiting => r.of # {}
  /\ r.at \in Connecting \/ (r.at = "closing" /\ r.then \in OfServers) => r.of \subseteq Server
  /\ r.at \in Activating \/ (r.at = "closing" /\ r.then \notin OfServers) => r.of \subseteq Plugin

\* What is in the map or in the registry was put there by an attempt of its
\* own, which has ended or, in the registry, is activating.
Placed ==
  /\ \A o \in Owner : \A a \in current[o] : attempt[a].of = {o} /\ attempt[a].at \in {"done", "failed"}
  /\ \A x \in Owner \X ToolName : \A a \in registry[x] :
       attempt[a].of = {x[1]} /\ attempt[a].at \in {"activating", "done", "failed"}

\* While an attempt is under way nobody else on its server or plugin is alone,
\* neither what runs nor what is under way too.
Crowded ==
  \A o \in Owner : \A a \in Under(o) :
    /\ \A b \in current[o] : ~attempt[b].alone
    /\ \A b \in Under(o) : b = a \/ ~attempt[b].alone

\* An attempt that nobody has overtaken is still wanted when it ends.
Wanted ==
  \A o \in Owner : \A a \in Under(o) : attempt[a].alone =>
    /\ attempt[a].at \in Connecting \/ attempt[a].then = "opening"
         => o \in Server /\ server[o].status # "none"
    /\ attempt[a].at \in Activating \/ attempt[a].then = "importing"
         => o \in Plugin /\ plugin[o].enabled

ExtensionsInv ==
  /\ ExtensionsTyped /\ Placed /\ Crowded /\ Wanted /\ ToolsHaveTheirOwner
  /\ \A a \in Attempt : Kind(a)

-----------------------------------------------------------------------------
(* Providers                                                                *)

\* Records that name connections up to n.
Configs(n)  == [Provider -> [enabled : BOOLEAN, key : BOOLEAN, connection : 0..n, listed : 0..n]]
Verdicts(n) == [Provider -> [of : 0..n, ok : BOOLEAN, is : BOOLEAN]]
Probes(n)   == [Probe -> [at : {"none", "validating", "listing", "done"}, p : {{}} \cup {{p} : p \in Provider},
                          connection : 0..n]]
Chats       == [Chat -> [at : {"none", "routed", "open", "ended"}, p : {{}} \cup {{p} : p \in Provider},
                         spent : BOOLEAN, recorded : BOOLEAN]]

ProviderRecords ==
  /\ config \in Configs(connections) /\ verdict \in Verdicts(connections) /\ probe \in Probes(connections)
  /\ discovered \in [Provider -> 0..connections] /\ chat \in Chats

\* What is known, kept or on its way of a provider is of its connection.
Current(p) ==
  /\ verdict[p].is => verdict[p].of = config[p].connection
  /\ {discovered[p], config[p].listed} \subseteq {0, config[p].connection}
  /\ \A r \in Probe : probe[r].p = {p} /\ probe[r].at \in {"validating", "listing"} =>
       probe[r].connection = config[p].connection

ProvidersInv == ProvidersTypeOK /\ ProviderRecords /\ \A p \in Provider \ overtaken : Current(p)

-----------------------------------------------------------------------------
(* Projects                                                                 *)

CatalogTyped ==
  /\ catalog \in [Project -> [at : {"none", "kept", "gone"}, dir : {{}} \cup {{d} : d \in Dir},
                              origin : {"none", "created", "copied", "imported"}]]
  /\ initial \in [Project -> {"none", "pending", "done", "failed"}]
  /\ \A p \in Cataloged : DirOf(p) # {}
  /\ effort \in [folders : Nat, papers : Nat, facts : Nat]

\* A project's folder is there, unless it has been removed from under it.
FoldersStand == \A p \in Cataloged : \A d \in DirOf(p) : folder[d] # "none" \/ d \in removed

PapersTyped ==
  /\ blueprint \in [Project -> Seq(Doc)] /\ approved \in [Project -> SUBSET Nat] /\ synced \in [Project -> Nat]
  /\ requirement \in [RefId -> [of : {{}} \cup {{p} : p \in Project}, ref : {"none", "general"} \cup UNION {{doc[i] : i \in DOMAIN doc} : doc \in Doc}]]
  /\ fact \in [Fact -> [at : {"none", "kept", "gone"}, of : {{}} \cup {{p} : p \in Project}, by : SUBSET Fact]]
  /\ \A p \in Project : /\ synced[p] <= Len(blueprint[p])
                        /\ p \notin Cataloged => synced[p] = 0 /\ blueprint[p] = <<>> /\ approved[p] = {}

ProjectsInv == ProjectsTypeOK /\ CatalogTyped /\ PapersTyped /\ FoldersStand /\ FoldersAreApart

-----------------------------------------------------------------------------
(* The opening of the database                                              *)

File   == [is : {"none", "whole", "torn"}, rows : Nat, at : Nat]
Places == {"closed", "opened", "migrating", "failed", "unlinked", "moved", "copying", "open"}

UpgradeTypes ==
  /\ file \in File /\ backup \in File /\ wal \in [rows : Nat, at : Nat]
  /\ opening \in [at : Places, existed : BOOLEAN, backedUp : BOOLEAN]
  /\ known \in Nat /\ stored \in Nat /\ cut \in BOOLEAN /\ kills \in Nat

\* Nothing comes from nowhere, and no file is newer than the program.
Bounded ==
  /\ RowsNow <= stored /\ backup.rows <= stored /\ stored <= MaxRows
  /\ VersionNow <= known /\ backup.at <= known /\ known <= MaxKnown /\ 1 <= known /\ kills <= MaxKills

\* What each place of openDatabase relies on.
Reached ==
  /\ opening.at \in {"opened", "migrating", "failed", "open"} => file.is = "whole"
  /\ opening.at \in {"unlinked", "moved", "copying"} => opening.backedUp /\ wal = NoWal
  /\ opening.at = "open" => VersionNow = known

\* Where the rows are.
RowsAreSomewhere ==
  ~cut =>
    /\ opening.at \notin {"moved", "copying"} =>
         \/ file.is = "whole" /\ RowsNow = stored
         \/ file.is = "none" /\ stored = 0
    /\ opening.backedUp /\ opening.at # "open" => backup.is = "whole" /\ backup.rows = stored

UpgradeInv == UpgradeTypes /\ Bounded /\ Reached /\ RowsAreSomewhere

-----------------------------------------------------------------------------
(* The services                                                             *)

\* What was stored for a server no target names, and a server names nothing
\* else: with a server goes nothing that a target needs.
SecretsApart ==
  /\ \A t \in Target : SecretsOf(t) \subseteq issued \ ServerTokens
  /\ ServerTokens \subseteq issued /\ gone \subseteq issued
  /\ \A s \in Server : server[s].token \subseteq ServerTokens
  /\ \A a \in Attempt : attempt[a].token \subseteq ServerTokens

\* The inductive invariants of the parts, their types included: who waits for a
\* pool or closes a connection leaves nothing of another one in place, nothing
\* names a secret twice, what is known of a provider is of its connection, the
\* rows of a project are its own, what was saved is somewhere while the database
\* is opened (integrations-wiring.ts, deployment-wiring.ts, mcp-wiring.ts,
\* registry.ts, catalog.ts, database.ts); and the servers' secrets are apart
\* from those of the targets.
ServicesInv ==
  /\ DatabaseInv /\ DeploymentInv /\ ExtensionsInv /\ ProvidersInv /\ ProjectsInv
  /\ UpgradeTypeOK /\ UpgradeInv /\ SecretsApart
====
