---- MODULE Services ----
(***************************************************************************)
(* The services of the main process side by side (main/services.ts):       *)
(* database links, deployments, extensions, providers, the catalog of      *)
(* projects and the opening of the database file.                          *)
(*                                                                         *)
(* What they have in common is the vault: a deployment target names what   *)
(* its panel has stored there, an MCP server its panel's or its sign-in's  *)
(* token, and the settings screen deletes and rotates any of them.         *)
(***************************************************************************)
EXTENDS Databases, Deployments, Extensions, Providers, Projects, Upgrade

\* The secrets ever stored for a server, by the panel or by a sign-in.
ServerTokens == UNION {tokens[s] : s \in Server}

\* With the process go the connections, the tools and what waits for somebody;
\* the rows of servers and plugins stay as they are, a plugin's error does not.
ExtensionsEnd ==
  /\ current' = [o \in Owner |-> {}] /\ registry' = [x \in Owner \X ToolName |-> {}]
  /\ attempt' = [a \in Attempt |-> IF attempt[a].at \in Waiting THEN [attempt[a] EXCEPT !.at = "failed"]
                                  ELSE attempt[a]]
  /\ plugin' = [p \in Plugin |-> [plugin[p] EXCEPT !.error = FALSE]]
  /\ UNCHANGED <<server, calls, tokens>>

\* The deploy panel names what it has just stored, never another secret.
PanelNames == \A t \in Target : SecretsOf(t)' \cap ServerTokens \subseteq SecretsOf(t)

ProcessEnds == stops' # stops /\ Killed

DatabasesMove ==
  /\ DatabaseNext
  /\ UNCHANGED <<secretVars, deployVars, extensionVars, providerVars, projectsVars, upgradeVars>>

DeploymentsMove ==
  /\ DeployNext /\ PanelNames
  /\ IF ProcessEnds THEN ExtensionsEnd ELSE UNCHANGED extensionVars
  /\ UNCHANGED <<databaseVars, providerVars, projectsVars, upgradeVars>>

ExtensionsMove ==
  /\ ExtensionsNext
  /\ UNCHANGED <<databaseVars, deployVars, providerVars, projectsVars, upgradeVars>>

ProvidersMove ==
  /\ ProvidersNext
  /\ UNCHANGED <<databaseVars, secretVars, deployVars, extensionVars, projectsVars, upgradeVars>>

ProjectsMove ==
  /\ ProjectsNext
  /\ UNCHANGED <<databaseVars, secretVars, deployVars, extensionVars, providerVars, upgradeVars>>

UpgradeMove ==
  /\ UpgradeNext
  /\ UNCHANGED <<databaseVars, secretVars, deployVars, extensionVars, providerVars, projectsVars>>

ServicesInit ==
  /\ DatabaseInit /\ SecretsInit /\ DeployInit /\ ExtensionsInit /\ ProvidersInit /\ ProjectsInit
  /\ UpgradeInit

ServicesNext ==
  DatabasesMove \/ DeploymentsMove \/ ExtensionsMove \/ ProvidersMove \/ ProjectsMove \/ UpgradeMove

servicesVars == <<databaseVars, secretVars, deployVars, extensionVars, providerVars, projectsVars, upgradeVars>>

ServicesSpec == ServicesInit /\ [][ServicesNext]_servicesVars
====
