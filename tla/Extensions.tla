---- MODULE Extensions ----
(***************************************************************************)
(* MCP servers (main/mcp-wiring.ts over packages/integrations/src/mcp) and *)
(* plugins (main/plugins-wiring.ts over packages/plugins/src/loader.ts):   *)
(* what they put into the tool runtime's registry, and when it leaves it.  *)
(*                                                                         *)
(* A connect and an activation wait several times for somebody else, and   *)
(* nothing keeps two of them, or one and a delete, apart.  Both are called *)
(* attempts here.  A secret is stored and rotated as in Secrets, but the   *)
(* process is not killed: what happens to a vault then is shown there.     *)
(***************************************************************************)
EXTENDS Secrets

CONSTANTS
  Server, Plugin,
  Attempt,    \* connects and activations, numbered
  ToolName,
  MaxCalls    \* bound: commands of the user

ASSUME AttemptAssumption == Attempt \subseteq Nat /\ Server \cap Plugin = {}

VARIABLES
  server,    \* mcp_servers table: configuration, status and the secret it names
  plugin,    \* settings key plugins.installed, and the errors map
  current,   \* the live and active maps: the attempt a server or plugin runs by
  attempt,   \* what an attempt is doing, and for whom
  registry,  \* the tool runtime's tools: by name, the attempt that registered it
  calls,
  \* History.
  tokens     \* secrets stored for a server: by its panel and its sign-ins

extensionVars == <<server, plugin, current, attempt, registry, calls, tokens>>

Owner    == Server \cup Plugin
NoServer == [status |-> "none", auth |-> "none", token |-> {}]
NoPlugin == [installed |-> FALSE, enabled |-> FALSE, granted |-> FALSE, error |-> FALSE]
NoTry    == [at |-> "none", of |-> {}, then |-> "none", token |-> {}, auth |-> "none",
             granted |-> FALSE, alone |-> TRUE]

Waiting  == {"closing", "opening", "authorizing", "finishing", "listing", "importing", "activating"}
Under(o) == {a \in Attempt : attempt[a].of = {o} /\ attempt[a].at \in Waiting}

ExtensionsTypeOK ==
  /\ server \in [Server -> [status : {"none", "disconnected", "connecting", "connected", "error"},
                            auth : {"none", "bearer", "oauth"}, token : SUBSET Secret]]
  /\ plugin \in [Plugin -> [installed : BOOLEAN, enabled : BOOLEAN, granted : BOOLEAN, error : BOOLEAN]]
  /\ current \in [Owner -> SUBSET Attempt]
  /\ registry \in [Owner \X ToolName -> SUBSET Attempt]
  /\ \A a \in Attempt : attempt[a].at \in Waiting \cup {"none", "done", "failed"}

ExtensionsInit ==
  /\ server \in [Server -> {NoServer} \cup [status : {"disconnected"}, auth : {"bearer", "oauth"}, token : {{}}]]
  /\ plugin \in [Plugin -> {NoPlugin, [NoPlugin EXCEPT !.installed = TRUE, !.granted = TRUE]}]
  /\ current = [o \in Owner |-> {}] /\ attempt = [a \in Attempt |-> NoTry]
  /\ registry = [x \in Owner \X ToolName |-> {}] /\ calls = 0 /\ tokens = [s \in Server |-> {}]

Call == calls < MaxCalls /\ calls' = calls + 1

\* Without the tools of the attempts in "dead".
Without(dead) == [x \in DOMAIN registry |-> registry[x] \ dead]

-----------------------------------------------------------------------------
(* The live and active maps                                                 *)

\* Fault: the tools of what is closed stay registered.
RetireFault(o) ==
  /\ current' = [current EXCEPT ![o] = {}]
  /\ UNCHANGED registry

\* disconnect() and deactivate() up to their wait: out of the map, tools out of
\* the registry.
Retire(o) ==
  /\ current' = [current EXCEPT ![o] = {}]
  /\ registry' = Without(current[o])

\* What a command does when what ran has been closed.
ServerAfter(s, r) ==
  LET was == server[s]
  IN CASE r.then = "save" -> [status |-> "disconnected", auth |-> r.auth, token |-> r.token]
       [] r.then = "delete" -> NoServer
       [] r.then = "disconnect" /\ was.status # "none" -> [was EXCEPT !.status = "disconnected"]
       [] r.then = "opening" /\ was.status # "none" -> [was EXCEPT !.status = "connecting"]
       [] OTHER -> was

PluginAfter(was, r) ==
  CASE r.then = "remove"  -> NoPlugin
    [] r.then = "disable" -> [was EXCEPT !.error = FALSE]
    [] OTHER              -> was

After(o, r, saved) ==
  /\ server' = IF o \in Server THEN [server EXCEPT ![o] = ServerAfter(o, r)] ELSE server
  /\ plugin' = IF o \in Plugin THEN [saved EXCEPT ![o] = PluginAfter(@, r)] ELSE saved
  /\ IF r.then = "delete" THEN Dropped(r.token, "") ELSE UNCHANGED secretVars

Started(r) == [r EXCEPT !.at = IF r.then \in {"opening", "importing"} THEN r.then ELSE "done"]

\* What is under way for "o" is not alone any more.
Overtaken(o) == [b \in Attempt |-> IF b \in Under(o) THEN [attempt[b] EXCEPT !.alone = FALSE] ELSE attempt[b]]

\* Every command but an install and a grant starts by closing what runs, which
\* it waits for.  "saved" is what it has written to the plugins' key by then.
Command(a, o, fields, saved) ==
  LET r == [fields EXCEPT !.of = {o}, !.alone = (Under(o) = {})]
  IN /\ Call /\ attempt[a].at = "none" /\ \A b \in Attempt : b < a => attempt[b].at # "none"
     /\ Retire(o)
     /\ IF current[o] = {} THEN attempt' = [Overtaken(o) EXCEPT ![a] = Started(r)] /\ After(o, r, saved)
        ELSE /\ attempt' = [Overtaken(o) EXCEPT ![a] = [r EXCEPT !.at = "closing"]]
             /\ plugin' = saved /\ UNCHANGED <<secretVars, server>>
     /\ UNCHANGED tokens

Closed(a) ==
  /\ attempt[a].at = "closing" /\ attempt' = [attempt EXCEPT ![a] = Started(@)]
  /\ \E o \in attempt[a].of : After(o, attempt[a], plugin)
  /\ UNCHANGED <<current, registry, calls, tokens>>

-----------------------------------------------------------------------------
(* MCP servers                                                              *)

HasRow(s) == server[s].status # "none"

\* The panel stores the bearer token of a server that it is about to add.  It
\* stores no secrets for the environment: envSecrets is always empty.
StoreToken(s, k) ==
  /\ SetSecret(k, "") /\ tokens' = [tokens EXCEPT ![s] = @ \cup {k}]
  /\ UNCHANGED <<server, plugin, current, attempt, registry, calls>>

\* mcp.upsert names the secret it is given, which must be there, or else the one
\* the row named before the wait.
SaveServer(a, s, auth, given) ==
  /\ given # {} => given \subseteq tokens[s] /\ Resolves(given)
  /\ Command(a, s, [NoTry EXCEPT !.then = "save", !.auth = auth,
                                 !.token = IF given # {} THEN given ELSE server[s].token], plugin)

DisconnectServer(a, s) == HasRow(s) /\ Command(a, s, [NoTry EXCEPT !.then = "disconnect"], plugin)

\* mcp.delete takes the secret that the row names along.
DeleteServer(a, s) ==
  HasRow(s) /\ Command(a, s, [NoTry EXCEPT !.then = "delete", !.token = server[s].token], plugin)

\* connect() of the row as it is now, by the user or at start-up.
Connect(a, s) ==
  LET r == [NoTry EXCEPT !.then = "opening", !.auth = server[s].auth, !.token = server[s].token]
  IN HasRow(s) /\ Command(a, s, r, plugin)

inConnect == <<plugin, current, registry, calls>>

\* The server is there, or asks for a sign-in: then the SDK registers a client.
Opened(a) ==
  /\ attempt[a].at = "opening" /\ (attempt[a].auth # "oauth" \/ Resolves(attempt[a].token))
  /\ attempt' = [attempt EXCEPT ![a].at = "listing"]
  /\ UNCHANGED <<inConnect, secretVars, server, tokens>>

\* save() of the OAuth state: into the secret the row named when the connect
\* began, or into a new one, which the row is then given.  A server that has
\* been deleted since makes it fail when the secret is already stored.
SaveState(a, at, k) ==
  \E s \in attempt[a].of :
    /\ IF attempt[a].token # {} /\ Resolves(attempt[a].token)
       THEN /\ k \in attempt[a].token /\ RotateSecret(k, "")
            /\ attempt' = [attempt EXCEPT ![a].at = at]
            /\ UNCHANGED <<server, tokens>>
       ELSE /\ SetSecret(k, "") /\ attempt[a].token = {}
            /\ tokens' = [tokens EXCEPT ![s] = @ \cup {k}]
            /\ IF server[s].status = "none"
               THEN attempt' = [attempt EXCEPT ![a].at = "failed"] /\ UNCHANGED server
               ELSE /\ server' = [server EXCEPT ![s].token = {k}]
                    /\ attempt' = [attempt EXCEPT ![a].at = at]
    /\ UNCHANGED inConnect

Registered(a, k) == attempt[a].at = "opening" /\ attempt[a].auth = "oauth" /\ SaveState(a, "authorizing", k)

\* The browser has come back to the loopback listener.
Redirected(a) ==
  /\ attempt[a].at = "authorizing"
  /\ attempt' = [attempt EXCEPT ![a].at = "finishing"]
  /\ UNCHANGED <<inConnect, secretVars, server, tokens>>

SignedIn(a, k) == attempt[a].at = "finishing" /\ SaveState(a, "listing", k)

\* The tools are known: they replace what was registered under their names.
\* When the row has gone meanwhile the connect fails, but stays in the map.
Connected(a, names) ==
  /\ attempt[a].at = "listing"
  /\ \E s \in attempt[a].of :
       /\ registry' = [x \in DOMAIN registry |-> IF x[1] = s /\ x[2] \in names THEN {a} ELSE registry[x]]
       /\ current' = [current EXCEPT ![s] = {a}]
       /\ attempt' = [attempt EXCEPT ![a].at = IF server[s].status = "none" THEN "failed" ELSE "done"]
       /\ server' = [server EXCEPT ![s].status = IF @ = "none" THEN "none" ELSE "connected"]
  /\ UNCHANGED <<secretVars, plugin, calls, tokens>>

\* Time-outs, a refused sign-in, a server that does not answer.
ConnectFails(a) ==
  /\ attempt[a].at \in {"opening", "authorizing", "finishing", "listing"}
  /\ attempt' = [attempt EXCEPT ![a].at = "failed"]
  /\ server' = [s \in Server |-> IF attempt[a].of = {s} /\ server[s].status # "none"
                                 THEN [server[s] EXCEPT !.status = "error"] ELSE server[s]]
  /\ UNCHANGED <<inConnect, secretVars, tokens>>

-----------------------------------------------------------------------------
(* Plugins                                                                  *)

forPlugins == <<secretVars, server, tokens>>

\* Install starts from nothing enabled and nothing granted, but what runs under
\* the id goes on.
Install(p) ==
  /\ Call
  /\ plugin' = [plugin EXCEPT ![p] = [NoPlugin EXCEPT !.installed = TRUE, !.error = plugin[p].error]]
  /\ attempt' = [a \in Attempt |-> IF a \in Under(p) \cup current[p] THEN [attempt[a] EXCEPT !.alone = FALSE]
                                  ELSE attempt[a]]
  /\ UNCHANGED <<forPlugins, current, registry>>

\* Of what is granted only what the manifest asks for; read at activation.
Grant(p, granted) ==
  /\ Call /\ plugin[p].installed /\ plugin' = [plugin EXCEPT ![p].granted = granted]
  /\ UNCHANGED <<forPlugins, attempt, current, registry>>

\* plugins.setEnabled saves before it closes or activates anything.
SetEnabled(a, p, enabled) ==
  LET saved == [plugin EXCEPT ![p].enabled = enabled]
      r == [NoTry EXCEPT !.then = IF enabled THEN "importing" ELSE "disable", !.granted = plugin[p].granted]
  IN plugin[p].installed /\ Command(a, p, r, saved)

RemovePlugin(a, p) == plugin[p].installed /\ Command(a, p, [NoTry EXCEPT !.then = "remove"], plugin)

Imported(a) ==
  /\ attempt[a].at = "importing" /\ attempt' = [attempt EXCEPT ![a].at = "activating"]
  /\ UNCHANGED <<forPlugins, plugin, current, registry, calls>>

\* activate(ctx) registers tools one by one, if it was granted that.
RegisterTool(a, n) ==
  /\ attempt[a].at = "activating" /\ attempt[a].granted
  /\ \E p \in attempt[a].of : registry[<<p, n>>] # {a} /\ registry' = [registry EXCEPT ![<<p, n>>] = {a}]
  /\ UNCHANGED <<forPlugins, plugin, current, attempt, calls>>

Activated(a) ==
  /\ attempt[a].at = "activating" /\ attempt' = [attempt EXCEPT ![a].at = "done"]
  /\ \E p \in attempt[a].of :
       current' = [current EXCEPT ![p] = {a}] /\ plugin' = [plugin EXCEPT ![p].error = FALSE]
  /\ UNCHANGED <<forPlugins, registry, calls>>

\* A manifest that does not load, a capability that was not granted, a throw:
\* what the attempt has registered is taken out again.
ActivateFails(a) ==
  /\ attempt[a].at \in {"importing", "activating"} /\ attempt' = [attempt EXCEPT ![a].at = "failed"]
  /\ registry' = Without({a})
  /\ \E p \in attempt[a].of : plugin' = [plugin EXCEPT ![p].error = TRUE]
  /\ UNCHANGED <<forPlugins, current, calls>>

-----------------------------------------------------------------------------

\* A request names one secret or none.
Given == {{}} \cup {{k} : k \in Secret}

ServerSteps(a) ==
  \/ \E s \in Server :
       \/ (\E auth \in {"bearer", "oauth"}, given \in Given : SaveServer(a, s, auth, given))
       \/ DisconnectServer(a, s) \/ DeleteServer(a, s) \/ Connect(a, s)
  \/ Opened(a) \/ Redirected(a) \/ ConnectFails(a)
  \/ (\E k \in Secret : Registered(a, k) \/ SignedIn(a, k))
  \/ (\E names \in SUBSET ToolName : Connected(a, names))

PluginSteps(a) ==
  \/ \E p \in Plugin, enabled \in BOOLEAN : SetEnabled(a, p, enabled)
  \/ \E p \in Plugin : RemovePlugin(a, p)
  \/ Imported(a) \/ Activated(a) \/ ActivateFails(a) \/ (\E n \in ToolName : RegisterTool(a, n))

ExtensionsNext ==
  \/ \E a \in Attempt : ServerSteps(a) \/ PluginSteps(a) \/ Closed(a)
  \/ \E p \in Plugin : Install(p) \/ \E granted \in BOOLEAN : Grant(p, granted)
  \/ \E s \in Server, k \in Secret : StoreToken(s, k)

ExtensionsSpec == SecretsInit /\ ExtensionsInit /\ [][ExtensionsNext]_<<secretVars, extensionVars>>

-----------------------------------------------------------------------------
(* Properties                                                               *)

\* A tool in the registry is one of a server or plugin that runs by the attempt
\* that registered it, or of an activation that is under way, and what runs is
\* wanted: the plugin is enabled, the server connected.  Nothing that was
\* closed, deleted, disabled, replaced or failed leaves a tool behind.  Excepted
\* are attempts that another command on the same server or plugin has overtaken
\* before their end, and plugins that were installed again while they ran.
ToolsHaveTheirOwner ==
  /\ \A x \in DOMAIN registry : \A a \in registry[x] :
       attempt[a].alone => a \in current[x[1]] \/ attempt[a].at = "activating"
  /\ \A o \in Owner : \A a \in current[o] : attempt[a].alone =>
       IF o \in Plugin THEN plugin[o].enabled ELSE server[o].status = "connected"
====
