---- MODULE Providers ----
(***************************************************************************)
(* The providers of models (packages/ai-providers): their settings, what   *)
(* is known of a connection, the choice of a model and the calls.          *)
(*                                                                         *)
(* A connection of a provider is a number, new for each change of its key  *)
(* or its base URL; a model is its provider, listed under a connection or  *)
(* from the catalog.                                                       *)
(***************************************************************************)
EXTENDS Naturals

CONSTANTS
  Provider,
  Probe,          \* calls of providers.validate
  Chat,           \* model calls
  MaxConnections, \* bound: changes of settings
  MaxStarts       \* bound: new processes

\* PROVIDER_DEFINITIONS: who serves local models, and who is not ready without a key.
OnDevice == {"ollama"}
NeedsKey == {"openai", "anthropic", "google", "xai"}

ASSUME ProviderAssumption == /\ Provider \subseteq OnDevice \cup NeedsKey \cup {"openai-compatible"}
                             /\ MaxConnections \in Nat /\ MaxStarts \in Nat

VARIABLES
  config,      \* settings: ProviderConfig
  routing,     \* settings: policy and overrides
  discovered,  \* ProviderRegistry.discovered: the connection listed, 0 for none
  verdict,     \* ProviderRegistry.lastValidation
  probe,
  chat,
  connections, \* changes so far
  starts,
  overtaken    \* history: providers reconfigured while they were contacted

providerVars == <<config, routing, discovered, verdict, probe, chat, connections, starts, overtaken>>
settings == <<config, routing, connections, starts>>

NoConfig  == [enabled |-> FALSE, key |-> FALSE, connection |-> 0, listed |-> 0]
NoVerdict == [of |-> 0, ok |-> FALSE, is |-> FALSE]
NoProbe   == [at |-> "none", p |-> {}, connection |-> 0]
NoChat    == [at |-> "none", p |-> {}, spent |-> FALSE, recorded |-> FALSE]

ProvidersTypeOK ==
  /\ connections \in 0..MaxConnections /\ starts \in 0..MaxStarts /\ overtaken \subseteq Provider
  /\ \A p \in Provider : /\ config[p].connection \in 0..connections /\ config[p].listed \in 0..connections
                         /\ discovered[p] \in 0..connections /\ verdict[p].of \in 0..connections
  /\ routing \in [localOnly : BOOLEAN, override : {{}} \cup {{p} : p \in Provider}]
  /\ \A r \in Probe : probe[r].at \in {"none", "validating", "listing", "done"}
  /\ \A c \in Chat : chat[c].at \in {"none", "routed", "open", "ended"}

ProvidersInit ==
  /\ config = [p \in Provider |-> NoConfig] /\ routing = [localOnly |-> FALSE, override |-> {}]
  /\ discovered = [p \in Provider |-> 0] /\ verdict = [p \in Provider |-> NoVerdict]
  /\ probe = [r \in Probe |-> NoProbe] /\ chat = [c \in Chat |-> NoChat]
  /\ connections = 0 /\ starts = 0 /\ overtaken = {}

Change == connections < MaxConnections /\ connections' = connections + 1

-----------------------------------------------------------------------------
(* Settings                                                                 *)

\* status().ready
Ready(p) == config[p].enabled /\ (p \in NeedsKey => config[p].key)

Contacted(p) == \E r \in Probe : probe[r].p = {p} /\ probe[r].at \in {"validating", "listing"}

\* A switch leaves the connection and what is known of it.
Enable(p) ==
  /\ Change /\ config' = [config EXCEPT ![p].enabled = ~@]
  /\ UNCHANGED <<routing, discovered, verdict, probe, chat, starts, overtaken>>

\* Fault: the models of the connection before stay in the registry's cache.
ForgetConnectionFault(p) == UNCHANGED discovered /\ verdict' = [verdict EXCEPT ![p] = NoVerdict]

ForgetConnection(p) == discovered' = [discovered EXCEPT ![p] = 0] /\ verdict' = [verdict EXCEPT ![p] = NoVerdict]

\* configure() with a credential or a base URL.
ConnectTo(p, key) ==
  /\ Change /\ ForgetConnection(p)
  /\ config' = [config EXCEPT ![p] = [@ EXCEPT !.enabled = TRUE, !.key = key,
                                               !.connection = connections + 1, !.listed = 0]]
  /\ overtaken' = IF Contacted(p) THEN overtaken \cup {p} ELSE overtaken
  /\ UNCHANGED <<routing, probe, chat, starts>>

\* updateSettings(): the providers are kept as they are.
SetRouting(localOnly, override) ==
  /\ Change /\ routing' = [localOnly |-> localOnly, override |-> override]
  /\ UNCHANGED <<config, discovered, verdict, probe, chat, starts, overtaken>>

-----------------------------------------------------------------------------
(* What is known of a connection                                            *)

\* The settings are read before the provider is contacted; without the key it
\* needs it is not.
StartProbe(r, p) ==
  /\ probe[r].at = "none"
  /\ IF p \in NeedsKey /\ ~config[p].key
     THEN /\ probe' = [probe EXCEPT ![r].at = "done"]
          /\ verdict' = [verdict EXCEPT ![p] = [of |-> config[p].connection, ok |-> FALSE, is |-> TRUE]]
     ELSE /\ probe' = [probe EXCEPT ![r] = [at |-> "validating", p |-> {p}, connection |-> config[p].connection]]
          /\ UNCHANGED verdict
  /\ UNCHANGED <<settings, discovered, chat, overtaken>>

\* validate: a refusal, an error or the cancellation is an outcome too.
Validated(r, ok) ==
  /\ probe[r].at = "validating"
  /\ probe' = [probe EXCEPT ![r].at = IF ok THEN "listing" ELSE "done"]
  /\ verdict' = [p \in Provider |-> IF p \in probe[r].p THEN [of |-> probe[r].connection, ok |-> ok, is |-> TRUE]
                                    ELSE verdict[p]]
  /\ UNCHANGED <<settings, discovered, chat, overtaken>>

\* The settings are read anew.
PersistDiscovered(r) ==
  config' = [p \in Provider |-> IF p \in probe[r].p THEN [config[p] EXCEPT !.listed = probe[r].connection] ELSE config[p]]

\* listModels, with the catalog's.
Listed(r) ==
  /\ probe[r].at = "listing" /\ probe' = [probe EXCEPT ![r].at = "done"]
  /\ \/ /\ discovered' = [p \in Provider |-> IF p \in probe[r].p THEN probe[r].connection ELSE discovered[p]]
        /\ PersistDiscovered(r)
     \/ UNCHANGED <<discovered, config>>
  /\ UNCHANGED <<routing, connections, starts, verdict, chat, overtaken>>

-----------------------------------------------------------------------------
(* Calls                                                                    *)

\* Candidates are the models of the providers that are ready.  What the user
\* chose goes before the policy; among the eligible the score decides.
Eligible ==
  LET ready == {p \in Provider : Ready(p)} IN
  IF routing.override \cap ready # {} THEN routing.override
  ELSE {p \in ready : routing.localOnly => p \in OnDevice}

Route(c, p) ==
  /\ chat[c].at = "none" /\ p \in Eligible
  /\ chat' = [chat EXCEPT ![c] = [NoChat EXCEPT !.at = "routed", !.p = {p}]]
  /\ UNCHANGED <<settings, discovered, verdict, probe, overtaken>>

\* chat(): refused unless the provider is still ready.
OpenChat(c) ==
  /\ chat[c].at = "routed"
  /\ chat' = [chat EXCEPT ![c].at = IF \A p \in chat[c].p : Ready(p) THEN "open" ELSE "ended"]
  /\ UNCHANGED <<settings, discovered, verdict, probe, overtaken>>

\* streamChat: text, reasoning and tool calls of the model.
Stream(c) ==
  /\ chat[c].at = "open" /\ ~chat[c].spent /\ chat' = [chat EXCEPT ![c].spent = TRUE]
  /\ UNCHANGED <<settings, discovered, verdict, probe, overtaken>>

\* The call is recorded with its cost when the finish part comes.
FinishChat(c) ==
  /\ chat[c].at = "open" /\ chat' = [chat EXCEPT ![c].at = "ended", ![c].spent = TRUE, ![c].recorded = TRUE]
  /\ UNCHANGED <<settings, discovered, verdict, probe, overtaken>>

\* The stream breaks off, or the caller stops reading it.
AbortChat(c) ==
  /\ chat[c].at = "open" /\ chat' = [chat EXCEPT ![c].at = "ended"]
  /\ UNCHANGED <<settings, discovered, verdict, probe, overtaken>>

\* A new process: the settings and the usage records are kept.
NewProcess ==
  /\ starts < MaxStarts /\ starts' = starts + 1
  /\ discovered' = [p \in Provider |-> 0] /\ verdict' = [p \in Provider |-> NoVerdict]
  /\ probe' = [r \in Probe |-> IF probe[r].at = "none" THEN NoProbe ELSE [NoProbe EXCEPT !.at = "done"]]
  /\ chat' = [c \in Chat |-> IF chat[c].at = "none" THEN NoChat ELSE [chat[c] EXCEPT !.at = "ended"]]
  /\ UNCHANGED <<config, routing, connections, overtaken>>

ProvidersNext ==
  \/ \E p \in Provider : Enable(p) \/ (\E key \in BOOLEAN : ConnectTo(p, key))
  \/ \E localOnly \in BOOLEAN, o \in {{}} \cup {{p} : p \in Provider} : SetRouting(localOnly, o)
  \/ \E r \in Probe : (\E p \in Provider : StartProbe(r, p)) \/ (\E ok \in BOOLEAN : Validated(r, ok)) \/ Listed(r)
  \/ \E c \in Chat : (\E p \in Provider : Route(c, p)) \/ OpenChat(c) \/ Stream(c) \/ FinishChat(c) \/ AbortChat(c)
  \/ NewProcess

ProvidersSpec == ProvidersInit /\ [][ProvidersNext]_providerVars

-----------------------------------------------------------------------------
(* Properties                                                               *)

\* models(): the registry's list, else the settings'.
ListedUnder(p) == IF discovered[p] # 0 THEN discovered[p] ELSE config[p].listed

\* The outcome shown for a provider and the models offered and priced for it
\* are those of the key and URL it is used with, or of none.  Excepted are
\* providers reconfigured while they were being contacted.
WhatIsKnownIsCurrent ==
  \A p \in Provider \ overtaken :
    /\ verdict[p].is => verdict[p].of = config[p].connection
    /\ ListedUnder(p) \in {0, config[p].connection}
====
