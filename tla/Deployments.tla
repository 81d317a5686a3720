---- MODULE Deployments ----
(***************************************************************************)
(* Deployments (main/deployment-wiring.ts, the adapters and the readiness  *)
(* list of packages/integrations/src/deployment, and their two tables).    *)
(*                                                                         *)
(* An edit of a target only waits for the secrets service and gives way to *)
(* nobody, but the process may be killed in it.  A start waits for git     *)
(* while it checks the project; from there an adapter works in phases, each *)
(* of which waits for the provider, a build or a timer.                    *)
(***************************************************************************)
EXTENDS Secrets, Sequences

CONSTANTS
  Target, EnvName,
  Required,    \* names the template says must have a value
  Run,         \* deployments
  MaxPolls,    \* bound: polls of the provider's state (300 or 120 in the code)
  MaxEdits,    \* bound: edits of targets
  MaxStops     \* bound: cancels and ends of the process

VARIABLES
  project,   \* what the project is like: static, has a build script, docker found
  target,    \* deployment_targets table
  deployRow, \* deployments table: status of a run, "none" for no row
  run,       \* start() of a deployment and its record in the live map
  provider,  \* what the provider has of a run
  edits, stops,
  \* History.
  gone       \* secrets that were deleted from the settings, or by an edit that was cut short

deployVars == <<project, target, deployRow, run, provider, edits, stops, gone>>

Adapter  == {"vercel", "netlify", "cloudflare", "docker"}
\* What is found out about a project.
Projects == [static : BOOLEAN, build : BOOLEAN, docker : BOOLEAN]
NoTarget == [adapter |-> "none", config |-> TRUE, secret |-> {}, env |-> [n \in EnvName |-> {}]]
NoRun    == [at |-> "none", on |-> {}, adapter |-> "none", todo |-> <<>>, polls |-> 0, ready |-> FALSE,
             aborted |-> FALSE]

TargetExists(t)  == target[t].adapter # "none"
LiveRuns       == {d \in Run : run[d].at = "live"}
SecretsOf(t) == target[t].secret \cup UNION {target[t].env[n] : n \in EnvName}

DeployTypeOK ==
  /\ project \in Projects
  /\ target \in [Target -> [adapter : Adapter \cup {"none"}, config : BOOLEAN, secret : SUBSET Secret,
                            env : [EnvName -> SUBSET Secret]]]
  /\ deployRow \in [Run -> {"none", "running", "succeeded", "failed", "cancelled"}]
  /\ provider \in [Run -> {"none", "uploading", "building", "ready", "error"}]
  /\ \A d \in Run : run[d].at \in {"none", "readying", "live", "finished", "over"}

\* A target may be left from an earlier session, with what is in the vault; a
\* secret was stored for one of them.
SetUp == {NoTarget} \cup
  {[adapter |-> a, config |-> TRUE, secret |-> issued, env |-> [n \in EnvName |-> {}]] : a \in Adapter}

DeployInit ==
  /\ project \in Projects /\ target \in [Target -> SetUp]
  /\ \A t, u \in Target : t = u \/ SecretsOf(t) \cap SecretsOf(u) = {}
  /\ deployRow = [d \in Run |-> "none"] /\ run = [d \in Run |-> NoRun]
  /\ provider = [d \in Run |-> "none"] /\ edits = 0 /\ stops = 0 /\ gone = {}

-----------------------------------------------------------------------------
(* The process                                                              *)

\* What was under way is forgotten.  Nothing looks for rows left "running".
Killed == run' = [d \in Run |-> IF run[d].at = "none" THEN run[d] ELSE [NoRun EXCEPT !.at = "over"]]

Survives(cut) ==
  IF cut = "" THEN UNCHANGED <<run, stops>> ELSE stops < MaxStops /\ stops' = stops + 1 /\ Killed

\* close() aborts what is live; whether it gets to its end is open.
EndProcess ==
  /\ stops < MaxStops /\ stops' = stops + 1
  /\ LiveRuns # {} /\ Killed
  /\ UNCHANGED <<secretVars, project, target, deployRow, provider, edits, gone>>

-----------------------------------------------------------------------------
(* Targets and their secrets                                                *)

untouched == <<project, deployRow, provider>>

\* The panel stores a value for one name of one target before it names it.
Fresh == {{s} : s \in Secret \ UNION {SecretsOf(t) : t \in Target}}

StoreValue(s, cut) ==
  /\ SetSecret(s, cut) /\ Survives(cut)
  /\ UNCHANGED <<untouched, target, edits, gone>>

RotateValue(s, cut) ==
  /\ edits < MaxEdits /\ edits' = edits + 1
  /\ RotateSecret(s, cut) /\ Survives(cut)
  /\ UNCHANGED <<untouched, target, gone>>

\* secrets.delete of the settings screen, whoever uses the secret.
DeleteValue(s, cut) ==
  /\ edits < MaxEdits /\ edits' = edits + 1
  /\ ref[s] # 0 /\ Dropped({s}, cut) /\ Survives(cut) /\ gone' = gone \cup {s}
  /\ UNCHANGED <<untouched, target>>

\* The edit of target t to "next", behind the deletion of the secrets "old".
EditTarget(t, old, next, cut) ==
  /\ edits < MaxEdits /\ edits' = edits + 1
  /\ Dropped(old, cut) /\ Survives(cut)
  /\ target' = IF cut = "" THEN [target EXCEPT ![t] = next] ELSE target
  /\ gone' = IF cut = "" THEN gone ELSE gone \cup old

\* With a new credential the old one is deleted; without, it stays.
UpsertTarget(t, a, config, ids, cut) ==
  LET was == target[t]
  IN /\ ids # {} => Resolves(ids)
     /\ EditTarget(t, IF ids = {} THEN {} ELSE was.secret \ ids,
             [was EXCEPT !.adapter = a, !.config = config, !.secret = IF ids = {} THEN @ ELSE ids], cut)
     /\ UNCHANGED untouched

\* Fault: the value that is replaced is deleted even when it is the new one.
SetEnvFault(t, n, ids, cut) ==
  /\ TargetExists(t) /\ (ids # {} => Resolves(ids))
  /\ EditTarget(t, target[t].env[n], [target[t] EXCEPT !.env[n] = ids], cut)
  /\ UNCHANGED untouched

SetEnv(t, n, ids, cut) ==
  /\ TargetExists(t) /\ (ids # {} => Resolves(ids))
  /\ EditTarget(t, target[t].env[n] \ ids, [target[t] EXCEPT !.env[n] = ids], cut)
  /\ UNCHANGED untouched

\* Its deployments' rows go with it; what is live goes on without a row.
DeleteTarget(t, cut) ==
  /\ TargetExists(t) /\ EditTarget(t, SecretsOf(t), NoTarget, cut)
  /\ deployRow' = IF cut = "" THEN [d \in Run |-> IF t \in run[d].on THEN "none" ELSE deployRow[d]]
                  ELSE deployRow
  /\ UNCHANGED <<project, provider>>

-----------------------------------------------------------------------------
(* start()                                                                  *)

Prebuilt == {"netlify", "cloudflare"}

\* What an adapter itself asks for.
AdapterReady(a) == (a \in Prebuilt => project.static) /\ (a = "docker" => project.docker)

\* envRequirements(): a value for every name the template requires.
EnvReady(t) == \A n \in Required : Resolves(target[t].env[n])

\* No item of the readiness list fails: build script, credential, settings,
\* required environment, and those of the adapter.
ReadinessOK(t) ==
  LET g == target[t]
  IN /\ project.build \/ (g.adapter \notin Prebuilt /\ project.static)
     /\ g.adapter # "docker" => Resolves(g.secret)
     /\ g.config /\ EnvReady(t) /\ AdapterReady(g.adapter)

\* Netlify is told of a deployment before it gets the files, the others after.
VercelPhases(env)     == env \o <<"upload", "create", "poll">>
NetlifyPhases(env)    == <<"build", "site">> \o env \o <<"create", "upload", "poll">>
CloudflarePhases(env) == <<"build", "site">> \o env \o <<"upload", "create", "poll">>
DockerPhases          == <<"dockerfile", "image">>

Phases(t) ==
  LET env == IF \E n \in EnvName : Resolves(target[t].env[n]) THEN <<"env">> ELSE <<>>
  IN CASE target[t].adapter = "vercel"     -> VercelPhases(env)
       [] target[t].adapter = "netlify"    -> NetlifyPhases(env)
       [] target[t].adapter = "cloudflare" -> CloudflarePhases(env)
       [] OTHER                            -> DockerPhases

\* The test for a running deployment, and the list up to git's answer.
Readying(d, t) ==
  /\ run[d].at = "none" /\ TargetExists(t)
  /\ LiveRuns = {}
  /\ run' = [run EXCEPT ![d] = [NoRun EXCEPT !.at = "readying", !.on = {t}, !.adapter = target[t].adapter,
                                             !.todo = Phases(t), !.ready = ReadinessOK(t)]]
  /\ UNCHANGED <<secretVars, project, target, deployRow, provider, edits, stops, gone>>

\* Git has answered.  The insert fails when the target is no more.
Entered(d) ==
  /\ run[d].at = "readying"
  /\ IF run[d].ready /\ \E t \in run[d].on : TargetExists(t)
     THEN run' = [run EXCEPT ![d].at = "live"] /\ deployRow' = [deployRow EXCEPT ![d] = "running"]
     ELSE run' = [run EXCEPT ![d].at = "over"] /\ UNCHANGED deployRow
  /\ UNCHANGED <<secretVars, project, target, provider, edits, stops, gone>>

-----------------------------------------------------------------------------
(* An adapter at work                                                       *)

aside == <<secretVars, project, target, edits, stops, gone>>

\* finish(), in the turn in which the adapter has come to its end.
FinishRun(d, status) ==
  /\ run' = [run EXCEPT ![d].at = "finished", ![d].todo = <<>>]
  /\ deployRow' = [deployRow EXCEPT ![d] = IF @ = "none" THEN "none"
                                           ELSE IF run[d].aborted THEN "cancelled" ELSE status]

AtPhase(d, phase) == run[d].at = "live" /\ run[d].todo # <<>> /\ Head(run[d].todo) = phase
Advance(d)     == run' = [run EXCEPT ![d].todo = Tail(@)] /\ UNCHANGED deployRow

\* A request fails, or is aborted; a build or docker fails, or is killed.
PhaseFails(d) ==
  /\ \E phase \in {"env", "site", "upload", "create", "poll", "build", "image"} : AtPhase(d, phase)
  /\ FinishRun(d, "failed") /\ UNCHANGED <<aside, provider>>

\* After an abort no request succeeds.
PhaseDone(d) ==
  /\ \/ AtPhase(d, "dockerfile") \/ AtPhase(d, "build")
     \/ ~run[d].aborted /\ \E phase \in {"env", "site"} : AtPhase(d, phase)
  /\ Advance(d) /\ UNCHANGED <<aside, provider>>

Upload(d) ==
  /\ AtPhase(d, "upload") /\ ~run[d].aborted
  /\ provider' = [provider EXCEPT ![d] = IF @ = "uploading" THEN "building" ELSE @]
  /\ Advance(d) /\ UNCHANGED aside

\* docker's exit may cross the abort.
ImageBuilt(d) == AtPhase(d, "image") /\ FinishRun(d, "succeeded") /\ UNCHANGED <<aside, provider>>

CreateDeployment(d) ==
  /\ AtPhase(d, "create") /\ ~run[d].aborted
  /\ provider' = [provider EXCEPT ![d] = IF run[d].adapter = "netlify" THEN "uploading" ELSE "building"]
  /\ Advance(d) /\ UNCHANGED aside

\* The loop ends on a final state or at the bound; only "ready" is success.
PollProvider(d) ==
  /\ AtPhase(d, "poll") /\ ~run[d].aborted
  /\ CASE provider[d] = "ready" -> FinishRun(d, "succeeded")
       [] provider[d] = "building" /\ run[d].polls < MaxPolls ->
            run' = [run EXCEPT ![d].polls = @ + 1] /\ UNCHANGED deployRow
       [] OTHER -> FinishRun(d, "failed")
  /\ UNCHANGED <<aside, provider>>

\* The provider goes on by itself, whatever becomes of the run.
ProviderEnds(d, state) ==
  /\ provider[d] = "building" /\ state \in {"ready", "error"}
  /\ provider' = [provider EXCEPT ![d] = state]
  /\ UNCHANGED <<aside, run, deployRow>>

CancelRun(d) ==
  /\ d \in LiveRuns /\ ~run[d].aborted /\ stops < MaxStops /\ stops' = stops + 1
  /\ run' = [run EXCEPT ![d].aborted = TRUE]
  /\ UNCHANGED <<secretVars, project, target, edits, gone, deployRow, provider>>

\* Ten minutes after its end a run leaves the live map.
ForgetRun(d) ==
  /\ run[d].at = "finished" /\ run' = [run EXCEPT ![d].at = "over"]
  /\ UNCHANGED <<aside, deployRow, provider>>

EditSteps ==
  \E cut \in Cut :
    \/ \E s \in Secret : StoreValue(s, cut) \/ RotateValue(s, cut) \/ DeleteValue(s, cut)
    \/ \E t \in Target :
         \/ DeleteTarget(t, cut)
         \/ \E ids \in {{}, target[t].secret} \cup Fresh, a \in Adapter, config \in BOOLEAN :
              UpsertTarget(t, a, config, ids, cut)
         \/ \E n \in EnvName : \E ids \in {{}, target[t].env[n]} \cup Fresh : SetEnv(t, n, ids, cut)

RunSteps(d) ==
  \/ (\E t \in Target : Readying(d, t)) \/ Entered(d)
  \/ PhaseDone(d) \/ Upload(d) \/ PhaseFails(d) \/ ImageBuilt(d) \/ CreateDeployment(d) \/ PollProvider(d)
  \/ (\E state \in {"ready", "error"} : ProviderEnds(d, state)) \/ CancelRun(d) \/ ForgetRun(d)

DeployNext == EditSteps \/ EndProcess \/ \E d \in Run : RunSteps(d)

DeploySpec == SecretsInit /\ DeployInit /\ [][DeployNext]_<<secretVars, deployVars>>

-----------------------------------------------------------------------------
(* Properties                                                               *)

\* A secret a target names can be resolved, unless the user has deleted it, or
\* the process was killed while an edit replaced it: what one edit deletes is
\* never what this or another target still names.
TargetsHaveTheirSecrets ==
  \A t \in Target : \A s \in SecretsOf(t) : Resolves({s}) \/ s \in gone
====
