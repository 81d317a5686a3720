---- MODULE Validation ----
(***************************************************************************)
(* The checks of a project: packages/validation (runner, validators,       *)
(* parsers, repair notes) under validation-wiring.ts.  A task's runs and   *)
(* the user's overlap, files are edited while tools read them, and a run   *)
(* can be cancelled.                                                       *)
(*                                                                         *)
(* The state of the files is the set of validators that would find an      *)
(* error in them.  A validator's tool takes its time, but what it answers  *)
(* goes only into its own report: one step stands for the moment at which  *)
(* it reads the files.                                                     *)
(***************************************************************************)
EXTENDS Naturals, Sequences

CONSTANTS
  Check,      \* runs
  Applicable, \* validators whose tool and configuration are there
  MaxEditions \* bound: edits of the files

ASSUME ApplicableAssumption == Applicable \subseteq {"syntax", "typecheck", "lint", "tests", "build"}
ASSUME MaxEditionsAssumption == MaxEditions \in Nat

VARIABLES
  faulty,   \* validators that would find an error now
  editions,
  check,    \* runValidation under way or finished
  running,  \* wiring: the user's run that is under way
  latest,   \* wiring: the user's run whose report is shown
  indexed   \* the run whose diagnostics retrieval uses

validationVars == <<faulty, editions, check, running, latest, indexed>>

Order == <<"syntax", "typecheck", "lint", "tests", "build">>
Validator == {Order[i] : i \in 1..5}
Tier == [syntax |-> 0, typecheck |-> 1, lint |-> 1, tests |-> 2, build |-> 3]
NoFailedTier == 4

NoCheck == [at |-> "none", by |-> "task", maxTier |-> 0, next |-> 1, status |-> [v \in Validator |-> "none"],
            failedTier |-> NoFailedTier, aborted |-> FALSE,
            quiet |-> TRUE, \* history: the files were not edited during the run
            sure |-> TRUE]  \* history: every tool was read to its end

ValidationTypeOK ==
  /\ faulty \subseteq Validator /\ editions \in 0..MaxEditions
  /\ \A r \in Check :
       /\ check[r].at \in {"none", "running", "done"} /\ check[r].next \in 1..6
       /\ \A i \in 1..5 : check[r].status[Order[i]] = "none" <=> i >= check[r].next
  \* The user's runs take turns, and the report shown is one of his.
  /\ running = {r \in Check : check[r].at = "running" /\ check[r].by = "user"}
  /\ \A r, s \in running : r = s
  /\ \A r \in latest : check[r].at = "done" /\ check[r].by = "user"

ValidationInit ==
  /\ faulty \in {{}, {"typecheck", "lint"}} /\ editions = 0
  /\ check = [r \in Check |-> NoCheck] /\ running = {} /\ latest = {} /\ indexed = {}

-----------------------------------------------------------------------------
(* Validators                                                               *)

Answer(status, sure) == [status |-> status, sure |-> sure]

\* The errors in a tool's output are read, or they are beyond the limits on
\* output and diagnostics, or of no form the parsers know.
Diagnosed(v) == IF v \in faulty THEN BOOLEAN ELSE {FALSE}

\* The syntax check has no tool to lose, but without the project's compiler it
\* only balances brackets, and comments in JSON are errors to it.
SyntaxAnswers ==
  IF "syntax" \in faulty THEN {Answer("failed", TRUE), Answer("passed", FALSE)}
  ELSE {Answer("passed", TRUE), Answer("failed", FALSE)}

\* Lint fails on errors that are read; its exit code 1 alone does not count.
LintAnswers ==
  {IF read THEN Answer("failed", TRUE) ELSE Answer("passed", "lint" \notin faulty) : read \in Diagnosed("lint")}
  \cup {Answer("error", FALSE)}

\* Fault: an exit code that no line explains counts as a pass.
ToolAnswersFault(v) ==
  {IF read THEN Answer("failed", TRUE) ELSE Answer("passed", TRUE) : read \in Diagnosed(v)} \cup {Answer("error", FALSE)}

\* The others fail on the errors that are read.  Without any, an exit code, the
\* time-out or a spawn that fails is an error, which does not block.
ToolAnswers(v) ==
  {IF read THEN Answer("failed", TRUE) ELSE Answer("error", FALSE) : read \in Diagnosed(v)}
  \cup (IF v \in faulty THEN {} ELSE {Answer("passed", TRUE)})

Answers(v) ==
  CASE v = "syntax" -> SyntaxAnswers
    [] v = "lint"   -> LintAnswers
    [] OTHER        -> ToolAnswers(v)

\* runCommand: a cancelled run kills its tool and waits for its end.
StoppedTool(v, a) == IF v = "syntax" THEN a ELSE Answer("error", FALSE)

-----------------------------------------------------------------------------
(* Runs                                                                     *)

\* The task runner's, or the user's unless one of his is under way.
StartCheck(r, by, maxTier) ==
  /\ check[r].at = "none" /\ (by = "user" => running = {})
  /\ check' = [check EXCEPT ![r] = [NoCheck EXCEPT !.at = "running", !.by = by, !.maxTier = maxTier]]
  /\ running' = IF by = "user" THEN {r} ELSE running
  /\ UNCHANGED <<faulty, editions, latest, indexed>>

\* Why a validator is passed over: too expensive for the task, after a cheaper
\* one that failed, after a cancellation, or not for this project.
Skips(c, v) == Tier[v] > c.maxTier \/ Tier[v] > c.failedTier \/ c.aborted \/ v \notin Applicable

\* The run with a result, and with those passed over before the next validator.
Pushed(c, status) ==
  LET later == {i \in 1..5 : i > c.next /\ ~Skips(c, Order[i])} \cup {6}
      next  == CHOOSE i \in later : \A j \in later : i <= j
  IN [c EXCEPT !.next = next,
        !.status = [v \in Validator |-> CASE v = Order[c.next] -> status
                                          [] \E i \in c.next + 1..next - 1 : v = Order[i] -> "skipped"
                                          [] OTHER -> c.status[v]]]

RunValidator(r) ==
  LET v == Order[check[r].next] IN
  /\ check[r].at = "running" /\ check[r].next <= 5
  /\ IF Skips(check[r], v) THEN check' = [check EXCEPT ![r] = Pushed(@, "skipped")]
     ELSE \E a \in Answers(v), killed \in BOOLEAN :
       LET b == IF killed THEN StoppedTool(v, a) ELSE a
           c == [check[r] EXCEPT !.failedTier = IF b.status = "failed" THEN Tier[v] ELSE @,
                                 !.aborted = killed, !.sure = @ /\ b.sure]
       IN check' = [check EXCEPT ![r] = Pushed(c, b.status)]
  /\ UNCHANGED <<faulty, editions, running, latest, indexed>>

\* The report: its diagnostics replace those of the run before, and the user's
\* is the one to show.
FinishCheck(r) ==
  /\ check[r].at = "running" /\ check[r].next = 6 /\ check' = [check EXCEPT ![r] = [NoCheck EXCEPT !.at = "done", !.by = check[r].by]]
  /\ indexed' = {r} /\ running' = running \ {r}
  /\ latest' = IF check[r].by = "user" THEN {r} ELSE latest
  /\ UNCHANGED <<faulty, editions>>

EditFiles(v) ==
  /\ editions < MaxEditions /\ editions' = editions + 1
  /\ faulty' = IF v \in faulty THEN faulty \ {v} ELSE faulty \cup {v}
  /\ check' = [r \in Check |-> IF check[r].at = "running" THEN [check[r] EXCEPT !.quiet = FALSE] ELSE check[r]]
  /\ UNCHANGED <<running, latest, indexed>>

ValidationNext ==
  \/ \E r \in Check, by \in {"task", "user"}, tier \in 1..3 : StartCheck(r, by, tier)
  \/ \E r \in Check : RunValidator(r) \/ FinishCheck(r)
  \/ \E v \in Validator : EditFiles(v)

ValidationSpec == ValidationInit /\ [][ValidationNext]_validationVars

-----------------------------------------------------------------------------
(* Properties                                                               *)

Ok(r) == \A v \in Validator : check[r].status[v] # "failed"

\* Unless the files were edited meanwhile, the run was cancelled or a tool was
\* not read to its end, the report of a run says that all is well exactly when
\* no validator that applies, up to the tier asked for, would find an error;
\* and every validator of the failing tier and of the cheaper ones has spoken.
VerdictIsEarned ==
  \A r \in Check : LET c == check[r] IN
    /\ c.at = "running" /\ c.quiet /\ c.sure /\ ~c.aborted /\ c.next = 6 =>
         (Ok(r) <=> \A v \in faulty \cap Applicable : Tier[v] > c.maxTier)
    /\ c.next = 6 /\ ~c.aborted =>
         \A v \in Applicable : (Tier[v] <= c.maxTier /\ Tier[v] <= c.failedTier) => c.status[v] # "skipped"
====
