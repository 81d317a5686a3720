---- MODULE Databases ----
(***************************************************************************)
(* Databases attached to a project (main/integrations-wiring.ts over       *)
(* packages/integrations/src/database): the table of integrations, one     *)
(* cached gateway with its connection pool for each, and the SQL that the  *)
(* agent may run through it.  The pool is the library pg's: ending it      *)
(* twice is an error, and queries under way are finished first.            *)
(*                                                                         *)
(* SQL is a set of statements, a statement its leading keyword, the rows   *)
(* it is about, and what is wrapped around it.                             *)
(***************************************************************************)
EXTENDS Naturals

CONSTANTS
  Link,     \* integrations
  Request,  \* uses of a database: by a tool, a test, the schema view
  MaxStamp  \* bound: writes to rows and secrets

ASSUME MaxStampAssumption == MaxStamp \in Nat

VARIABLES
  link,     \* integrations table, with the value of its secret (0: none)
  attached, \* the integration the project's settings name
  gateway,  \* the cache: the request that built the gateway, and its stamp
  pool,     \* connection pools by the request that built them
  request,
  stamp     \* updatedAt of the last write

databaseVars == <<link, attached, gateway, pool, request, stamp>>

-----------------------------------------------------------------------------
(* Classification                                                           *)

Severity == [read |-> 0, unknown |-> 1, write |-> 2, ddl |-> 3, destructive |-> 4]

\* Which rows a statement is about: all of them for want of a WHERE, those its
\* WHERE or its ON leaves, all of them in spite of it (WHERE true), or all of
\* them with the word WHERE elsewhere: in a query inside it, in a quoted name.
Where == {"none", "own", "true", "elsewhere"}

\* DROP stands for TRUNCATE and ALTER ... DROP, "SELECT f()" for the call of a
\* function that writes.
Plain == [head : {"SELECT", "SELECT f()", "INSERT", "DROP", "ALTER", "CREATE", "SET", "DO"}, where : {"none"}, in : {"nothing"}]
         \cup [head : {"UPDATE", "DELETE"}, where : Where, in : {"nothing"}]
         \cup [head : {"MERGE"}, where : {"own", "true"}, in : {"nothing"}]
Wrapper == {"EXPLAIN", "EXPLAIN ANALYZE", "EXPLAIN (ANALYZE) WITH", "WITH"}
Wrapped == [head : {"SELECT", "INSERT"}, where : {"none"}, in : Wrapper]
           \cup [head : {"DELETE"}, where : Where, in : Wrapper]
           \cup [head : {"MERGE"}, where : {"own", "true"}, in : Wrapper]
Statement == Plain \cup Wrapped

\* What the statement does to the database, at worst.
Effect(s) ==
  IF s.in = "EXPLAIN" THEN "read" ELSE
  CASE s.head \in {"SELECT", "SET"} -> "read"
    [] s.head = "INSERT" -> "write"
    [] s.head \in {"UPDATE", "DELETE", "MERGE"} -> IF s.where = "own" THEN "write" ELSE "destructive"
    [] s.head \in {"ALTER", "CREATE"} -> "ddl"
    [] s.head \in {"DROP", "SELECT f()"} -> "destructive"
    [] OTHER -> "unknown"

ByKeyword(s) ==
  CASE s.head \in {"SELECT", "SELECT f()", "SET"} -> "read"
    [] s.head \in {"INSERT", "MERGE"} -> "write"
    [] s.head \in {"UPDATE", "DELETE"} -> IF s.where = "none" THEN "destructive" ELSE "write"
    [] s.head \in {"ALTER", "CREATE"} -> "ddl"
    [] s.head = "DROP" -> "destructive"
    [] OTHER -> "unknown"

\* Fault: a data-modifying statement inside WITH is not looked for.
ClassifyOneFault(s) ==
  CASE s.in \in {"EXPLAIN", "EXPLAIN (ANALYZE) WITH", "WITH"} -> "read"
    [] s.in = "EXPLAIN ANALYZE" /\ s.head # "SELECT" -> "write"
    [] OTHER -> ByKeyword(s)

\* By the leading keyword; a WHERE anywhere will do; EXPLAIN ANALYZE of
\* anything but a SELECT is a write, and one in parentheses of a WITH that ends
\* in a SELECT a read; inside WITH the worst statement counts.
ClassifyOne(s) ==
  CASE s.in \in {"EXPLAIN", "EXPLAIN (ANALYZE) WITH"} -> "read"
    [] s.in = "EXPLAIN ANALYZE" /\ s.head # "SELECT" -> "write"
    [] OTHER -> ByKeyword(s)

Worst(kinds) == CHOOSE k \in kinds : \A other \in kinds : Severity[other] <= Severity[k]

\* A text runs all its statements.  Those are not seen that `blank` takes for
\* the inside of a literal and PostgreSQL does not (a$$ ... $$, E'\'' ... ').
Texts == [seen : {{s} : s \in Statement} \cup {{s, t} : s \in Plain, t \in Statement},
          unseen : {{}} \cup {{s} : s \in Plain}]

ClassifySql(text) == Worst({ClassifyOne(s) : s \in text.seen})

\* Its form hides from the keywords what the statement does.
Disguised(s) ==
  s.in \in {"EXPLAIN ANALYZE", "EXPLAIN (ANALYZE) WITH"} \/ s.where \in {"true", "elsewhere"} \/ s.head = "SELECT f()"

\* Kinds of statements the tools let through; destructive ones never are.
Allowed(use) ==
  CASE use = "query"   -> {"read"}
    [] use = "execute" -> {"write", "ddl", "read"}
    [] OTHER -> {}

-----------------------------------------------------------------------------
(* State                                                                    *)

NoLink    == [there |-> FALSE, stamp |-> 0, value |-> 0]
NoGateway == [by |-> {}, stamp |-> 0]
NoPool    == [open |-> FALSE, of |-> {}]
NoRequest == [at |-> "none", for |-> {}, use |-> "none", stamp |-> 0, did |-> "read", hidden |-> FALSE, alone |-> TRUE]
Uses      == {"query", "execute", "schema", "test"}

DatabaseTypeOK ==
  /\ link \in [Link -> [there : BOOLEAN, stamp : 0..MaxStamp, value : 0..MaxStamp]]
  /\ attached \subseteq Link
  /\ gateway \in [Link -> [by : SUBSET Request, stamp : 0..MaxStamp]]
  /\ pool \in [Request -> [open : BOOLEAN, of : SUBSET Link]]
  /\ \A r \in Request : request[r].at \in {"none", "closing", "running", "done", "failed", "deleting"}
  /\ stamp \in 0..MaxStamp
  \* One link is attached at most, and has its row.
  /\ \A l \in attached : attached = {l} /\ link[l].there

DatabaseInit ==
  /\ link = [l \in Link |-> NoLink] /\ attached = {} /\ gateway = [l \in Link |-> NoGateway]
  /\ pool = [r \in Request |-> NoPool] /\ request = [r \in Request |-> NoRequest] /\ stamp = 0

Tick == stamp < MaxStamp /\ stamp' = stamp + 1

-----------------------------------------------------------------------------
(* The table                                                                *)

\* integrations.upsert: a new secret replaces the old one, which is deleted.
UpsertLink(l, newValue, attach) ==
  /\ Tick /\ newValue \in {link[l].value, stamp + 1}
  /\ link' = [link EXCEPT ![l] = [there |-> TRUE, stamp |-> stamp + 1, value |-> newValue]]
  /\ attached' = IF attach THEN {l} ELSE attached
  /\ UNCHANGED <<gateway, pool, request>>

\* The secrets page changes or deletes the value; the row stays as it is.
ChangeSecret(l, newValue) ==
  /\ Tick /\ link[l].value # 0 /\ newValue \in {0, stamp + 1}
  /\ link' = [link EXCEPT ![l].value = newValue]
  /\ UNCHANGED <<attached, gateway, pool, request>>

Busy(l) == {r \in Request : request[r].for = {l} /\ request[r].at \in {"closing", "deleting"}}

\* Nobody is alone any more who waits for a pool of the link to end.
Overlap(l) ==
  [r \in Request |-> IF r \in Busy(l) THEN [request[r] EXCEPT !.alone = FALSE] ELSE request[r]]

Ended(ids) == [r \in Request |-> IF r \in ids THEN [pool[r] EXCEPT !.open = FALSE] ELSE pool[r]]

\* Out of the cache and closed; the secret and the row go when that is done.
DeleteLink(r, l) ==
  /\ request[r].at = "none" /\ link[l].there
  /\ gateway' = [gateway EXCEPT ![l] = NoGateway] /\ pool' = Ended(gateway[l].by)
  /\ request' = [Overlap(l) EXCEPT ![r] = [NoRequest EXCEPT !.at = "deleting", !.for = {l}]]
  /\ UNCHANGED <<link, attached, stamp>>

Deleted(r) ==
  /\ request[r].at = "deleting" /\ request' = [request EXCEPT ![r].at = "done"]
  /\ \E l \in request[r].for : link' = [link EXCEPT ![l] = NoLink] /\ attached' = attached \ {l}
  /\ UNCHANGED <<gateway, pool, stamp>>

-----------------------------------------------------------------------------
(* The gateway                                                              *)

\* What the statements of a text that the tools let through can do, and whether
\* a part of it is hidden from the classification.
Outcomes ==
  [use \in {"query", "execute"} |->
     {[did |-> Worst({Effect(s) : s \in text.seen \cup text.unseen}),
       hidden |-> text.unseen # {} \/ \E s \in text.seen : Disguised(s)] :
        text \in {t \in Texts : ClassifySql(t) \in Allowed(use)}}]

Settled(q, at) == [NoRequest EXCEPT !.at = at, !.alone = q.alone]

\* A statement goes to the database at once when there is a gateway.
Runs(r, q) ==
  \E l \in q.for :
    \/ /\ q.use \in {"schema", "test"}
       /\ request' = [Overlap(l) EXCEPT ![r] = [q EXCEPT !.at = "running"]]
    \/ /\ q.use \in {"query", "execute"}
       /\ \/ \E out \in Outcomes[q.use] :
               request' = [Overlap(l) EXCEPT ![r] =
                             [q EXCEPT !.at = "running", !.did = out.did, !.hidden = out.hidden]]
          \/ request' = [Overlap(l) EXCEPT ![r] = Settled(q, "failed")]

\* A gateway is built from the row as read and from the secret as it is now.
\* Without a secret that fails, and the cache keeps what it had.
Build(r, q) ==
  \E l \in q.for :
    IF link[l].value # 0
    THEN /\ pool' = [pool EXCEPT ![r] = [open |-> TRUE, of |-> {l}]]
         /\ gateway' = [gateway EXCEPT ![l] = [by |-> {r}, stamp |-> q.stamp]]
         /\ Runs(r, q)
    ELSE request' = [request EXCEPT ![r] = Settled(q, "failed")] /\ UNCHANGED <<pool, gateway>>

\* Fault: the gateway of an older row is dropped without being closed.
GatewayForFault(r, l, use) ==
  LET q == [NoRequest EXCEPT !.for = {l}, !.use = use, !.stamp = link[l].stamp, !.alone = (Busy(l) = {})]
  IN /\ request[r].at = "none" /\ link[l].there
     /\ \/ gateway[l].by # {} /\ gateway[l].stamp = link[l].stamp /\ Runs(r, q) /\ UNCHANGED <<pool, gateway>>
        \/ (gateway[l].by = {} \/ gateway[l].stamp # link[l].stamp) /\ Build(r, q)
     /\ UNCHANGED <<link, attached, stamp>>

\* gatewayFor: the cached one if the row has not been written since it was
\* read for it; else the cached one is closed, unless it is closed already.
GatewayFor(r, l, use) ==
  LET q == [NoRequest EXCEPT !.for = {l}, !.use = use, !.stamp = link[l].stamp, !.alone = (Busy(l) = {})]
      cached == gateway[l].by
  IN /\ request[r].at = "none" /\ link[l].there
     /\ \/ cached # {} /\ gateway[l].stamp = link[l].stamp /\ Runs(r, q) /\ UNCHANGED <<pool, gateway>>
        \/ /\ cached # {} /\ gateway[l].stamp # link[l].stamp /\ UNCHANGED gateway
           /\ IF \E c \in cached : pool[c].open
              THEN pool' = Ended(cached) /\ request' = [Overlap(l) EXCEPT ![r] = [q EXCEPT !.at = "closing"]]
              ELSE request' = [request EXCEPT ![r] = Settled(q, "failed")] /\ UNCHANGED pool
        \/ cached = {} /\ Build(r, q)
     /\ UNCHANGED <<link, attached, stamp>>

\* A tool of the agent and the schema view use what is attached; a test any.
UseDatabase(r, l, use) == (use = "test" \/ l \in attached) /\ GatewayFor(r, l, use)

PoolEnded(r) ==
  /\ request[r].at = "closing" /\ Build(r, request[r])
  /\ UNCHANGED <<link, attached, stamp>>

\* The answer, or the statement time-out.  A test writes its outcome into the
\* row, if there still is one, which makes the gateway one of an older row.
Answered(r) ==
  /\ request[r].at = "running" /\ request' = [request EXCEPT ![r] = Settled(@, "done")]
  /\ \E l \in request[r].for :
       IF request[r].use = "test" /\ link[l].there
       THEN Tick /\ link' = [link EXCEPT ![l].stamp = stamp + 1]
       ELSE UNCHANGED <<link, stamp>>
  /\ UNCHANGED <<attached, gateway, pool>>

DatabaseNext ==
  \/ \E l \in Link, v \in 0..MaxStamp : ChangeSecret(l, v) \/ \E attach \in BOOLEAN : UpsertLink(l, v, attach)
  \/ \E r \in Request : Deleted(r) \/ PoolEnded(r) \/ Answered(r)
  \/ \E r \in Request, l \in Link : DeleteLink(r, l) \/ \E use \in Uses : UseDatabase(r, l, use)

DatabaseSpec == DatabaseInit /\ [][DatabaseNext]_databaseVars

-----------------------------------------------------------------------------
(* Properties                                                               *)

\* An open pool is the one in the cache of its integration, where the next
\* change or deletion closes it.  Excepted are pools of requests that wait for
\* an older pool to end while another request or the deletion comes in.
PoolsAreKept ==
  \A r \in Request, l \in Link :
    pool[r].open /\ pool[r].of = {l} /\ request[r].alone => gateway[l].by = {r}

\* However statements are wrapped and combined, nothing the agent runs removes
\* a table or all rows of one, and what it runs as a query changes nothing,
\* when the classifier sees the whole text and no statement is in disguise:
\* explained with ANALYZE, a function's, or with a WHERE or ON that spares no row.
NothingIsDestroyed ==
  \A r \in Request : ~request[r].hidden =>
    request[r].did # "destructive" /\ (request[r].use = "query" => request[r].did = "read")
====
