---- MODULE ServicesProofs ----
(***************************************************************************)
(* Proofs about what the main process keeps beside the tasks, for any      *)
(* links, targets, servers, plugins, providers, projects and bounds: the   *)
(* inductive invariants of ServicesInvariant, and with them what           *)
(* Databases, Deployments, Extensions, Providers, Projects and Upgrade     *)
(* promise, each by itself and all of them side by side.                   *)
(***************************************************************************)
EXTENDS ServicesInvariant, FiniteSetTheorems, TLAPS

-----------------------------------------------------------------------------
(* Databases: what the tools let through                                    *)

\* The worst of some kinds of statement is one of them.
LEMMA WorstIsOne ==
  ASSUME NEW kinds \in SUBSET DOMAIN Severity, kinds # {}
  PROVE  Worst(kinds) \in kinds
  <1>1. DOMAIN Severity = {"read", "unknown", "write", "ddl", "destructive"}
    BY DEF Severity
  <1>2. /\ Severity["read"] = 0 /\ Severity["unknown"] = 1 /\ Severity["write"] = 2
        /\ Severity["ddl"] = 3 /\ Severity["destructive"] = 4
    BY DEF Severity
  <1>3. SUFFICES \E k \in kinds : \A other \in kinds : Severity[other] <= Severity[k]
    BY DEF Worst
  <1>4. CASE "destructive" \in kinds
    BY <1>1, <1>2, <1>4
  <1>5. CASE "destructive" \notin kinds /\ "ddl" \in kinds
    BY <1>1, <1>2, <1>5
  <1>6. CASE "destructive" \notin kinds /\ "ddl" \notin kinds /\ "write" \in kinds
    BY <1>1, <1>2, <1>6
  <1>7. CASE "destructive" \notin kinds /\ "ddl" \notin kinds /\ "write" \notin kinds /\ "unknown" \in kinds
    BY <1>1, <1>2, <1>7
  <1>8. CASE kinds \subseteq {"read"}
    BY <1>2, <1>8
  <1> QED BY <1>1, <1>4, <1>5, <1>6, <1>7, <1>8

LEMMA KindsOfEffect ==
  ASSUME NEW s \in Statement
  PROVE  Effect(s) \in DOMAIN Severity
  BY DEF Effect, Severity

\* Without a disguise a statement does what it is classified as.
LEMMA ClassifiedAsItIs ==
  ASSUME NEW s \in Statement, ~Disguised(s)
  PROVE  ClassifyOne(s) = Effect(s)
  <1>1. s.where \in {"none", "own"}
    BY DEF Statement, Plain, Wrapped, Where, Disguised
  <1>2. /\ s.in \in {"nothing", "EXPLAIN", "WITH"}
        /\ s.head \in {"SELECT", "INSERT", "DROP", "ALTER", "CREATE", "SET", "DO", "UPDATE", "DELETE", "MERGE"}
        /\ s.head = "MERGE" => s.where = "own"
    BY <1>1 DEF Statement, Plain, Wrapped, Wrapper, Disguised
  <1>3. CASE s.in = "EXPLAIN"
    BY <1>3 DEF ClassifyOne, Effect
  <1>4. CASE s.in # "EXPLAIN"
    <2>1. ClassifyOne(s) = ByKeyword(s)
      BY <1>2, <1>4 DEF ClassifyOne
    <2>2. CASE s.head \in {"UPDATE", "DELETE", "MERGE"}
      <3>1. Effect(s) = IF s.where = "own" THEN "write" ELSE "destructive"
        BY <1>4, <2>2 DEF Effect
      <3>2. ByKeyword(s) = IF s.where = "own" THEN "write" ELSE "destructive"
        BY <1>1, <1>2, <2>2 DEF ByKeyword
      <3> QED BY <2>1, <3>1, <3>2
    <2>3. CASE s.head \notin {"UPDATE", "DELETE", "MERGE"}
      BY <1>2, <1>4, <2>1, <2>3 DEF ByKeyword, Effect
    <2> QED BY <2>2, <2>3
  <1> QED BY <1>3, <1>4

\* What a text that is let through does, unless a part of it is hidden.
LEMMA LetThrough ==
  ASSUME NEW use \in {"query", "execute"}, NEW out \in Outcomes[use]
  PROVE  /\ out.did \in DOMAIN Severity /\ out.hidden \in BOOLEAN
         /\ ~out.hidden => out.did # "destructive" /\ (use = "query" => out.did = "read")
  <1>1. PICK text \in Texts :
          /\ ClassifySql(text) \in Allowed(use)
          /\ out = [did |-> Worst({Effect(s) : s \in text.seen \cup text.unseen}),
                    hidden |-> text.unseen # {} \/ \E s \in text.seen : Disguised(s)]
    BY DEF Outcomes
  <1>2. text.seen \subseteq Statement /\ text.unseen \subseteq Statement /\ text.seen # {}
    BY DEF Texts, Statement
  <1> DEFINE whole == text.seen \cup text.unseen
  <1>3. {Effect(s) : s \in whole} \in SUBSET DOMAIN Severity /\ {Effect(s) : s \in whole} # {}
    BY <1>2, KindsOfEffect
  <1>4. out.did \in DOMAIN Severity /\ out.hidden \in BOOLEAN
    BY <1>1, <1>3, WorstIsOne
  <1>5. ASSUME ~out.hidden
        PROVE  out.did # "destructive" /\ (use = "query" => out.did = "read")
    <2>1. whole = text.seen /\ \A s \in text.seen : ~Disguised(s)
      BY <1>1, <1>5
    <2>2. \A s \in text.seen : ClassifyOne(s) = Effect(s)
      BY <1>2, <2>1, ClassifiedAsItIs
    <2>3. {ClassifyOne(s) : s \in text.seen} = {Effect(s) : s \in whole}
      BY <2>1, <2>2
    <2>4. out.did \in Allowed(use)
      BY <1>1, <2>3 DEF ClassifySql
    <2> QED BY <2>4 DEF Allowed
  <1> QED BY <1>4, <1>5

-----------------------------------------------------------------------------
(* Databases: the pools                                                     *)

\* What a step of request r, for a link, makes of the requests: its own record
\* is replaced, and others are at most not alone any more.
Turns(r, rec) ==
  /\ request' \in [Request -> RequestRecord] /\ request'[r] = rec
  /\ \A o \in Request \ {r} :
       /\ request'[o].at = request[o].at /\ request'[o].for = request[o].for
       /\ request'[o].did = request[o].did /\ request'[o].hidden = request[o].hidden
       /\ request'[o].use = request[o].use
       /\ request'[o].alone => request[o].alone

LEMMA BusyRequests ==
  ASSUME NEW l
  PROVE  /\ Busy(l) \subseteq Request
         /\ \A r \in Request : r \in Busy(l) <=> request[r].for = {l} /\ request[r].at \in {"closing", "deleting"}
  BY DEF Busy

LEMMA OverlapKeeps ==
  ASSUME DatabaseInv, NEW l \in Link
  PROVE  /\ Overlap(l) \in [Request -> RequestRecord]
         /\ \A o \in Request :
              /\ Overlap(l)[o].at = request[o].at /\ Overlap(l)[o].for = request[o].for
              /\ Overlap(l)[o].did = request[o].did /\ Overlap(l)[o].hidden = request[o].hidden
              /\ Overlap(l)[o].use = request[o].use
              /\ Overlap(l)[o].alone => request[o].alone
              /\ o \in Busy(l) => ~Overlap(l)[o].alone
  <1>1. \A o \in Request : request[o] \in RequestRecord
    BY DEF DatabaseInv
  <1>2. \A o \in Request : [request[o] EXCEPT !.alone = FALSE] \in RequestRecord
    BY <1>1 DEF RequestRecord
  <1>3. \A o \in Request :
          Overlap(l)[o] = IF o \in Busy(l) THEN [request[o] EXCEPT !.alone = FALSE] ELSE request[o]
    BY DEF Overlap
  <1>4. Overlap(l) \in [Request -> RequestRecord]
    BY <1>1, <1>2 DEF Overlap
  <1>5. ASSUME NEW o \in Request, o \in Busy(l)
        PROVE  /\ Overlap(l)[o].at = request[o].at /\ Overlap(l)[o].for = request[o].for
               /\ Overlap(l)[o].did = request[o].did /\ Overlap(l)[o].hidden = request[o].hidden
               /\ Overlap(l)[o].use = request[o].use
               /\ ~Overlap(l)[o].alone
    BY <1>1, <1>3, <1>5 DEF RequestRecord
  <1>6. ASSUME NEW o \in Request, o \notin Busy(l)
        PROVE  Overlap(l)[o] = request[o]
    BY <1>3, <1>6
  <1> QED BY <1>4, <1>5, <1>6

LEMMA TurnsAlone ==
  ASSUME DatabaseInv, NEW r \in Request, NEW rec \in RequestRecord, request' = [request EXCEPT ![r] = rec]
  PROVE  Turns(r, rec)
  BY DEF DatabaseInv, Turns

LEMMA TurnsOverlapping ==
  ASSUME DatabaseInv, NEW r \in Request, NEW rec \in RequestRecord, NEW l \in Link,
         request' = [Overlap(l) EXCEPT ![r] = rec]
  PROVE  Turns(r, rec)
  BY OverlapKeeps DEF Turns

LEMMA SettledRecord ==
  ASSUME NEW q \in RequestRecord, NEW at \in {"done", "failed"}
  PROVE  /\ Settled(q, at) \in RequestRecord /\ Settled(q, at).at = at /\ Settled(q, at).alone = q.alone
         /\ Settled(q, at).for = {} /\ Settled(q, at).did = "read" /\ ~Settled(q, at).hidden
  <1>1. DOMAIN Severity = {"read", "unknown", "write", "ddl", "destructive"}
    BY DEF Severity
  <1>2. NoRequest \in RequestRecord /\ NoRequest.for = {} /\ NoRequest.did = "read" /\ ~NoRequest.hidden
    BY <1>1, MaxStampAssumption DEF NoRequest, RequestRecord
  <1>3. q.alone \in BOOLEAN
    BY DEF RequestRecord
  <1> QED BY <1>2, <1>3 DEF Settled, RequestRecord

\* What a statement is allowed to have done, of one record.
Safe(rec) == ~rec.hidden => rec.did # "destructive" /\ (rec.use = "query" => rec.did = "read")

\* Whatever becomes of the statement, the request is through with waiting, and
\* is no more alone than it was.
LEMMA RunsTurns ==
  ASSUME DatabaseInv, NEW r \in Request, NEW l \in Link, NEW q \in RequestRecord, q.for = {l},
         Runs(r, q)
  PROVE  \E rec \in RequestRecord :
           /\ Turns(r, rec) /\ rec.at \in {"running", "failed"} /\ rec.alone = q.alone
           /\ rec.at = "running" => rec.for = {l}
           /\ Safe(q) => Safe(rec)
  <1>1. CASE q.use \in {"schema", "test"} /\ request' = [Overlap(l) EXCEPT ![r] = [q EXCEPT !.at = "running"]]
    <2> DEFINE rec == [q EXCEPT !.at = "running"]
    <2>1. /\ rec \in RequestRecord /\ rec.at = "running" /\ rec.alone = q.alone /\ rec.for = {l}
          /\ rec.hidden = q.hidden /\ rec.did = q.did /\ rec.use = q.use
      BY DEF RequestRecord
    <2>2. Safe(q) => Safe(rec)
      BY <2>1 DEF Safe
    <2>3. request' = [Overlap(l) EXCEPT ![r] = rec]
      BY <1>1
    <2> HIDE DEF rec
    <2> QED BY <2>1, <2>2, <2>3, TurnsOverlapping
  <1>2. ASSUME NEW out \in Outcomes[q.use], q.use \in {"query", "execute"},
               request' = [Overlap(l) EXCEPT ![r] =
                             [q EXCEPT !.at = "running", !.did = out.did, !.hidden = out.hidden]]
        PROVE  \E rec \in RequestRecord :
                 /\ Turns(r, rec) /\ rec.at \in {"running", "failed"} /\ rec.alone = q.alone
                 /\ rec.at = "running" => rec.for = {l}
                 /\ Safe(q) => Safe(rec)
    <2> DEFINE rec == [q EXCEPT !.at = "running", !.did = out.did, !.hidden = out.hidden]
    <2>1. /\ out.did \in DOMAIN Severity /\ out.hidden \in BOOLEAN
          /\ ~out.hidden => out.did # "destructive" /\ (q.use = "query" => out.did = "read")
      BY <1>2, LetThrough
    <2>2. /\ rec \in RequestRecord /\ rec.at = "running" /\ rec.alone = q.alone /\ rec.for = {l}
          /\ rec.hidden = out.hidden /\ rec.did = out.did /\ rec.use = q.use
      BY <2>1 DEF RequestRecord
    <2>3. Safe(rec)
      BY <2>1, <2>2 DEF Safe
    <2>4. request' = [Overlap(l) EXCEPT ![r] = rec]
      BY <1>2
    <2> HIDE DEF rec
    <2> QED BY <2>2, <2>3, <2>4, TurnsOverlapping
  <1>3. CASE request' = [Overlap(l) EXCEPT ![r] = Settled(q, "failed")]
    <2>1. /\ Settled(q, "failed") \in RequestRecord /\ Settled(q, "failed").at = "failed"
          /\ Settled(q, "failed").alone = q.alone /\ Safe(Settled(q, "failed"))
      BY SettledRecord DEF Safe
    <2> QED BY <1>3, <2>1, TurnsOverlapping
  <1> QED BY <1>1, <1>2, <1>3 DEF Runs

\* No other pool is opened.
OthersClose(r) == \A o \in Request \ {r} : pool'[o].of = pool[o].of /\ (pool'[o].open => pool[o].open)

LEMMA WaitsStay ==
  ASSUME DatabaseInv, NEW r \in Request, NEW rec \in RequestRecord, Turns(r, rec), OthersClose(r), AtWork(r)',
         NEW l \in Link,
         pool'[r].open /\ pool'[r].of = {l} /\ rec.alone => Busy(l) \subseteq {r},
         rec.for = {l} /\ rec.at \in {"closing", "deleting"} =>
           /\ \A o \in Request \ {r} : pool'[o].open /\ pool'[o].of = {l} => ~request'[o].alone
           /\ \A o \in Busy(l) \ {r} : ~request'[o].alone,
         rec.for = {l} /\ rec.at = "closing" /\ rec.alone => Busy(l) \subseteq {r}
  PROVE  Waits(l)'
  <1>1. \A o \in Request \ {r} : o \in Busy(l)' <=> o \in Busy(l)
    BY DEF Busy, Turns
  <1>2. r \in Busy(l)' <=> rec.for = {l} /\ rec.at \in {"closing", "deleting"}
    BY DEF Busy, Turns
  <1>3. ASSUME NEW b \in Busy(l)', NEW o \in Request, pool'[o].open, pool'[o].of = {l}
        PROVE  ~request'[o].alone
    <2>1. CASE o = r
      <3>1. b # r
        BY <1>2, <1>3, <2>1 DEF AtWork, Turns
      <3>2. b \in Busy(l)
        BY <1>1, <3>1 DEF Busy
      <3> QED BY <1>3, <2>1, <3>1, <3>2 DEF Turns
    <2>2. CASE o # r /\ b = r
      BY <1>2, <1>3, <2>2
    <2>3. CASE o # r /\ b # r
      <3>1. b \in Busy(l)
        BY <1>1, <2>3 DEF Busy
      <3>2. pool[o].open /\ pool[o].of = {l}
        BY <1>3, <2>3 DEF OthersClose
      <3>3. ~request[o].alone
        BY <3>1, <3>2 DEF DatabaseInv, Waits
      <3> QED BY <2>3, <3>3 DEF Turns
    <2> QED BY <2>1, <2>2, <2>3
  <1>4. ASSUME NEW b \in Busy(l)', NEW o \in Busy(l)', o # b, request'[o].at = "closing"
        PROVE  ~request'[o].alone
    <2>1. CASE o = r
      <3>1. b \in Busy(l) /\ b # r
        BY <1>1, <1>4, <2>1 DEF Busy
      <3> QED BY <1>2, <1>4, <2>1, <3>1 DEF Turns
    <2>2. CASE o # r /\ b = r
      <3>1. o \in Busy(l) \ {r}
        BY <1>1, <1>4, <2>2 DEF Busy
      <3> QED BY <1>2, <1>4, <2>2, <3>1
    <2>3. CASE o # r /\ b # r
      <3>1. o \in Busy(l) /\ b \in Busy(l) /\ o \in Request /\ request[o].at = "closing"
        BY <1>1, <1>4, <2>3 DEF Busy, Turns
      <3>2. ~request[o].alone
        BY <1>4, <3>1 DEF DatabaseInv, Waits
      <3> QED BY <2>3, <3>1, <3>2 DEF Turns
    <2> QED BY <2>1, <2>2, <2>3
  <1> QED BY <1>3, <1>4 DEF Waits

TableTyped ==
  /\ link \in [Link -> [there : BOOLEAN, stamp : 0..MaxStamp, value : 0..MaxStamp]]
  /\ attached \subseteq Link /\ stamp \in 0..MaxStamp
  /\ \A l \in attached : attached = {l} /\ link[l].there

GatewayTyped == gateway \in [Link -> [by : SUBSET Request, stamp : 0..MaxStamp]]

LEMMA TableIsTyped ==
  ASSUME DatabaseInv
  PROVE  TableTyped /\ GatewayTyped /\ (UNCHANGED <<link, attached, stamp>> => TableTyped')
  BY DEF DatabaseInv, DatabaseTypeOK, TableTyped, GatewayTyped

\* The parts of the invariant that such a step leaves to the caller.
LEMMA DatabaseMoves ==
  ASSUME DatabaseInv, NEW r \in Request, NEW rec \in RequestRecord, Turns(r, rec), OthersClose(r),
         TableTyped', GatewayTyped', pool' \in [Request -> PoolRecord],
         AtWork(r)', \A l \in Link : Waits(l)', PoolsAreKept'
  PROVE  DatabaseInv'
  <1>1. request' \in [Request -> RequestRecord]
    BY DEF Turns
  <1>2. \A o \in Request \ {r} : AtWork(o)'
    BY DEF DatabaseInv, AtWork, Turns, OthersClose
  <1>3. \A o \in Request : request'[o].at \in {"none", "closing", "running", "done", "failed", "deleting"}
    BY <1>1 DEF RequestRecord
  <1>4. pool' \in [Request -> [open : BOOLEAN, of : SUBSET Link]]
    BY DEF PoolRecord
  <1>5. DatabaseTypeOK'
    BY <1>3, <1>4 DEF DatabaseTypeOK, TableTyped, GatewayTyped
  <1> QED BY <1>1, <1>2, <1>5 DEF DatabaseInv

LEMMA BuildKeeps ==
  ASSUME DatabaseInv, NEW r \in Request, NEW l \in Link, NEW q \in RequestRecord, q.for = {l},
         ~pool[r].open,
         \A o \in Request \ {r} : pool[o].open /\ pool[o].of = {l} => ~request[o].alone,
         q.alone => Busy(l) \subseteq {r},
         Build(r, q), UNCHANGED <<link, attached, stamp>>
  PROVE  DatabaseInv' /\ \E rec \in RequestRecord : Turns(r, rec) /\ (Safe(q) => Safe(rec))
  <1>0. TableTyped' /\ GatewayTyped /\ pool \in [Request -> PoolRecord] /\ PoolsAreKept
    BY TableIsTyped DEF DatabaseInv
  <1>1. CASE link[l].value # 0
    <2>1. /\ pool' = [pool EXCEPT ![r] = [open |-> TRUE, of |-> {l}]]
          /\ gateway' = [gateway EXCEPT ![l] = [by |-> {r}, stamp |-> q.stamp]]
          /\ Runs(r, q)
      BY <1>1 DEF Build
    <2>2. PICK rec \in RequestRecord :
            /\ Turns(r, rec) /\ rec.at \in {"running", "failed"} /\ rec.alone = q.alone
            /\ rec.at = "running" => rec.for = {l}
            /\ Safe(q) => Safe(rec)
      <3>1. q.for = {l} /\ Runs(r, q)
        BY <2>1
      <3> QED BY <3>1, RunsTurns
    <2>3. [open |-> TRUE, of |-> {l}] \in PoolRecord
      BY DEF PoolRecord
    <2>4. /\ pool' \in [Request -> PoolRecord] /\ pool'[r].open /\ pool'[r].of = {l}
          /\ \A o \in Request \ {r} : pool'[o] = pool[o]
      BY <1>0, <2>1, <2>3
    <2>5. q.stamp \in 0..MaxStamp
      BY DEF RequestRecord
    <2>6. /\ GatewayTyped' /\ gateway'[l].by = {r}
          /\ \A k \in Link \ {l} : gateway'[k] = gateway[k]
      BY <1>0, <2>1, <2>5 DEF GatewayTyped
    <2>7. OthersClose(r)
      BY <2>4 DEF OthersClose
    <2>8. AtWork(r)'
      BY <2>2 DEF AtWork, Turns
    <2>9. ASSUME NEW k \in Link
          PROVE  Waits(k)'
      <3>1. pool'[r].open /\ pool'[r].of = {k} /\ rec.alone => Busy(k) \subseteq {r}
        BY <2>2, <2>4
      <3> QED BY <2>2, <2>7, <2>8, <3>1, WaitsStay
    <2>10. ASSUME NEW o \in Request, NEW k \in Link, pool'[o].open, pool'[o].of = {k}, request'[o].alone
           PROVE  gateway'[k].by = {o}
      <3>1. CASE o = r
        BY <2>4, <2>6, <2>10, <3>1
      <3>2. CASE o # r
        <4>1. pool[o].open /\ pool[o].of = {k} /\ request[o].alone
          BY <2>2, <2>4, <2>10, <3>2 DEF Turns
        <4>2. k # l
          BY <3>2, <4>1
        <4> QED BY <1>0, <2>6, <4>1, <4>2 DEF PoolsAreKept
      <3> QED BY <3>1, <3>2
    <2>11. PoolsAreKept'
      BY <2>10 DEF PoolsAreKept
    <2>12. DatabaseInv'
      BY <1>0, <2>2, <2>4, <2>6, <2>7, <2>8, <2>9, <2>11, DatabaseMoves
    <2> QED BY <2>2, <2>12
  <1>2. CASE ~(link[l].value # 0)
    <2>1. request' = [request EXCEPT ![r] = Settled(q, "failed")] /\ UNCHANGED <<pool, gateway>>
      BY <1>2 DEF Build
    <2> DEFINE rec == Settled(q, "failed")
    <2>2. rec \in RequestRecord /\ rec.at = "failed" /\ Safe(rec)
      BY SettledRecord DEF Safe
    <2>3. Turns(r, rec)
      BY <2>1, <2>2, TurnsAlone
    <2> HIDE DEF rec
    <2>4. OthersClose(r) /\ AtWork(r)'
      BY <2>1, <2>2, <2>3 DEF OthersClose, AtWork, Turns
    <2>5. \A k \in Link : Waits(k)'
      BY <2>1, <2>2, <2>3, <2>4, WaitsStay
    <2>6. PoolsAreKept'
      BY <1>0, <2>1, <2>3 DEF PoolsAreKept, Turns
    <2>7. DatabaseInv'
      BY <1>0, <2>1, <2>2, <2>3, <2>4, <2>5, <2>6, DatabaseMoves DEF GatewayTyped
    <2> QED BY <2>2, <2>3, <2>7
  <1> QED BY <1>1, <1>2

\* Nobody but the cached pool of a link is open and alone.
LEMMA OneOpen ==
  ASSUME DatabaseInv, NEW l \in Link, NEW o \in Request, pool[o].open, pool[o].of = {l}, request[o].alone
  PROVE  gateway[l].by = {o}
  BY DEF DatabaseInv, PoolsAreKept

LEMMA EndedPools ==
  ASSUME DatabaseInv, NEW ids, pool' = Ended(ids)
  PROVE  /\ pool' \in [Request -> PoolRecord]
         /\ \A o \in Request : /\ pool'[o].of = pool[o].of /\ (pool'[o].open => pool[o].open)
                               /\ o \in ids => ~pool'[o].open
  <1>1. \A o \in Request : pool[o] \in PoolRecord
    BY DEF DatabaseInv
  <1>2. \A o \in Request : pool'[o] = IF o \in ids THEN [pool[o] EXCEPT !.open = FALSE] ELSE pool[o]
    BY DEF Ended
  <1>3. pool' = [o \in Request |-> pool'[o]]
    BY DEF Ended
  <1>4. \A o \in Request : [pool[o] EXCEPT !.open = FALSE] \in PoolRecord
    BY <1>1 DEF PoolRecord
  <1>5. \A o \in Request : pool'[o] \in PoolRecord
    BY <1>1, <1>2, <1>4
  <1>6. \A o \in Request : /\ pool'[o].of = pool[o].of /\ (pool'[o].open => pool[o].open)
                           /\ o \in ids => ~pool'[o].open
    BY <1>1, <1>2 DEF PoolRecord
  <1> QED BY <1>3, <1>5, <1>6

\* The record a use of a database starts from.
AskedFor(l, use, alone) ==
  [NoRequest EXCEPT !.for = {l}, !.use = use, !.stamp = link[l].stamp, !.alone = alone]

LEMMA Asked ==
  ASSUME DatabaseInv, NEW l \in Link, NEW use \in Uses, NEW alone \in BOOLEAN
  PROVE  LET q == AskedFor(l, use, alone)
         IN  q \in RequestRecord /\ q.for = {l} /\ Safe(q) /\ q.alone = alone /\ q.use = use
  <1>1. DOMAIN Severity = {"read", "unknown", "write", "ddl", "destructive"}
    BY DEF Severity
  <1>2. link[l].stamp \in 0..MaxStamp
    BY DEF DatabaseInv, DatabaseTypeOK
  <1>3. NoRequest \in RequestRecord /\ NoRequest.did = "read" /\ ~NoRequest.hidden
    BY <1>1, MaxStampAssumption DEF NoRequest, RequestRecord
  <1> DEFINE q == AskedFor(l, use, alone)
  <1>4. q \in RequestRecord /\ q.for = {l} /\ q.did = "read" /\ q.alone = alone /\ q.use = use
    BY <1>2, <1>3 DEF AskedFor, RequestRecord
  <1> QED BY <1>4 DEF Safe

LEMMA GatewayForKeeps ==
  ASSUME DatabaseInv, NEW r \in Request, NEW l \in Link, NEW use \in Uses, GatewayFor(r, l, use)
  PROVE  DatabaseInv' /\ \E rec \in RequestRecord : Turns(r, rec) /\ Safe(rec)
  <1> DEFINE alone == (Busy(l) = {})
             q == AskedFor(l, use, alone)
             cached == gateway[l].by
  <1>1. /\ request[r].at = "none" /\ UNCHANGED <<link, attached, stamp>>
        /\ \/ cached # {} /\ Runs(r, q) /\ UNCHANGED <<pool, gateway>>
           \/ /\ cached # {} /\ UNCHANGED gateway
              /\ \/ pool' = Ended(cached) /\ request' = [Overlap(l) EXCEPT ![r] = [q EXCEPT !.at = "closing"]]
                 \/ request' = [request EXCEPT ![r] = Settled(q, "failed")] /\ UNCHANGED pool
           \/ cached = {} /\ Build(r, q)
    BY DEF GatewayFor, AskedFor
  <1>2. alone \in BOOLEAN /\ (alone <=> Busy(l) = {})
    OBVIOUS
  <1> HIDE DEF alone
  <1>3. q \in RequestRecord /\ q.for = {l} /\ Safe(q) /\ (q.alone <=> Busy(l) = {})
    BY <1>2, Asked
  <1> HIDE DEF q
  <1>4. ~pool[r].open /\ r \notin Busy(l)
    BY <1>1 DEF DatabaseInv, AtWork, Busy
  <1>5. TableTyped' /\ GatewayTyped /\ pool \in [Request -> PoolRecord] /\ PoolsAreKept
    BY <1>1, TableIsTyped DEF DatabaseInv
  <1>6. CASE Runs(r, q) /\ UNCHANGED <<pool, gateway>>
    <2>1. PICK rec \in RequestRecord :
            /\ Turns(r, rec) /\ rec.at \in {"running", "failed"} /\ rec.alone = q.alone
            /\ rec.at = "running" => rec.for = {l}
            /\ Safe(q) => Safe(rec)
      BY <1>3, <1>6, RunsTurns
    <2>2. OthersClose(r) /\ AtWork(r)'
      BY <1>6, <2>1 DEF OthersClose, AtWork, Turns
    <2>3. \A k \in Link : Waits(k)'
      BY <1>4, <1>6, <2>1, <2>2, WaitsStay
    <2>4. PoolsAreKept'
      BY <1>4, <1>5, <1>6, <2>1 DEF PoolsAreKept, Turns
    <2>5. DatabaseInv'
      BY <1>5, <1>6, <2>1, <2>2, <2>3, <2>4, DatabaseMoves DEF GatewayTyped
    <2> QED BY <1>3, <2>1, <2>5
  <1>7. CASE /\ cached # {} /\ UNCHANGED gateway /\ pool' = Ended(cached)
             /\ request' = [Overlap(l) EXCEPT ![r] = [q EXCEPT !.at = "closing"]]
    <2> DEFINE rec == [q EXCEPT !.at = "closing"]
    <2>1. /\ rec \in RequestRecord /\ rec.at = "closing" /\ rec.for = {l} /\ rec.alone = q.alone
          /\ rec.hidden = q.hidden /\ rec.did = q.did /\ rec.use = q.use
      BY <1>3 DEF RequestRecord
    <2>2. request' = [Overlap(l) EXCEPT ![r] = rec]
      BY <1>7
    <2> HIDE DEF rec
    <2>3. Turns(r, rec) /\ \A o \in Busy(l) \ {r} : ~request'[o].alone
      BY <2>1, <2>2, TurnsOverlapping, OverlapKeeps, BusyRequests
    <2>4. /\ pool' \in [Request -> PoolRecord]
          /\ \A o \in Request : /\ pool'[o].of = pool[o].of /\ (pool'[o].open => pool[o].open)
                                /\ o \in cached => ~pool'[o].open
      BY <1>7, EndedPools
    <2>5. OthersClose(r) /\ AtWork(r)'
      BY <1>4, <2>1, <2>3, <2>4 DEF OthersClose, AtWork, Turns
    <2>6. \A o \in Request \ {r} : pool'[o].open /\ pool'[o].of = {l} => ~request'[o].alone
      BY <2>3, <2>4, OneOpen DEF Turns
    <2>7. \A k \in Link : Waits(k)'
      <3> TAKE k \in Link
      <3>1. ~pool'[r].open
        BY <1>4, <2>4
      <3>2. rec.for = {k} => k = l
        BY <2>1
      <3>3. rec.alone => Busy(l) \subseteq {r}
        BY <1>3, <2>1
      <3> QED BY <2>1, <2>3, <2>5, <2>6, <3>1, <3>2, <3>3, WaitsStay
    <2>8. PoolsAreKept'
      <3> SUFFICES ASSUME NEW o \in Request, NEW k \in Link, pool'[o].open, pool'[o].of = {k}, request'[o].alone
                   PROVE  gateway'[k].by = {o}
        BY DEF PoolsAreKept
      <3>1. o # r /\ pool[o].open /\ pool[o].of = {k}
        BY <1>4, <2>4
      <3>2. request[o].alone
        BY <2>3, <3>1 DEF Turns
      <3> QED BY <1>7, <3>1, <3>2, OneOpen
    <2>9. DatabaseInv'
      BY <1>5, <1>7, <2>1, <2>3, <2>4, <2>5, <2>7, <2>8, DatabaseMoves DEF GatewayTyped
    <2>10. Safe(rec)
      BY <1>3, <2>1 DEF Safe
    <2> QED BY <2>1, <2>3, <2>9, <2>10
  <1>8. CASE UNCHANGED <<pool, gateway>> /\ request' = [request EXCEPT ![r] = Settled(q, "failed")]
    <2> DEFINE rec == Settled(q, "failed")
    <2>1. rec \in RequestRecord /\ rec.at = "failed" /\ Safe(rec)
      BY <1>3, SettledRecord DEF Safe
    <2>2. Turns(r, rec)
      BY <1>8, <2>1, TurnsAlone
    <2> HIDE DEF rec
    <2>3. OthersClose(r) /\ AtWork(r)'
      BY <1>8, <2>1, <2>2 DEF OthersClose, AtWork, Turns
    <2>4. \A k \in Link : Waits(k)'
      BY <1>4, <1>8, <2>1, <2>2, <2>3, WaitsStay
    <2>5. PoolsAreKept'
      BY <1>4, <1>5, <1>8, <2>2 DEF PoolsAreKept, Turns
    <2>6. DatabaseInv'
      BY <1>5, <1>8, <2>1, <2>2, <2>3, <2>4, <2>5, DatabaseMoves DEF GatewayTyped
    <2> QED BY <2>1, <2>2, <2>6
  <1>9. CASE cached = {} /\ Build(r, q)
    <2>1. \A o \in Request \ {r} : pool[o].open /\ pool[o].of = {l} => ~request[o].alone
      BY <1>9, OneOpen
    <2>2. q.alone => Busy(l) \subseteq {r}
      BY <1>3
    <2> QED BY <1>1, <1>3, <1>4, <1>9, <2>1, <2>2, BuildKeeps
  <1> QED BY <1>1, <1>6, <1>7, <1>8, <1>9

\* The record of a deletion.
LEMMA DeletingRecord ==
  ASSUME NEW l \in Link, NEW rec, rec = [NoRequest EXCEPT !.at = "deleting", !.for = {l}]
  PROVE  rec \in RequestRecord /\ rec.at = "deleting" /\ rec.for = {l} /\ Safe(rec)
  <1>1. DOMAIN Severity = {"read", "unknown", "write", "ddl", "destructive"}
    BY DEF Severity
  <1>2. NoRequest \in RequestRecord /\ NoRequest.did = "read" /\ ~NoRequest.hidden
    BY <1>1, MaxStampAssumption DEF NoRequest, RequestRecord
  <1>3. rec \in RequestRecord /\ rec.at = "deleting" /\ rec.for = {l} /\ rec.did = "read" /\ ~rec.hidden
    BY <1>2 DEF RequestRecord
  <1> QED BY <1>3 DEF Safe

LEMMA DeleteLinkKeeps ==
  ASSUME DatabaseInv, NEW r \in Request, NEW l \in Link, DeleteLink(r, l)
  PROVE  DatabaseInv' /\ \E rec \in RequestRecord : Turns(r, rec) /\ Safe(rec)
  <1> DEFINE rec == [NoRequest EXCEPT !.at = "deleting", !.for = {l}]
  <1>1. /\ request[r].at = "none" /\ UNCHANGED <<link, attached, stamp>>
        /\ gateway' = [gateway EXCEPT ![l] = NoGateway] /\ pool' = Ended(gateway[l].by)
        /\ request' = [Overlap(l) EXCEPT ![r] = rec]
    BY DEF DeleteLink
  <1>2. rec \in RequestRecord /\ rec.at = "deleting" /\ rec.for = {l} /\ Safe(rec)
    BY DeletingRecord
  <1> HIDE DEF rec
  <1>3. Turns(r, rec) /\ \A o \in Busy(l) \ {r} : ~request'[o].alone
    BY <1>1, <1>2, TurnsOverlapping, OverlapKeeps, BusyRequests
  <1>4. /\ pool' \in [Request -> PoolRecord]
        /\ \A o \in Request : /\ pool'[o].of = pool[o].of /\ (pool'[o].open => pool[o].open)
                              /\ o \in gateway[l].by => ~pool'[o].open
    BY <1>1, EndedPools
  <1>5. ~pool[r].open
    BY <1>1 DEF DatabaseInv, AtWork
  <1>6. OthersClose(r) /\ AtWork(r)'
    BY <1>2, <1>3, <1>4, <1>5 DEF OthersClose, AtWork, Turns
  <1>7. \A o \in Request \ {r} : pool'[o].open /\ pool'[o].of = {l} => ~request'[o].alone
    BY <1>3, <1>4, OneOpen DEF Turns
  <1>8. \A k \in Link : Waits(k)'
    <2> TAKE k \in Link
    <2>1. ~pool'[r].open /\ (rec.for = {k} => k = l)
      BY <1>2, <1>4, <1>5
    <2> QED BY <1>2, <1>3, <1>6, <1>7, <2>1, WaitsStay
  <1>9. TableTyped' /\ GatewayTyped
    BY <1>1, TableIsTyped
  <1>10. NoGateway \in [by : SUBSET Request, stamp : 0..MaxStamp]
    BY MaxStampAssumption DEF NoGateway
  <1>11. GatewayTyped' /\ \A k \in Link \ {l} : gateway'[k] = gateway[k]
    BY <1>1, <1>9, <1>10 DEF GatewayTyped
  <1>12. PoolsAreKept'
    <2> SUFFICES ASSUME NEW o \in Request, NEW k \in Link, pool'[o].open, pool'[o].of = {k}, request'[o].alone
                 PROVE  gateway'[k].by = {o}
      BY DEF PoolsAreKept
    <2>1. o # r /\ pool[o].open /\ pool[o].of = {k}
      BY <1>4, <1>5
    <2>2. request[o].alone /\ k # l
      BY <1>3, <1>7, <2>1 DEF Turns
    <2> QED BY <1>11, <2>1, <2>2, OneOpen
  <1>13. DatabaseInv'
    BY <1>2, <1>3, <1>4, <1>6, <1>8, <1>9, <1>11, <1>12, DatabaseMoves
  <1> QED BY <1>2, <1>3, <1>13

\* A request ends: the pools and the gateways stay, and what it is alone with.
LEMMA EndKeeps ==
  ASSUME DatabaseInv, NEW r \in Request, NEW rec \in RequestRecord, request' = [request EXCEPT ![r] = rec],
         rec.at \in {"done", "failed"}, rec.alone = request[r].alone,
         UNCHANGED <<gateway, pool>>, TableTyped', request[r].at # "closing"
  PROVE  DatabaseInv'
  <1>1. Turns(r, rec)
    BY TurnsAlone
  <1>2. GatewayTyped /\ pool \in [Request -> PoolRecord] /\ PoolsAreKept
    BY TableIsTyped DEF DatabaseInv
  <1>3. OthersClose(r) /\ AtWork(r)'
    BY <1>1 DEF OthersClose, AtWork, Turns
  <1>4. ASSUME NEW k \in Link, pool[r].open, pool[r].of = {k}, request[r].alone
        PROVE  Busy(k) = {}
    BY <1>4 DEF DatabaseInv, Waits, Busy
  <1>5. \A k \in Link : Waits(k)'
    BY <1>1, <1>3, <1>4, WaitsStay
  <1>6. PoolsAreKept'
    BY <1>1, <1>2 DEF PoolsAreKept, Turns
  <1> QED BY <1>1, <1>2, <1>3, <1>5, <1>6, DatabaseMoves DEF GatewayTyped

LEMMA DeletedKeeps ==
  ASSUME DatabaseInv, NEW r \in Request, Deleted(r)
  PROVE  /\ DatabaseInv'
         /\ request' = [request EXCEPT ![r].at = "done"]
  <1> DEFINE rec == [request[r] EXCEPT !.at = "done"]
  <1>1. request[r] \in RequestRecord /\ request[r].at = "deleting" /\ request' = [request EXCEPT ![r] = rec]
    BY DEF DatabaseInv, Deleted
  <1>2. rec \in RequestRecord /\ rec.at = "done" /\ rec.alone = request[r].alone
    BY <1>1 DEF RequestRecord
  <1> HIDE DEF rec
  <1>3. PICK l \in request[r].for : link' = [link EXCEPT ![l] = NoLink] /\ attached' = attached \ {l}
    BY DEF Deleted
  <1>4. l \in Link
    BY <1>1, <1>3 DEF RequestRecord
  <1>5. TableTyped'
    <2>1. TableTyped /\ NoLink \in [there : BOOLEAN, stamp : 0..MaxStamp, value : 0..MaxStamp] /\ UNCHANGED stamp
      BY TableIsTyped, MaxStampAssumption DEF NoLink, Deleted
    <2> QED BY <1>3, <1>4, <2>1 DEF TableTyped
  <1>6. UNCHANGED <<gateway, pool>>
    BY DEF Deleted
  <1>7. DatabaseInv'
    BY <1>1, <1>2, <1>5, <1>6, EndKeeps
  <1> QED BY <1>7 DEF Deleted

LEMMA AnsweredKeeps ==
  ASSUME DatabaseInv, NEW r \in Request, Answered(r)
  PROVE  DatabaseInv' /\ \E rec \in RequestRecord : Turns(r, rec) /\ Safe(rec)
  <1> DEFINE rec == Settled(request[r], "done")
  <1>1. /\ request[r] \in RequestRecord /\ request[r].at = "running"
        /\ request' = [request EXCEPT ![r] = rec] /\ UNCHANGED <<attached, gateway, pool>>
    BY DEF DatabaseInv, Answered
  <1>2. rec \in RequestRecord /\ rec.at = "done" /\ rec.alone = request[r].alone /\ Safe(rec)
    BY <1>1, SettledRecord DEF Safe
  <1> HIDE DEF rec
  <1>3. PICK l \in request[r].for :
          \/ Tick /\ link' = [link EXCEPT ![l].stamp = stamp + 1]
          \/ UNCHANGED <<link, stamp>>
    BY DEF Answered
  <1>4. l \in Link
    BY <1>1, <1>3 DEF RequestRecord
  <1>5. TableTyped'
    <2>1. TableTyped
      BY TableIsTyped
    <2>2. CASE Tick /\ link' = [link EXCEPT ![l].stamp = stamp + 1]
      <3>1. stamp' \in 0..MaxStamp /\ stamp' = stamp + 1
        BY <2>1, <2>2, MaxStampAssumption DEF TableTyped, Tick
      <3>2. link' \in [Link -> [there : BOOLEAN, stamp : 0..MaxStamp, value : 0..MaxStamp]]
        BY <1>4, <2>1, <2>2, <3>1 DEF TableTyped
      <3>3. \A k \in Link : link'[k].there = link[k].there
        BY <1>4, <2>1, <2>2 DEF TableTyped
      <3> QED BY <1>1, <2>1, <3>1, <3>2, <3>3 DEF TableTyped
    <2>3. CASE UNCHANGED <<link, stamp>>
      BY <1>1, <2>1, <2>3 DEF TableTyped
    <2> QED BY <1>3, <2>2, <2>3
  <1>6. DatabaseInv'
    BY <1>1, <1>2, <1>5, EndKeeps
  <1> QED BY <1>1, <1>2, <1>6, TurnsAlone

LEMMA PoolEndedKeeps ==
  ASSUME DatabaseInv, NEW r \in Request, PoolEnded(r)
  PROVE  DatabaseInv' /\ \E rec \in RequestRecord : Turns(r, rec) /\ (Safe(request[r]) => Safe(rec))
  <1> DEFINE q == request[r]
  <1>1. q \in RequestRecord /\ q.at = "closing" /\ Build(r, q) /\ UNCHANGED <<link, attached, stamp>>
    BY DEF DatabaseInv, PoolEnded
  <1>2. PICK l \in Link : q.for = {l}
    BY <1>1 DEF DatabaseInv, AtWork, RequestRecord
  <1>3. r \in Busy(l)
    BY <1>1, <1>2 DEF Busy
  <1>4. ~pool[r].open
    BY <1>1 DEF DatabaseInv, AtWork
  <1>5. \A o \in Request \ {r} : pool[o].open /\ pool[o].of = {l} => ~request[o].alone
    BY <1>3 DEF DatabaseInv, Waits
  <1>6. q.alone => Busy(l) \subseteq {r}
    BY <1>1, <1>3 DEF DatabaseInv, Waits
  <1> QED BY <1>1, <1>2, <1>4, <1>5, <1>6, BuildKeeps

\* Writes to the table leave the requests, the pools and the gateways alone.
LEMMA TableKeeps ==
  ASSUME DatabaseInv, UNCHANGED <<gateway, pool, request>>, TableTyped'
  PROVE  DatabaseInv'
  BY DEF DatabaseInv, DatabaseTypeOK, TableTyped, AtWork, Waits, Busy, PoolsAreKept

LEMMA WritesKeep ==
  ASSUME DatabaseInv, NEW l \in Link, NEW v \in 0..MaxStamp,
         ChangeSecret(l, v) \/ \E attach \in BOOLEAN : UpsertLink(l, v, attach)
  PROVE  DatabaseInv' /\ UNCHANGED request
  <1>1. TableTyped
    BY TableIsTyped
  <1>2. Tick /\ UNCHANGED <<gateway, pool, request>>
    BY DEF ChangeSecret, UpsertLink
  <1>3. stamp' = stamp + 1 /\ stamp' \in 0..MaxStamp
    BY <1>1, <1>2, MaxStampAssumption DEF TableTyped, Tick
  <1>4. CASE ChangeSecret(l, v)
    <2>1. link' = [link EXCEPT ![l].value = v] /\ UNCHANGED attached
      BY <1>4 DEF ChangeSecret
    <2>2. /\ link' \in [Link -> [there : BOOLEAN, stamp : 0..MaxStamp, value : 0..MaxStamp]]
          /\ \A k \in Link : link'[k].there = link[k].there
      BY <1>1, <2>1 DEF TableTyped
    <2>3. TableTyped'
      BY <1>1, <1>3, <2>1, <2>2 DEF TableTyped
    <2> QED BY <1>2, <2>3, TableKeeps
  <1>5. ASSUME NEW attach \in BOOLEAN, UpsertLink(l, v, attach)
        PROVE  DatabaseInv'
    <2>1. /\ link' = [link EXCEPT ![l] = [there |-> TRUE, stamp |-> stamp + 1, value |-> v]]
          /\ attached' = IF attach THEN {l} ELSE attached
      BY <1>5 DEF UpsertLink
    <2>2. /\ link' \in [Link -> [there : BOOLEAN, stamp : 0..MaxStamp, value : 0..MaxStamp]]
          /\ link'[l].there /\ \A k \in Link \ {l} : link'[k] = link[k]
      BY <1>1, <1>3, <2>1 DEF TableTyped
    <2>3. TableTyped'
      BY <1>1, <1>3, <2>1, <2>2 DEF TableTyped
    <2> QED BY <1>2, <2>3, TableKeeps
  <1> QED BY <1>2, <1>4, <1>5

LEMMA DatabaseInitInv ==
  ASSUME DatabaseInit
  PROVE  DatabaseInv /\ NothingIsDestroyed
  <1>1. DOMAIN Severity = {"read", "unknown", "write", "ddl", "destructive"}
    BY DEF Severity
  <1>2. NoRequest \in RequestRecord /\ NoRequest.at = "none" /\ NoRequest.did = "read"
    BY <1>1, MaxStampAssumption DEF NoRequest, RequestRecord
  <1>3. request \in [Request -> RequestRecord] /\ \A r \in Request : request[r] = NoRequest
    BY <1>2 DEF DatabaseInit
  <1>4. /\ pool \in [Request -> PoolRecord] /\ pool \in [Request -> [open : BOOLEAN, of : SUBSET Link]]
        /\ \A r \in Request : ~pool[r].open
    BY DEF DatabaseInit, NoPool, PoolRecord
  <1>5. DatabaseTypeOK
    BY <1>2, <1>3, <1>4, MaxStampAssumption DEF DatabaseInit, DatabaseTypeOK, NoLink, NoGateway
  <1>6. \A l \in Link : Busy(l) = {}
    BY <1>2, <1>3 DEF Busy
  <1>7. (\A l \in Link : Waits(l)) /\ PoolsAreKept /\ \A r \in Request : AtWork(r)
    BY <1>2, <1>3, <1>4, <1>6 DEF Waits, PoolsAreKept, AtWork
  <1>8. NothingIsDestroyed
    BY <1>2, <1>3 DEF NothingIsDestroyed
  <1> QED BY <1>3, <1>4, <1>5, <1>7, <1>8 DEF DatabaseInv

LEMMA SafeRequests == NothingIsDestroyed <=> \A r \in Request : Safe(request[r])
  BY DEF NothingIsDestroyed, Safe

LEMMA TurnsSafely ==
  ASSUME NothingIsDestroyed, NEW r \in Request, NEW rec \in RequestRecord, Turns(r, rec),
         Safe(request[r]) => Safe(rec)
  PROVE  NothingIsDestroyed'
  BY DEF NothingIsDestroyed, Turns, Safe

\* One step per action of Databases.
LEMMA DatabaseStepKeeps ==
  ASSUME DatabaseInv, NothingIsDestroyed, [DatabaseNext]_databaseVars
  PROVE  DatabaseInv' /\ NothingIsDestroyed'
  <1>1. ASSUME NEW l \in Link, NEW v \in 0..MaxStamp,
               ChangeSecret(l, v) \/ \E attach \in BOOLEAN : UpsertLink(l, v, attach)
        PROVE  DatabaseInv' /\ NothingIsDestroyed'
    BY <1>1, WritesKeep DEF NothingIsDestroyed
  <1>2. ASSUME NEW r \in Request, Deleted(r)
        PROVE  DatabaseInv' /\ NothingIsDestroyed'
    <2>1. DatabaseInv' /\ request' = [request EXCEPT ![r].at = "done"]
      BY <1>2, DeletedKeeps
    <2>2. \A o \in Request : /\ request'[o].hidden = request[o].hidden /\ request'[o].did = request[o].did
                             /\ request'[o].use = request[o].use
      BY <2>1 DEF DatabaseInv, RequestRecord
    <2> QED BY <2>1, <2>2 DEF NothingIsDestroyed
  <1>3. ASSUME NEW r \in Request, PoolEnded(r)
        PROVE  DatabaseInv' /\ NothingIsDestroyed'
    BY <1>3, PoolEndedKeeps, TurnsSafely
  <1>4. ASSUME NEW r \in Request, Answered(r)
        PROVE  DatabaseInv' /\ NothingIsDestroyed'
    BY <1>4, AnsweredKeeps, TurnsSafely
  <1>5. ASSUME NEW r \in Request, NEW l \in Link, DeleteLink(r, l)
        PROVE  DatabaseInv' /\ NothingIsDestroyed'
    BY <1>5, DeleteLinkKeeps, TurnsSafely
  <1>6. ASSUME NEW r \in Request, NEW l \in Link, NEW use \in Uses, UseDatabase(r, l, use)
        PROVE  DatabaseInv' /\ NothingIsDestroyed'
    <2>1. GatewayFor(r, l, use)
      BY <1>6 DEF UseDatabase
    <2> QED BY <2>1, GatewayForKeeps, TurnsSafely
  <1>7. CASE UNCHANGED databaseVars
    BY <1>7 DEF databaseVars, DatabaseInv, DatabaseTypeOK, AtWork, Waits, Busy, PoolsAreKept, NothingIsDestroyed
  <1> QED BY <1>1, <1>2, <1>3, <1>4, <1>5, <1>6, <1>7 DEF DatabaseNext

\* Whatever uses, edits and deletions of the links overlap (gatewayFor, upsert,
\* delete of integrations-wiring.ts): the variables keep their types, a request
\* has no pool before it is through with the old one, and while one waits for
\* that nobody who knew nothing of it has a pool of the link open.
THEOREM DatabaseInvHolds == DatabaseSpec => []DatabaseInv
  <1>1. DatabaseInv /\ NothingIsDestroyed /\ [DatabaseNext]_databaseVars => (DatabaseInv /\ NothingIsDestroyed)'
    BY DatabaseStepKeeps
  <1>2. DatabaseInit => DatabaseInv /\ NothingIsDestroyed
    BY DatabaseInitInv
  <1>3. DatabaseSpec => [](DatabaseInv /\ NothingIsDestroyed)
    BY <1>1, <1>2, PTL DEF DatabaseSpec
  <1> QED BY <1>3, PTL

\* No pool is left open that no later change or deletion of its link would
\* close, except where two requests or a deletion wait for pools of one link
\* (the cache of integrations-wiring.ts).
THEOREM PoolsAreKeptHolds == DatabaseSpec => []PoolsAreKept
  <1>1. DatabaseInv => PoolsAreKept
    BY DEF DatabaseInv
  <1> QED BY <1>1, DatabaseInvHolds, PTL

\* Of a text that the classifier sees to its end nothing removes a table or all
\* of its rows, nor changes anything as a query, unless it does so in disguise:
\* explained with ANALYZE, in a function, with a condition that spares no row
\* (classifySql of sql-classifier.ts).
THEOREM NothingIsDestroyedHolds == DatabaseSpec => []NothingIsDestroyed
  <1>1. DatabaseInv /\ NothingIsDestroyed /\ [DatabaseNext]_databaseVars => (DatabaseInv /\ NothingIsDestroyed)'
    BY DatabaseStepKeeps
  <1>2. DatabaseInit => DatabaseInv /\ NothingIsDestroyed
    BY DatabaseInitInv
  <1>3. DatabaseSpec => [](DatabaseInv /\ NothingIsDestroyed)
    BY <1>1, <1>2, PTL DEF DatabaseSpec
  <1> QED BY <1>3, PTL

-----------------------------------------------------------------------------
(* Providers                                                                *)

\* A number given later names no fewer connections.
LEMMA Widens ==
  ASSUME NEW n \in Nat
  PROVE  /\ Configs(n) \subseteq Configs(n + 1) /\ Verdicts(n) \subseteq Verdicts(n + 1)
         /\ Probes(n) \subseteq Probes(n + 1) /\ [Provider -> 0..n] \subseteq [Provider -> 0..(n + 1)]
  <1>1. 0..n \subseteq 0..(n + 1)
    OBVIOUS
  <1>2. Configs(n) \subseteq Configs(n + 1)
    BY <1>1 DEF Configs
  <1>3. Verdicts(n) \subseteq Verdicts(n + 1)
    BY <1>1 DEF Verdicts
  <1>4. Probes(n) \subseteq Probes(n + 1)
    BY <1>1 DEF Probes
  <1>5. [Provider -> 0..n] \subseteq [Provider -> 0..(n + 1)]
    BY <1>1
  <1> QED BY <1>2, <1>3, <1>4, <1>5

Counted ==
  /\ connections \in 0..MaxConnections /\ starts \in 0..MaxStarts /\ overtaken \subseteq Provider
  /\ routing \in [localOnly : BOOLEAN, override : {{}} \cup {{p} : p \in Provider}]

\* The types of the records say all that the type invariant says of them.
LEMMA ProviderTypes == Counted /\ ProviderRecords => ProvidersTypeOK
  <1> SUFFICES ASSUME Counted, ProviderRecords
               PROVE  ProvidersTypeOK
    OBVIOUS
  <1>1. \A p \in Provider : /\ config[p].connection \in 0..connections /\ config[p].listed \in 0..connections
                            /\ verdict[p].of \in 0..connections /\ discovered[p] \in 0..connections
    BY DEF ProviderRecords, Configs, Verdicts
  <1>2. \A r \in Probe : probe[r].at \in {"none", "validating", "listing", "done"}
    BY DEF ProviderRecords, Probes
  <1>3. \A c \in Chat : chat[c].at \in {"none", "routed", "open", "ended"}
    BY DEF ProviderRecords, Chats
  <1> QED BY <1>1, <1>2, <1>3 DEF Counted, ProvidersTypeOK

LEMMA ProvidersHave ==
  ASSUME ProvidersInv
  PROVE  /\ Counted /\ ProviderRecords /\ connections \in Nat
         /\ \A p \in Provider \ overtaken : Current(p)
  BY DEF ProvidersInv, Counted, ProvidersTypeOK

LEMMA ProvidersNow ==
  ASSUME Counted', ProviderRecords', \A p \in Provider \ overtaken' : Current(p)'
  PROVE  ProvidersInv'
  <1>1. Counted' /\ ProviderRecords' => ProvidersTypeOK'
    BY ProviderTypes, PTL
  <1> QED BY <1>1 DEF ProvidersInv

LEMMA Changes ==
  ASSUME ProvidersInv, Change
  PROVE  /\ connections' = connections + 1 /\ connections' \in 0..MaxConnections
         /\ Configs(connections) \subseteq Configs(connections') /\ Verdicts(connections) \subseteq Verdicts(connections')
         /\ Probes(connections) \subseteq Probes(connections')
         /\ [Provider -> 0..connections] \subseteq [Provider -> 0..connections']
  <1>1. connections' = connections + 1 /\ connections \in Nat /\ connections' \in 0..MaxConnections
    BY ProvidersHave, ProviderAssumption DEF Change, Counted
  <1> QED BY <1>1, Widens

LEMMA EnableKeeps ==
  ASSUME ProvidersInv, NEW p \in Provider, Enable(p)
  PROVE  ProvidersInv'
  <1>1. Counted /\ ProviderRecords /\ \A q \in Provider \ overtaken : Current(q)
    BY ProvidersHave
  <1>2. /\ config' = [config EXCEPT ![p].enabled = ~@]
        /\ UNCHANGED <<routing, discovered, verdict, probe, chat, starts, overtaken>>
        /\ Change
    BY DEF Enable
  <1>3. config' \in Configs(connections) /\ \A q \in Provider : /\ config'[q].connection = config[q].connection
                                                                /\ config'[q].listed = config[q].listed
    BY <1>1, <1>2 DEF ProviderRecords, Configs
  <1>4. Counted' /\ ProviderRecords'
    BY <1>1, <1>2, <1>3, Changes DEF Counted, ProviderRecords
  <1>5. \A q \in Provider \ overtaken' : Current(q)'
    BY <1>1, <1>2, <1>3 DEF Current
  <1> QED BY <1>4, <1>5, ProvidersNow

LEMMA ConnectToKeeps ==
  ASSUME ProvidersInv, NEW p \in Provider, NEW key \in BOOLEAN, ConnectTo(p, key)
  PROVE  ProvidersInv'
  <1>1. Counted /\ ProviderRecords /\ (\A q \in Provider \ overtaken : Current(q)) /\ connections \in Nat
    BY ProvidersHave
  <1>2. /\ Change /\ ForgetConnection(p)
        /\ config' = [config EXCEPT ![p] = [@ EXCEPT !.enabled = TRUE, !.key = key,
                                                     !.connection = connections + 1, !.listed = 0]]
        /\ overtaken' = IF Contacted(p) THEN overtaken \cup {p} ELSE overtaken
        /\ UNCHANGED <<routing, probe, chat, starts>>
    BY DEF ConnectTo
  <1>3. /\ connections' = connections + 1
        /\ config \in Configs(connections') /\ verdict \in Verdicts(connections')
        /\ discovered \in [Provider -> 0..connections']
    BY <1>1, <1>2, Changes DEF ProviderRecords
  <1>4. /\ config' \in Configs(connections') /\ config'[p].connection = connections' /\ config'[p].listed = 0
        /\ \A q \in Provider \ {p} : config'[q] = config[q]
    <2> DEFINE rec == [config[p] EXCEPT !.enabled = TRUE, !.key = key,
                                        !.connection = connections + 1, !.listed = 0]
    <2>1. config' = [config EXCEPT ![p] = rec]
      BY <1>2
    <2>2. /\ rec \in [enabled : BOOLEAN, key : BOOLEAN, connection : 0..connections', listed : 0..connections']
          /\ rec.connection = connections' /\ rec.listed = 0
      <3>1. config[p] \in [enabled : BOOLEAN, key : BOOLEAN, connection : 0..connections', listed : 0..connections']
        BY <1>3 DEF Configs
      <3>2. connections + 1 \in 0..connections' /\ 0 \in 0..connections'
        BY <1>1, <1>3
      <3> QED BY <1>3, <3>1, <3>2
    <2> HIDE DEF rec
    <2> QED BY <1>3, <2>1, <2>2 DEF Configs
  <1>5. NoVerdict \in [of : 0..connections', ok : BOOLEAN, is : BOOLEAN] /\ ~NoVerdict.is
    BY <1>1, <1>3 DEF NoVerdict
  <1>6. /\ verdict' \in Verdicts(connections') /\ ~verdict'[p].is
        /\ discovered' \in [Provider -> 0..connections'] /\ discovered'[p] = 0
        /\ \A q \in Provider \ {p} : verdict'[q] = verdict[q] /\ discovered'[q] = discovered[q]
    BY <1>1, <1>2, <1>3, <1>5 DEF ForgetConnection, Verdicts
  <1>7. Counted' /\ ProviderRecords'
    BY <1>1, <1>2, <1>4, <1>6, Changes DEF Counted, ProviderRecords
  <1>8. ASSUME NEW q \in Provider \ overtaken'
        PROVE  Current(q)'
    <2>1. CASE q = p
      <3>1. ~Contacted(p)
        BY <1>2, <1>8, <2>1
      <3> QED BY <1>2, <1>4, <1>6, <2>1, <3>1 DEF Current, Contacted
    <2>2. CASE q # p
      <3>1. q \notin overtaken
        BY <1>2, <1>8
      <3>2. Current(q)
        BY <1>1, <3>1
      <3> QED BY <1>2, <1>4, <1>6, <2>2, <3>2 DEF Current
    <2> QED BY <2>1, <2>2
  <1> QED BY <1>7, <1>8, ProvidersNow

LEMMA SetRoutingKeeps ==
  ASSUME ProvidersInv, NEW localOnly \in BOOLEAN, NEW o \in {{}} \cup {{p} : p \in Provider},
         SetRouting(localOnly, o)
  PROVE  ProvidersInv'
  <1>1. Counted /\ ProviderRecords /\ \A q \in Provider \ overtaken : Current(q)
    BY ProvidersHave
  <1>2. /\ Change /\ routing' = [localOnly |-> localOnly, override |-> o]
        /\ UNCHANGED <<config, discovered, verdict, probe, chat, starts, overtaken>>
    BY DEF SetRouting
  <1>3. Counted' /\ ProviderRecords'
    BY <1>1, <1>2, Changes DEF Counted, ProviderRecords
  <1>4. \A q \in Provider \ overtaken' : Current(q)'
    BY <1>1, <1>2 DEF Current
  <1> QED BY <1>3, <1>4, ProvidersNow

LEMMA StartProbeKeeps ==
  ASSUME ProvidersInv, NEW r \in Probe, NEW p \in Provider, StartProbe(r, p)
  PROVE  ProvidersInv'
  <1>1. Counted /\ ProviderRecords /\ \A q \in Provider \ overtaken : Current(q)
    BY ProvidersHave
  <1>2. UNCHANGED <<settings, discovered, chat, overtaken>> /\ UNCHANGED <<config, routing, connections, starts>>
    BY DEF StartProbe, settings
  <1>3. config[p].connection \in 0..connections
    BY <1>1 DEF ProviderRecords, Configs
  <1>4. CASE /\ probe' = [probe EXCEPT ![r].at = "done"]
             /\ verdict' = [verdict EXCEPT ![p] = [of |-> config[p].connection, ok |-> FALSE, is |-> TRUE]]
    <2>1. /\ probe' \in Probes(connections)
          /\ \A s \in Probe : /\ probe'[s].p = probe[s].p /\ probe'[s].connection = probe[s].connection
                              /\ probe'[s].at \in {"validating", "listing"} => probe[s].at = probe'[s].at
      BY <1>1, <1>4 DEF ProviderRecords, Probes
    <2>2. /\ verdict' \in Verdicts(connections) /\ verdict'[p].of = config[p].connection
          /\ \A q \in Provider \ {p} : verdict'[q] = verdict[q]
      BY <1>1, <1>3, <1>4 DEF ProviderRecords, Verdicts
    <2>3. Counted' /\ ProviderRecords'
      BY <1>1, <1>2, <2>1, <2>2 DEF Counted, ProviderRecords
    <2>4. \A q \in Provider \ overtaken' : Current(q)'
      BY <1>1, <1>2, <2>1, <2>2 DEF Current
    <2> QED BY <2>3, <2>4, ProvidersNow
  <1>5. CASE /\ probe' = [probe EXCEPT ![r] = [at |-> "validating", p |-> {p}, connection |-> config[p].connection]]
             /\ UNCHANGED verdict
    <2>1. /\ probe' \in Probes(connections) /\ probe'[r].p = {p} /\ probe'[r].connection = config[p].connection
          /\ \A s \in Probe \ {r} : probe'[s] = probe[s]
      BY <1>1, <1>3, <1>5 DEF ProviderRecords, Probes
    <2>2. Counted' /\ ProviderRecords'
      BY <1>1, <1>2, <1>5, <2>1 DEF Counted, ProviderRecords
    <2>3. ASSUME NEW q \in Provider \ overtaken'
          PROVE  Current(q)'
      <3>1. Current(q)
        BY <1>1, <1>2, <2>3
      <3>2. \A s \in Probe : probe'[s].p = {q} /\ probe'[s].at \in {"validating", "listing"} =>
              probe'[s].connection = config[q].connection
        <4> TAKE s \in Probe
        <4>1. CASE s = r
          BY <2>1, <4>1
        <4>2. CASE s # r
          BY <2>1, <3>1, <4>2 DEF Current
        <4> QED BY <4>1, <4>2
      <3> QED BY <1>2, <1>5, <3>1, <3>2 DEF Current
    <2> QED BY <2>2, <2>3, ProvidersNow
  <1> QED BY <1>4, <1>5 DEF StartProbe

LEMMA ValidatedKeeps ==
  ASSUME ProvidersInv, NEW r \in Probe, NEW ok \in BOOLEAN, Validated(r, ok)
  PROVE  ProvidersInv'
  <1>1. Counted /\ ProviderRecords /\ \A q \in Provider \ overtaken : Current(q)
    BY ProvidersHave
  <1>2. UNCHANGED <<config, routing, connections, starts, discovered, chat, overtaken>> /\ probe[r].at = "validating"
    BY DEF Validated, settings
  <1>3. /\ probe' = [probe EXCEPT ![r].at = IF ok THEN "listing" ELSE "done"]
        /\ verdict' = [p \in Provider |-> IF p \in probe[r].p THEN [of |-> probe[r].connection, ok |-> ok, is |-> TRUE]
                                          ELSE verdict[p]]
    BY DEF Validated
  <1>4. /\ probe' \in Probes(connections)
        /\ \A s \in Probe : /\ probe'[s].p = probe[s].p /\ probe'[s].connection = probe[s].connection
                            /\ probe'[s].at \in {"validating", "listing"} => probe[s].at \in {"validating", "listing"}
    BY <1>1, <1>2, <1>3 DEF ProviderRecords, Probes
  <1>5. probe[r].connection \in 0..connections /\ probe[r].p \in {{}} \cup {{p} : p \in Provider}
    BY <1>1 DEF ProviderRecords, Probes
  <1>6. /\ verdict' \in Verdicts(connections)
        /\ \A q \in Provider : IF q \in probe[r].p THEN verdict'[q].of = probe[r].connection ELSE verdict'[q] = verdict[q]
    BY <1>1, <1>3, <1>5 DEF ProviderRecords, Verdicts
  <1>7. Counted' /\ ProviderRecords'
    BY <1>1, <1>2, <1>4, <1>6 DEF Counted, ProviderRecords
  <1>8. ASSUME NEW q \in Provider \ overtaken'
        PROVE  Current(q)'
    <2>1. Current(q)
      BY <1>1, <1>2, <1>8
    <2>2. q \in probe[r].p => probe[r].connection = config[q].connection
      BY <1>2, <1>5, <2>1 DEF Current
    <2> QED BY <1>2, <1>4, <1>6, <1>8, <2>1, <2>2 DEF Current
  <1> QED BY <1>7, <1>8, ProvidersNow

LEMMA ListedKeeps ==
  ASSUME ProvidersInv, NEW r \in Probe, Listed(r)
  PROVE  ProvidersInv'
  <1>1. Counted /\ ProviderRecords /\ \A q \in Provider \ overtaken : Current(q)
    BY ProvidersHave
  <1>2. /\ probe[r].at = "listing" /\ probe' = [probe EXCEPT ![r].at = "done"]
        /\ UNCHANGED <<routing, connections, starts, verdict, chat, overtaken>>
    BY DEF Listed
  <1>3. /\ probe' \in Probes(connections)
        /\ \A s \in Probe : /\ probe'[s].p = probe[s].p /\ probe'[s].connection = probe[s].connection
                            /\ probe'[s].at \in {"validating", "listing"} => probe[s].at = probe'[s].at
    BY <1>1, <1>2 DEF ProviderRecords, Probes
  <1>4. probe[r].connection \in 0..connections /\ probe[r].p \in {{}} \cup {{p} : p \in Provider}
    BY <1>1 DEF ProviderRecords, Probes
  <1>5. CASE UNCHANGED <<discovered, config>>
    <2>1. Counted' /\ ProviderRecords'
      BY <1>1, <1>2, <1>3, <1>5 DEF Counted, ProviderRecords
    <2>2. \A q \in Provider \ overtaken' : Current(q)'
      BY <1>1, <1>2, <1>3, <1>5 DEF Current
    <2> QED BY <2>1, <2>2, ProvidersNow
  <1>6. CASE /\ discovered' = [p \in Provider |-> IF p \in probe[r].p THEN probe[r].connection ELSE discovered[p]]
             /\ PersistDiscovered(r)
    <2>1. /\ discovered' \in [Provider -> 0..connections]
          /\ \A q \in Provider : discovered'[q] = IF q \in probe[r].p THEN probe[r].connection ELSE discovered[q]
      BY <1>1, <1>4, <1>6 DEF ProviderRecords
    <2>2. \A q \in Provider : [config[q] EXCEPT !.listed = probe[r].connection] \in
                                [enabled : BOOLEAN, key : BOOLEAN, connection : 0..connections, listed : 0..connections]
      BY <1>1, <1>4 DEF ProviderRecords, Configs
    <2>3. /\ config' \in Configs(connections)
          /\ \A q \in Provider : /\ config'[q].connection = config[q].connection
                                 /\ config'[q].listed = IF q \in probe[r].p THEN probe[r].connection ELSE config[q].listed
      BY <1>1, <1>4, <1>6, <2>2 DEF ProviderRecords, Configs, PersistDiscovered
    <2>4. Counted' /\ ProviderRecords'
      BY <1>1, <1>2, <1>3, <2>1, <2>3 DEF Counted, ProviderRecords
    <2>5. ASSUME NEW q \in Provider \ overtaken'
          PROVE  Current(q)'
      <3>1. Current(q)
        BY <1>1, <1>2, <2>5
      <3>2. q \in probe[r].p => probe[r].connection = config[q].connection
        BY <1>2, <1>4, <3>1 DEF Current
      <3> QED BY <1>2, <1>3, <2>1, <2>3, <2>5, <3>1, <3>2 DEF Current
    <2> QED BY <2>4, <2>5, ProvidersNow
  <1> QED BY <1>5, <1>6 DEF Listed

\* A call of a model touches nothing that is known of connections.
LEMMA ChatKeeps ==
  ASSUME ProvidersInv, NEW c \in Chat,
         (\E p \in Provider : Route(c, p)) \/ OpenChat(c) \/ Stream(c) \/ FinishChat(c) \/ AbortChat(c)
  PROVE  ProvidersInv'
  <1>1. Counted /\ ProviderRecords /\ \A q \in Provider \ overtaken : Current(q)
    BY ProvidersHave
  <1>2. UNCHANGED <<config, routing, connections, starts, discovered, verdict, probe, overtaken>>
    BY DEF Route, OpenChat, Stream, FinishChat, AbortChat, settings
  <1>3. chat' \in Chats
    <2>1. chat \in Chats
      BY <1>1 DEF ProviderRecords
    <2>2. ASSUME NEW p \in Provider, Route(c, p)
          PROVE  chat' \in Chats
      <3> DEFINE C == [at : {"none", "routed", "open", "ended"}, p : {{}} \cup {{q} : q \in Provider},
                       spent : BOOLEAN, recorded : BOOLEAN]
                 rec == [NoChat EXCEPT !.at = "routed", !.p = {p}]
      <3>1. NoChat \in C
        BY DEF NoChat
      <3>2. rec \in C
        BY <3>1
      <3>3. chat' = [chat EXCEPT ![c] = rec]
        BY <2>2 DEF Route
      <3> HIDE DEF rec
      <3> QED BY <2>1, <3>2, <3>3 DEF Chats
    <2>3. CASE OpenChat(c)
      BY <2>1, <2>3 DEF OpenChat, Chats
    <2>4. CASE Stream(c)
      BY <2>1, <2>4 DEF Stream, Chats
    <2>5. CASE FinishChat(c)
      BY <2>1, <2>5 DEF FinishChat, Chats
    <2>6. CASE AbortChat(c)
      BY <2>1, <2>6 DEF AbortChat, Chats
    <2> QED BY <2>2, <2>3, <2>4, <2>5, <2>6
  <1>4. Counted' /\ ProviderRecords'
    BY <1>1, <1>2, <1>3 DEF Counted, ProviderRecords
  <1>5. \A q \in Provider \ overtaken' : Current(q)'
    BY <1>1, <1>2 DEF Current
  <1> QED BY <1>4, <1>5, ProvidersNow

LEMMA NewProcessKeeps ==
  ASSUME ProvidersInv, NewProcess
  PROVE  ProvidersInv'
  <1>1. Counted /\ ProviderRecords /\ (\A q \in Provider \ overtaken : Current(q)) /\ connections \in Nat
    BY ProvidersHave
  <1>2. /\ starts < MaxStarts /\ starts' = starts + 1 /\ UNCHANGED <<config, routing, connections, overtaken>>
        /\ discovered' = [p \in Provider |-> 0] /\ verdict' = [p \in Provider |-> NoVerdict]
        /\ probe' = [r \in Probe |-> IF probe[r].at = "none" THEN NoProbe ELSE [NoProbe EXCEPT !.at = "done"]]
        /\ chat' = [c \in Chat |-> IF chat[c].at = "none" THEN NoChat ELSE [chat[c] EXCEPT !.at = "ended"]]
    BY DEF NewProcess
  <1>3. starts' \in 0..MaxStarts
    BY <1>1, <1>2, ProviderAssumption DEF Counted
  <1>4. verdict' \in Verdicts(connections) /\ \A q \in Provider : ~verdict'[q].is
    BY <1>1, <1>2 DEF NoVerdict, Verdicts
  <1>5. discovered' \in [Provider -> 0..connections] /\ \A q \in Provider : discovered'[q] = 0
    BY <1>1, <1>2
  <1>6. probe' \in Probes(connections) /\ \A r \in Probe : probe'[r].at \in {"none", "done"}
    BY <1>1, <1>2 DEF NoProbe, Probes
  <1>7. chat' \in Chats
    BY <1>1, <1>2 DEF NoChat, Chats, ProviderRecords
  <1>8. Counted' /\ ProviderRecords'
    BY <1>1, <1>2, <1>3, <1>4, <1>5, <1>6, <1>7 DEF Counted, ProviderRecords
  <1>9. \A q \in Provider \ overtaken' : Current(q)'
    BY <1>1, <1>2, <1>4, <1>5, <1>6 DEF Current
  <1> QED BY <1>8, <1>9, ProvidersNow

LEMMA ProvidersInitInv ==
  ASSUME ProvidersInit
  PROVE  ProvidersInv
  <1>1. connections = 0 /\ Counted
    BY ProviderAssumption DEF ProvidersInit, Counted
  <1>2. config \in Configs(0) /\ verdict \in Verdicts(0) /\ probe \in Probes(0) /\ discovered \in [Provider -> 0..0]
    BY DEF ProvidersInit, NoConfig, NoVerdict, NoProbe, Configs, Verdicts, Probes
  <1>3. chat \in Chats
    BY DEF ProvidersInit, NoChat, Chats
  <1>4. ProviderRecords
    BY <1>1, <1>2, <1>3 DEF ProviderRecords
  <1>5. \A p \in Provider : Current(p)
    BY DEF ProvidersInit, Current, NoConfig, NoVerdict, NoProbe
  <1> QED BY <1>1, <1>4, <1>5, ProviderTypes DEF ProvidersInv

\* One step per action of Providers.
LEMMA ProvidersStepKeeps ==
  ASSUME ProvidersInv, [ProvidersNext]_providerVars
  PROVE  ProvidersInv'
  <1>1. ASSUME NEW p \in Provider, Enable(p) \/ (\E key \in BOOLEAN : ConnectTo(p, key))
        PROVE  ProvidersInv'
    BY <1>1, EnableKeeps, ConnectToKeeps
  <1>2. ASSUME NEW localOnly \in BOOLEAN, NEW o \in {{}} \cup {{p} : p \in Provider}, SetRouting(localOnly, o)
        PROVE  ProvidersInv'
    BY <1>2, SetRoutingKeeps
  <1>3. ASSUME NEW r \in Probe,
               (\E p \in Provider : StartProbe(r, p)) \/ (\E ok \in BOOLEAN : Validated(r, ok)) \/ Listed(r)
        PROVE  ProvidersInv'
    BY <1>3, StartProbeKeeps, ValidatedKeeps, ListedKeeps
  <1>4. ASSUME NEW c \in Chat,
               (\E p \in Provider : Route(c, p)) \/ OpenChat(c) \/ Stream(c) \/ FinishChat(c) \/ AbortChat(c)
        PROVE  ProvidersInv'
    BY <1>4, ChatKeeps
  <1>5. CASE NewProcess
    BY <1>5, NewProcessKeeps
  <1>6. CASE UNCHANGED providerVars
    <2>1. Counted /\ ProviderRecords /\ \A q \in Provider \ overtaken : Current(q)
      BY ProvidersHave
    <2>2. Counted' /\ ProviderRecords' /\ \A q \in Provider \ overtaken' : Current(q)'
      BY <1>6, <2>1 DEF providerVars, Counted, ProviderRecords, Current
    <2> QED BY <2>2, ProvidersNow
  <1> QED BY <1>1, <1>2, <1>3, <1>4, <1>5, <1>6 DEF ProvidersNext

\* Whatever changes of settings, validations, listings and new processes
\* overlap (registry.ts): the variables keep their types, and whatever is known
\* of a provider, kept in memory or in the settings or still on its way, is of
\* the connection it is used with, unless it was reconfigured meanwhile.
THEOREM ProvidersInvHolds == ProvidersSpec => []ProvidersInv
  <1> QED BY ProvidersInitInv, ProvidersStepKeeps, PTL DEF ProvidersSpec

\* The verdict shown and the models offered for a provider are those of its key
\* and URL, or of none, unless it was reconfigured while it was contacted
\* (configure, validate and listModels of registry.ts).
THEOREM WhatIsKnownIsCurrentHolds == ProvidersSpec => []WhatIsKnownIsCurrent
  <1>1. ProvidersInv => WhatIsKnownIsCurrent
    BY DEF ProvidersInv, WhatIsKnownIsCurrent, ListedUnder, Current
  <1> QED BY <1>1, ProvidersInvHolds, PTL

-----------------------------------------------------------------------------
(* Secrets                                                                  *)

Held(s) == ref[s] # 0 /\ vault[s] # 0

LEMMA HeldResolves ==
  ASSUME NEW s
  PROVE  Resolves({s}) <=> Held(s)
  BY DEF Resolves, Held

LEMMA VersionCounts ==
  ASSUME SecretsTypeOK
  PROVE  version \in Nat /\ version \in 0..MaxVersions /\ MaxVersions \in Nat
  <1>1. version \in 0..MaxVersions
    BY DEF SecretsTypeOK
  <1> QED BY <1>1, MaxVersionsAssumption

\* A value is written: what is held stays held.
LEMMA WriteSecretTyped ==
  ASSUME SecretsTypeOK, NEW s \in Secret, NEW stop \in Cut, WriteSecret(s, stop),
         issued' \subseteq Secret, issued \cup {s} \subseteq issued'
  PROVE  SecretsTypeOK' /\ \A k \in Secret : Held(k) => Held(k)'
  <1>1. version \in Nat /\ version' = version + 1 /\ version' \in 0..MaxVersions
    <2>1. version < MaxVersions /\ version' = version + 1
      BY DEF WriteSecret
    <2> QED BY <2>1, VersionCounts
  <1>2. ref \in [Secret -> 0..version'] /\ vault \in [Secret -> 0..version']
    <2>1. 0..version \subseteq 0..version'
      BY <1>1
    <2> QED BY <2>1 DEF SecretsTypeOK
  <1>3. vault' = vault \/ vault' = [vault EXCEPT ![s] = version']
    BY <1>1 DEF WriteSecret
  <1>4. ref' = ref \/ (ref' = [ref EXCEPT ![s] = version'] /\ vault' = [vault EXCEPT ![s] = version'])
    BY <1>1 DEF WriteSecret
  <1>5. ref' \in [Secret -> 0..version'] /\ vault' \in [Secret -> 0..version']
    BY <1>1, <1>2, <1>3, <1>4
  <1>6. \A k \in Secret : Held(k) => Held(k)'
    BY <1>1, <1>2, <1>3, <1>4 DEF Held
  <1>7. \A k \in Secret : ref'[k] # 0 => vault'[k] # 0 /\ k \in issued'
    BY <1>1, <1>2, <1>3, <1>4 DEF SecretsTypeOK
  <1> QED BY <1>1, <1>5, <1>6, <1>7 DEF SecretsTypeOK

LEMMA StoredTyped ==
  ASSUME SecretsTypeOK, NEW s \in Secret, NEW stop \in Cut, SetSecret(s, stop) \/ RotateSecret(s, stop)
  PROVE  SecretsTypeOK' /\ \A k \in Secret : Held(k) => Held(k)'
  BY WriteSecretTyped DEF SetSecret, RotateSecret, SecretsTypeOK

\* Secrets are dropped: the others are held as before.
LEMMA DroppedTyped ==
  ASSUME SecretsTypeOK, NEW ids, NEW stop \in Cut, Dropped(ids, stop)
  PROVE  SecretsTypeOK' /\ \A k \in Secret \ ids : Held(k) => Held(k)'
  <1>1. version \in Nat /\ UNCHANGED <<issued, version>>
    BY VersionCounts DEF Dropped
  <1>2. /\ ref' = ref \/ ref' = [s \in Secret |-> IF s \in ids THEN 0 ELSE ref[s]]
        /\ \/ vault' = vault
           \/ /\ vault' = [s \in Secret |-> IF s \in ids THEN 0 ELSE vault[s]]
              /\ ref' = [s \in Secret |-> IF s \in ids THEN 0 ELSE ref[s]]
    BY DEF Dropped
  <1>3. ref' \in [Secret -> 0..version] /\ vault' \in [Secret -> 0..version]
    BY <1>1, <1>2 DEF SecretsTypeOK
  <1>4. \A k \in Secret \ ids : Held(k) => Held(k)'
    BY <1>2 DEF Held
  <1>5. \A k \in Secret : ref'[k] # 0 => vault'[k] # 0 /\ k \in issued
    BY <1>2 DEF SecretsTypeOK
  <1> QED BY <1>1, <1>3, <1>4, <1>5 DEF SecretsTypeOK

LEMMA SecretsInitTyped ==
  ASSUME SecretsInit
  PROVE  SecretsTypeOK /\ \A s \in issued : Held(s)
  <1>1. CASE issued = {}
    <2>1. version = 0
      BY <1>1, FS_EmptySet DEF SecretsInit
    <2> QED BY <1>1, <2>1, MaxVersionsAssumption DEF SecretsInit, SecretsTypeOK, Held
  <1>2. ASSUME NEW s \in Secret, issued = {s}
        PROVE  SecretsTypeOK /\ \A k \in issued : Held(k)
    <2>1. version = 1
      BY <1>2, FS_Singleton DEF SecretsInit
    <2>2. ref = [k \in Secret |-> IF k = s THEN 1 ELSE 0] /\ vault = ref
      BY <1>2 DEF SecretsInit
    <2>3. 1 \in 0..MaxVersions
      BY MaxVersionsAssumption
    <2> QED BY <1>2, <2>1, <2>2, <2>3 DEF SecretsTypeOK, Held
  <1> QED BY <1>1, <1>2 DEF SecretsInit

-----------------------------------------------------------------------------
(* Deployments: targets and their secrets                                   *)

TargetRecord == [adapter : Adapter \cup {"none"}, config : BOOLEAN, secret : SUBSET Secret,
                 env : [EnvName -> SUBSET Secret]]

\* The secrets a target names, of its record.
Named(g) == g.secret \cup UNION {g.env[n] : n \in EnvName}

\* One secret or none in each place of a record, in no two the same.
Neat(g) ==
  /\ g.secret = {} \/ \E s \in Secret : g.secret = {s}
  /\ \A n \in EnvName : /\ g.env[n] = {} \/ \E s \in Secret : g.env[n] = {s}
                        /\ g.secret \cap g.env[n] = {}
                        /\ \A m \in EnvName : m = n \/ g.env[m] \cap g.env[n] = {}

\* The part of the invariant that edits of targets are about.
TargetsInv ==
  /\ SecretsTypeOK /\ gone \subseteq Secret /\ target \in [Target -> TargetRecord]
  /\ \A t \in Target : /\ Neat(target[t])
                       /\ \A s \in Named(target[t]) : Held(s) \/ s \in gone
                       /\ \A u \in Target : t = u \/ Named(target[t]) \cap Named(target[u]) = {}

RunsTyped ==
  /\ run \in [Run -> RunRecord]
  /\ deployRow \in [Run -> {"none", "running", "succeeded", "failed", "cancelled"}]
  /\ provider \in [Run -> {"none", "uploading", "building", "ready", "error"}]

LEMMA DeploymentParts == DeploymentInv <=> TargetsInv /\ RunsTyped /\ project \in Projects
  <1>1. \A t : SecretsOf(t) = Named(target[t])
    BY DEF SecretsOf, Named
  <1>2. TargetsHaveTheirSecrets <=> \A t \in Target : \A s \in Named(target[t]) : Held(s) \/ s \in gone
    BY <1>1, HeldResolves DEF TargetsHaveTheirSecrets
  <1>3. NamedOnce /\ OneEach <=>
          \A t \in Target : /\ Neat(target[t])
                            /\ \A u \in Target : t = u \/ Named(target[t]) \cap Named(target[u]) = {}
    <2>1. NamedOnce <=>
            /\ \A t, u \in Target : t = u \/ Named(target[t]) \cap Named(target[u]) = {}
            /\ \A t \in Target, n \in EnvName :
                 /\ target[t].secret \cap target[t].env[n] = {}
                 /\ \A m \in EnvName : m = n \/ target[t].env[m] \cap target[t].env[n] = {}
      BY <1>1 DEF NamedOnce
    <2>2. OneEach <=>
            \A t \in Target :
              /\ target[t].secret = {} \/ \E s \in Secret : target[t].secret = {s}
              /\ \A n \in EnvName : target[t].env[n] = {} \/ \E s \in Secret : target[t].env[n] = {s}
      BY DEF OneEach
    <2> HIDE <1>1
    <2> QED BY <2>1, <2>2 DEF Neat
  <1>4. run \in [Run -> RunRecord] => \A d \in Run : run[d].at \in {"none", "readying", "live", "finished", "over"}
    BY DEF RunRecord
  <1>5. DeployTypeOK /\ run \in [Run -> RunRecord] <=>
          project \in Projects /\ target \in [Target -> TargetRecord] /\ RunsTyped
    BY <1>4 DEF DeployTypeOK, TargetRecord, RunsTyped
  <1> QED BY <1>2, <1>3, <1>5 DEF DeploymentInv, TargetsInv

LEMMA DeploymentNow ==
  ASSUME TargetsInv', RunsTyped', UNCHANGED project, project \in Projects
  PROVE  DeploymentInv'
  <1>1. (TargetsInv /\ RunsTyped /\ project \in Projects)' <=> DeploymentInv'
    BY DeploymentParts, PTL
  <1>2. project' \in Projects
    OBVIOUS
  <1>3. Projects' = Projects
    BY DEF Projects
  <1> QED BY <1>1, <1>2, <1>3

LEMMA NamedIs ==
  ASSUME NEW g \in TargetRecord
  PROVE  /\ Named(g) \subseteq Secret
         /\ \A s : s \in Named(g) <=> s \in g.secret \/ \E n \in EnvName : s \in g.env[n]
  BY DEF Named, TargetRecord

\* Of a target to "next" and of secrets to drop: nothing that is dropped is
\* still named by this target or another.
LEMMA EditKeeps ==
  ASSUME TargetsInv, NEW t \in Target, NEW stop \in Cut, NEW old \in SUBSET Secret, NEW next \in TargetRecord,
         EditTarget(t, old, next, stop),
         Neat(next),
         \A s \in Named(next) : s \notin old /\ (Held(s) \/ s \in gone),
         \A u \in Target \ {t} : Named(target[u]) \cap (old \cup Named(next)) = {}
  PROVE  TargetsInv'
  <1>1. /\ SecretsTypeOK' /\ \A k \in Secret \ old : Held(k) => Held(k)'
        /\ target' = IF stop = "" THEN [target EXCEPT ![t] = next] ELSE target
        /\ gone' = IF stop = "" THEN gone ELSE gone \cup old
    BY DroppedTyped DEF EditTarget, TargetsInv
  <1>2. \A u \in Target : target[u] \in TargetRecord /\ Named(target[u]) \subseteq Secret
    BY NamedIs DEF TargetsInv
  <1>3. Named(next) \subseteq Secret
    BY NamedIs
  <1>4. CASE stop = ""
    <2>1. /\ target' \in [Target -> TargetRecord] /\ target'[t] = next /\ gone' = gone
          /\ \A u \in Target \ {t} : target'[u] = target[u]
      BY <1>1, <1>4 DEF TargetsInv
    <2>2. \A u \in Target : Neat(target'[u])
      BY <2>1 DEF TargetsInv
    <2>3. ASSUME NEW u \in Target, NEW s \in Named(target'[u])
          PROVE  Held(s)' \/ s \in gone'
      BY <1>1, <1>2, <1>3, <2>1, <2>3 DEF TargetsInv
    <2>4. ASSUME NEW u \in Target, NEW v \in Target, u # v
          PROVE  Named(target'[u]) \cap Named(target'[v]) = {}
      <3>1. CASE u # t /\ v # t
        BY <2>1, <2>4, <3>1 DEF TargetsInv
      <3>2. CASE u = t
        <4>1. v \in Target \ {t} /\ target'[u] = next /\ target'[v] = target[v]
          BY <2>1, <2>4, <3>2
        <4> QED BY <4>1
      <3>3. CASE v = t
        <4>1. u \in Target \ {t} /\ target'[v] = next /\ target'[u] = target[u]
          BY <2>1, <2>4, <3>3
        <4> QED BY <4>1
      <3> QED BY <3>1, <3>2, <3>3
    <2>5. \A u \in Target : Neat(target[u])' /\ (Named(target[u]))' = Named(target'[u])
      BY <2>2 DEF Neat, Named
    <2>6. gone' \subseteq Secret
      BY <2>1 DEF TargetsInv
    <2> QED BY <1>1, <2>1, <2>3, <2>4, <2>5, <2>6 DEF TargetsInv
  <1>5. CASE stop # ""
    <2>1. target' = target /\ gone' = gone \cup old
      BY <1>1, <1>5
    <2>2. \A u \in Target : Neat(target[u])' /\ (Named(target[u]))' = Named(target[u])
      BY <2>1 DEF TargetsInv, Neat, Named
    <2>3. \A u \in Target : \A s \in Named(target[u]) : Held(s)' \/ s \in gone'
      BY <1>1, <1>2, <2>1 DEF TargetsInv
    <2> QED BY <1>1, <2>1, <2>2, <2>3 DEF TargetsInv
  <1> QED BY <1>4, <1>5

\* No target is edited, and what is held stays held or is known to be gone.
LEMMA ValuesKeep ==
  ASSUME TargetsInv, SecretsTypeOK', UNCHANGED target, gone \subseteq gone', gone' \subseteq Secret,
         \A k \in Secret : Held(k) => Held(k)' \/ k \in gone'
  PROVE  TargetsInv'
  <1>1. \A u \in Target : Named(target[u]) \subseteq Secret
    BY NamedIs DEF TargetsInv
  <1>2. \A u \in Target : \A s \in Named(target[u]) : Held(s)' \/ s \in gone'
    BY <1>1 DEF TargetsInv
  <1>3. \A u \in Target : Neat(target[u])' /\ (Named(target[u]))' = Named(target[u])
    BY DEF TargetsInv, Neat, Named
  <1> QED BY <1>2, <1>3 DEF TargetsInv

LEMMA KilledTyped ==
  ASSUME RunsTyped, Killed
  PROVE  run' \in [Run -> RunRecord]
  <1>1. [NoRun EXCEPT !.at = "over"] \in RunRecord
    <2>1. NoRun \in RunRecord
      BY DEF NoRun, RunRecord
    <2> QED BY <2>1 DEF RunRecord
  <1> QED BY <1>1 DEF RunsTyped, Killed

LEMMA SurvivesTyped ==
  ASSUME RunsTyped, NEW stop, Survives(stop)
  PROVE  run' \in [Run -> RunRecord]
  BY KilledTyped DEF Survives, RunsTyped

LEMMA StoreValueKeeps ==
  ASSUME DeploymentInv, NEW s \in Secret, NEW stop \in Cut,
         StoreValue(s, stop) \/ RotateValue(s, stop) \/ DeleteValue(s, stop)
  PROVE  DeploymentInv'
  <1>1. TargetsInv /\ RunsTyped /\ project \in Projects
    BY DeploymentParts
  <1>2. Survives(stop) /\ UNCHANGED <<project, deployRow, provider, target>>
    BY DEF StoreValue, RotateValue, DeleteValue, untouched
  <1>3. RunsTyped'
    BY <1>1, <1>2, SurvivesTyped DEF RunsTyped
  <1>4. ASSUME StoreValue(s, stop) \/ RotateValue(s, stop)
        PROVE  TargetsInv'
    <2>1. (SetSecret(s, stop) \/ RotateSecret(s, stop)) /\ UNCHANGED gone
      BY <1>4 DEF StoreValue, RotateValue
    <2>2. SecretsTypeOK' /\ \A k \in Secret : Held(k) => Held(k)'
      BY <1>1, <2>1, StoredTyped DEF TargetsInv
    <2>3. gone' \subseteq Secret
      BY <1>1, <2>1 DEF TargetsInv
    <2> QED BY <1>1, <1>2, <2>1, <2>2, <2>3, ValuesKeep
  <1>5. ASSUME DeleteValue(s, stop)
        PROVE  TargetsInv'
    <2>1. Dropped({s}, stop) /\ gone' = gone \cup {s}
      BY <1>5 DEF DeleteValue
    <2>2. SecretsTypeOK' /\ \A k \in Secret \ {s} : Held(k) => Held(k)'
      BY <1>1, <2>1, DroppedTyped DEF TargetsInv
    <2>3. gone \subseteq gone' /\ gone' \subseteq Secret /\ \A k \in Secret : Held(k) => Held(k)' \/ k \in gone'
      BY <1>1, <2>1, <2>2 DEF TargetsInv
    <2> QED BY <1>1, <1>2, <2>2, <2>3, ValuesKeep
  <1> QED BY <1>1, <1>2, <1>3, <1>4, <1>5, DeploymentNow

\* What the panel offers for a place of a target: nothing, what is there, or a
\* value that was stored for it just now.
LEMMA Offered ==
  ASSUME TargetsInv, NEW was \in SUBSET Secret, NEW ids \in {{}, was} \cup Fresh,
         was = {} \/ \E s \in Secret : was = {s}
  PROVE  /\ ids \in SUBSET Secret /\ (ids = {} \/ \E s \in Secret : ids = {s})
         /\ ids = {} \/ ids = was \/ \A u \in Target : ids \cap Named(target[u]) = {}
         /\ Resolves(ids) => \A s \in ids : Held(s)
  <1>1. \A u \in Target : SecretsOf(u) = Named(target[u])
    BY DEF SecretsOf, Named
  <1>2. CASE ids \in {{}, was}
    BY <1>2 DEF Resolves, Held
  <1>3. CASE ids \in Fresh
    <2>1. PICK s \in Secret \ UNION {SecretsOf(u) : u \in Target} : ids = {s}
      BY <1>3 DEF Fresh
    <2>2. \A u \in Target : s \notin Named(target[u])
      BY <1>1, <2>1
    <2> QED BY <2>1, <2>2 DEF Resolves, Held
  <1> QED BY <1>2, <1>3

LEMMA UpsertTargetKeeps ==
  ASSUME DeploymentInv, NEW t \in Target, NEW stop \in Cut, NEW a \in Adapter, NEW given \in BOOLEAN,
         NEW ids \in {{}, target[t].secret} \cup Fresh, UpsertTarget(t, a, given, ids, stop)
  PROVE  DeploymentInv'
  <1>1. TargetsInv /\ RunsTyped /\ project \in Projects
    BY DeploymentParts
  <1> DEFINE was == target[t]
             kept == IF ids = {} THEN was.secret ELSE ids
             old == IF ids = {} THEN {} ELSE was.secret \ ids
             next == [was EXCEPT !.adapter = a, !.config = given, !.secret = kept]
  <1>2. /\ ids # {} => Resolves(ids)
        /\ EditTarget(t, old, next, stop) /\ UNCHANGED <<project, deployRow, provider>>
    BY DEF UpsertTarget, untouched
  <1>3. was \in TargetRecord /\ Neat(was)
    BY <1>1 DEF TargetsInv
  <1>4. was.secret \in SUBSET Secret /\ (was.secret = {} \/ \E s \in Secret : was.secret = {s})
    BY <1>3 DEF TargetRecord, Neat
  <1>5. /\ ids \in SUBSET Secret /\ (ids = {} \/ \E s \in Secret : ids = {s})
        /\ ids = {} \/ ids = was.secret \/ \A u \in Target : ids \cap Named(target[u]) = {}
        /\ ids # {} => \A s \in ids : Held(s)
    BY <1>1, <1>2, <1>4, Offered
  <1>6. kept \in SUBSET Secret /\ old \in SUBSET Secret
    BY <1>4, <1>5
  <1>7. next \in TargetRecord /\ next.secret = kept /\ next.env = was.env
    BY <1>3, <1>6 DEF TargetRecord
  <1>8. \A s : s \in Named(was) <=> s \in was.secret \/ \E n \in EnvName : s \in was.env[n]
    BY <1>3, NamedIs
  <1>9. \A s : s \in Named(next) <=> s \in kept \/ \E n \in EnvName : s \in was.env[n]
    BY <1>7, NamedIs
  <1>10. \A s \in Named(was) : Held(s) \/ s \in gone
    BY <1>1 DEF TargetsInv
  <1>11. \A u \in Target \ {t} : Named(target[u]) \cap Named(was) = {}
    BY <1>1 DEF TargetsInv
  <1>12. kept = was.secret \/ \A u \in Target : kept \cap Named(target[u]) = {}
    BY <1>5
  <1>13. kept = {} \/ \E s \in Secret : kept = {s}
    BY <1>4, <1>5
  <1>14. \A s \in kept : s \notin old /\ (Held(s) \/ s \in gone)
    BY <1>5, <1>8, <1>10
  <1>15. old \subseteq was.secret
    OBVIOUS
  <1>16. RunsTyped'
    BY <1>1, <1>2, SurvivesTyped DEF RunsTyped, EditTarget
  <1> HIDE DEF next, old, kept, was
  <1>17. Neat(next)
    BY <1>3, <1>7, <1>8, <1>12, <1>13 DEF Neat, was
  <1>18. \A s \in Named(next) : s \notin old /\ (Held(s) \/ s \in gone)
    BY <1>3, <1>8, <1>9, <1>10, <1>14, <1>15 DEF Neat
  <1>19. \A u \in Target \ {t} : Named(target[u]) \cap (old \cup Named(next)) = {}
    BY <1>8, <1>9, <1>11, <1>12, <1>15
  <1>20. TargetsInv'
    BY <1>1, <1>2, <1>6, <1>7, <1>17, <1>18, <1>19, EditKeeps
  <1> QED BY <1>1, <1>2, <1>16, <1>20, DeploymentNow

LEMMA SetEnvKeeps ==
  ASSUME DeploymentInv, NEW t \in Target, NEW stop \in Cut, NEW n \in EnvName,
         NEW ids \in {{}, target[t].env[n]} \cup Fresh, SetEnv(t, n, ids, stop)
  PROVE  DeploymentInv'
  <1>1. TargetsInv /\ RunsTyped /\ project \in Projects
    BY DeploymentParts
  <1> DEFINE was == target[t]
             old == was.env[n] \ ids
             next == [was EXCEPT !.env[n] = ids]
  <1>2. /\ ids # {} => Resolves(ids)
        /\ EditTarget(t, old, next, stop) /\ UNCHANGED <<project, deployRow, provider>>
    BY DEF SetEnv, untouched
  <1>3. was \in TargetRecord /\ Neat(was)
    BY <1>1 DEF TargetsInv
  <1>4. was.env[n] \in SUBSET Secret /\ (was.env[n] = {} \/ \E s \in Secret : was.env[n] = {s})
    BY <1>3 DEF TargetRecord, Neat
  <1>5. /\ ids \in SUBSET Secret /\ (ids = {} \/ \E s \in Secret : ids = {s})
        /\ ids = {} \/ ids = was.env[n] \/ \A u \in Target : ids \cap Named(target[u]) = {}
        /\ ids # {} => \A s \in ids : Held(s)
    BY <1>1, <1>2, <1>4, Offered
  <1>6. /\ next \in TargetRecord /\ next.secret = was.secret /\ next.env[n] = ids
        /\ \A m \in EnvName : m # n => next.env[m] = was.env[m]
    BY <1>3, <1>5 DEF TargetRecord
  <1>7. \A s : s \in Named(was) <=> s \in was.secret \/ \E m \in EnvName : s \in was.env[m]
    BY <1>3, NamedIs
  <1>8. \A s : s \in Named(next) <=> s \in was.secret \/ \E m \in EnvName : s \in next.env[m]
    BY <1>6, NamedIs
  <1>9. \A s \in Named(was) : Held(s) \/ s \in gone
    BY <1>1 DEF TargetsInv
  <1>10. \A u \in Target \ {t} : Named(target[u]) \cap Named(was) = {}
    BY <1>1 DEF TargetsInv
  <1>11. old \subseteq was.env[n] /\ old \cap ids = {} /\ old \in SUBSET Secret
    BY <1>4
  <1>12. RunsTyped'
    BY <1>1, <1>2, SurvivesTyped DEF RunsTyped, EditTarget
  <1>13. ids = {} \/ ids = was.env[n] \/ ids \cap Named(was) = {}
    BY <1>5
  <1> HIDE DEF next, old, was
  <1>14. Neat(next)
    BY <1>3, <1>5, <1>6, <1>7, <1>13 DEF Neat
  <1>15. \A s \in Named(next) : s \notin old /\ (Held(s) \/ s \in gone)
    <2> TAKE s \in Named(next)
    <2>1. CASE s \in ids
      BY <1>5, <1>7, <1>9, <1>11, <2>1
    <2>2. CASE s \notin ids
      <3>1. s \in was.secret \/ \E m \in EnvName : m # n /\ s \in was.env[m]
        BY <1>6, <1>8, <2>2
      <3> QED BY <1>3, <1>7, <1>9, <1>11, <3>1 DEF Neat
    <2> QED BY <2>1, <2>2
  <1>16. \A s \in Named(next) : s \in ids \/ s \in Named(was)
    BY <1>6, <1>7, <1>8
  <1>17. \A u \in Target \ {t} : Named(target[u]) \cap (old \cup Named(next)) = {}
    BY <1>5, <1>7, <1>10, <1>11, <1>16
  <1>18. TargetsInv'
    BY <1>1, <1>2, <1>6, <1>11, <1>14, <1>15, <1>17, EditKeeps
  <1> QED BY <1>1, <1>2, <1>12, <1>18, DeploymentNow

LEMMA DeleteTargetKeeps ==
  ASSUME DeploymentInv, NEW t \in Target, NEW stop \in Cut, DeleteTarget(t, stop)
  PROVE  DeploymentInv'
  <1>1. TargetsInv /\ RunsTyped /\ project \in Projects
    BY DeploymentParts
  <1>2. /\ EditTarget(t, Named(target[t]), NoTarget, stop) /\ UNCHANGED <<project, provider>>
        /\ deployRow' = IF stop = "" THEN [d \in Run |-> IF t \in run[d].on THEN "none" ELSE deployRow[d]]
                        ELSE deployRow
    BY DEF DeleteTarget, SecretsOf, Named
  <1>3. NoTarget \in TargetRecord
    BY DEF NoTarget, TargetRecord
  <1>4. Named(NoTarget) = {} /\ Neat(NoTarget)
    BY DEF NoTarget, Named, Neat
  <1>5. Named(target[t]) \in SUBSET Secret
    BY <1>1, NamedIs DEF TargetsInv
  <1>6. \A u \in Target \ {t} : Named(target[u]) \cap (Named(target[t]) \cup Named(NoTarget)) = {}
    BY <1>1, <1>4 DEF TargetsInv
  <1>7. TargetsInv'
    BY <1>1, <1>2, <1>3, <1>4, <1>5, <1>6, EditKeeps
  <1>8. run' \in [Run -> RunRecord]
    BY <1>1, <1>2, SurvivesTyped DEF EditTarget
  <1>9. RunsTyped'
    BY <1>1, <1>2, <1>8 DEF RunsTyped
  <1> QED BY <1>1, <1>2, <1>7, <1>9, DeploymentNow

-----------------------------------------------------------------------------
(* Deployments: the runs                                                    *)

LEMMA PhasesTyped ==
  ASSUME NEW t \in Target
  PROVE  Phases(t) \in Seq(PhaseName)
  <1>1. /\ <<>> \in Seq(PhaseName) /\ <<"env">> \in Seq(PhaseName) /\ <<"build", "site">> \in Seq(PhaseName)
        /\ <<"upload", "create", "poll">> \in Seq(PhaseName) /\ <<"create", "upload", "poll">> \in Seq(PhaseName)
        /\ <<"dockerfile", "image">> \in Seq(PhaseName)
    BY DEF PhaseName
  <1>2. \A s1, s2 \in Seq(PhaseName) : s1 \o s2 \in Seq(PhaseName)
    OBVIOUS
  <1>3. \A env \in Seq(PhaseName) : /\ VercelPhases(env) \in Seq(PhaseName) /\ NetlifyPhases(env) \in Seq(PhaseName)
                                    /\ CloudflarePhases(env) \in Seq(PhaseName)
    BY <1>1, <1>2 DEF VercelPhases, NetlifyPhases, CloudflarePhases
  <1>4. DockerPhases \in Seq(PhaseName)
    BY <1>1 DEF DockerPhases
  <1> QED BY <1>1, <1>3, <1>4 DEF Phases

\* A step of a run leaves the targets, the secrets and the project alone.
LEMMA RunsMove ==
  ASSUME DeploymentInv, UNCHANGED <<secretVars, project, target, gone>>, RunsTyped'
  PROVE  DeploymentInv'
  <1>1. TargetsInv /\ project \in Projects
    BY DeploymentParts
  <1>2. UNCHANGED <<ref, vault, issued, version, project, target, gone>>
    BY DEF secretVars
  <1>3. SecretsTypeOK'
    BY <1>1, <1>2 DEF TargetsInv, SecretsTypeOK
  <1>4. \A k \in Secret : Held(k) => Held(k)'
    BY <1>2 DEF Held
  <1>5. TargetsInv'
    BY <1>1, <1>2, <1>3, <1>4, ValuesKeep DEF TargetsInv
  <1> QED BY <1>1, <1>5, DeploymentNow

LEMMA RecordOfRun ==
  ASSUME DeploymentInv, NEW d \in Run
  PROVE  RunsTyped /\ run[d] \in RunRecord /\ (run[d].todo # <<>> => Tail(run[d].todo) \in Seq(PhaseName))
  <1>1. RunsTyped /\ run[d] \in RunRecord
    BY DeploymentParts DEF RunsTyped
  <1>2. run[d].todo \in Seq(PhaseName)
    BY <1>1 DEF RunRecord
  <1> QED BY <1>1, <1>2

LEMMA StartKeeps ==
  ASSUME DeploymentInv, NEW d \in Run, (\E t \in Target : Readying(d, t)) \/ Entered(d)
  PROVE  DeploymentInv'
  <1>1. RunsTyped /\ run[d] \in RunRecord /\ TargetsInv
    BY RecordOfRun, DeploymentParts
  <1>2. ASSUME NEW t \in Target, Readying(d, t)
        PROVE  RunsTyped'
    <2> DEFINE rec(on, a, todo, ready) ==
                 [NoRun EXCEPT !.at = "readying", !.on = on, !.adapter = a, !.todo = todo, !.ready = ready]
               ready == ReadinessOK(t)
    <2>1. NoRun \in RunRecord
      BY DEF NoRun, RunRecord
    <2>2. Phases(t) \in Seq(PhaseName) /\ target[t].adapter \in Adapter \cup {"none"} /\ {t} \in SUBSET Target
      BY <1>1, PhasesTyped DEF TargetsInv, TargetRecord
    <2>3. ready \in BOOLEAN
      BY DEF ReadinessOK
    <2>4. \A on \in SUBSET Target, a \in Adapter \cup {"none"}, todo \in Seq(PhaseName), b \in BOOLEAN :
            rec(on, a, todo, b) \in RunRecord
      BY <2>1 DEF RunRecord
    <2>5. run' = [run EXCEPT ![d] = rec({t}, target[t].adapter, Phases(t), ready)] /\ UNCHANGED <<deployRow, provider>>
      BY <1>2 DEF Readying
    <2> HIDE DEF rec, ready
    <2>6. rec({t}, target[t].adapter, Phases(t), ready) \in RunRecord
      BY <2>2, <2>3, <2>4
    <2> QED BY <1>1, <2>5, <2>6 DEF RunsTyped
  <1>3. ASSUME Entered(d)
        PROVE  RunsTyped'
    <2>1. \/ run' = [run EXCEPT ![d].at = "live"] /\ deployRow' = [deployRow EXCEPT ![d] = "running"]
          \/ run' = [run EXCEPT ![d].at = "over"] /\ UNCHANGED deployRow
      BY <1>3 DEF Entered
    <2>2. UNCHANGED provider
      BY <1>3 DEF Entered
    <2>3. [run[d] EXCEPT !.at = "live"] \in RunRecord /\ [run[d] EXCEPT !.at = "over"] \in RunRecord
      BY <1>1 DEF RunRecord
    <2> QED BY <1>1, <2>1, <2>2, <2>3 DEF RunsTyped
  <1>4. UNCHANGED <<secretVars, project, target, gone>>
    BY DEF Readying, Entered
  <1> QED BY <1>2, <1>3, <1>4, RunsMove

\* The two ways a step of an adapter ends.
LEMMA FinishTyped ==
  ASSUME DeploymentInv, NEW d \in Run, NEW status \in {"succeeded", "failed"}, FinishRun(d, status),
         UNCHANGED provider
  PROVE  RunsTyped'
  <1>1. RunsTyped /\ run[d] \in RunRecord
    BY RecordOfRun
  <1> DEFINE rec == [run[d] EXCEPT !.at = "finished", !.todo = <<>>]
  <1>2. rec \in RunRecord
    <2>1. <<>> \in Seq(PhaseName)
      OBVIOUS
    <2>2. \A todo \in Seq(PhaseName) : [run[d] EXCEPT !.at = "finished", !.todo = todo] \in RunRecord
      BY <1>1 DEF RunRecord
    <2> QED BY <2>1, <2>2
  <1>3. run' = [run EXCEPT ![d] = rec]
    BY <1>1 DEF FinishRun, RunsTyped
  <1> HIDE DEF rec
  <1>4. run' \in [Run -> RunRecord]
    BY <1>1, <1>2, <1>3 DEF RunsTyped
  <1>5. deployRow' \in [Run -> {"none", "running", "succeeded", "failed", "cancelled"}]
    BY <1>1 DEF FinishRun, RunsTyped
  <1> QED BY <1>1, <1>4, <1>5 DEF RunsTyped

LEMMA AdvanceTyped ==
  ASSUME DeploymentInv, NEW d \in Run, Advance(d), run[d].todo # <<>>,
         provider' \in [Run -> {"none", "uploading", "building", "ready", "error"}]
  PROVE  RunsTyped'
  <1>1. RunsTyped /\ run[d] \in RunRecord /\ Tail(run[d].todo) \in Seq(PhaseName)
    BY RecordOfRun
  <1>2. [run[d] EXCEPT !.todo = Tail(run[d].todo)] \in RunRecord
    BY <1>1 DEF RunRecord
  <1>3. run' = [run EXCEPT ![d] = [run[d] EXCEPT !.todo = Tail(run[d].todo)]] /\ UNCHANGED deployRow
    BY DEF Advance
  <1> QED BY <1>1, <1>2, <1>3 DEF RunsTyped

LEMMA AdapterKeeps ==
  ASSUME DeploymentInv, NEW d \in Run,
         PhaseDone(d) \/ Upload(d) \/ PhaseFails(d) \/ ImageBuilt(d) \/ CreateDeployment(d) \/ PollProvider(d)
  PROVE  DeploymentInv'
  <1>1. RunsTyped /\ run[d] \in RunRecord
    BY RecordOfRun
  <1>2. UNCHANGED <<secretVars, project, target, gone>>
    BY DEF PhaseDone, Upload, PhaseFails, ImageBuilt, CreateDeployment, PollProvider, aside
  <1>3. run[d].todo # <<>>
    BY DEF PhaseDone, Upload, PhaseFails, ImageBuilt, CreateDeployment, PollProvider, AtPhase
  <1>4. ASSUME PhaseDone(d) \/ Upload(d) \/ CreateDeployment(d)
        PROVE  RunsTyped'
    <2>1. Advance(d)
      BY <1>4 DEF PhaseDone, Upload, CreateDeployment
    <2>2. provider' \in [Run -> {"none", "uploading", "building", "ready", "error"}]
      BY <1>1, <1>4 DEF PhaseDone, Upload, CreateDeployment, RunsTyped
    <2> QED BY <1>3, <2>1, <2>2, AdvanceTyped
  <1>5. ASSUME PhaseFails(d) \/ ImageBuilt(d)
        PROVE  RunsTyped'
    BY <1>5, FinishTyped DEF PhaseFails, ImageBuilt
  <1>6. ASSUME PollProvider(d)
        PROVE  RunsTyped'
    <2>1. UNCHANGED provider
      BY <1>6 DEF PollProvider
    <2>2. \/ FinishRun(d, "succeeded") \/ FinishRun(d, "failed")
          \/ run' = [run EXCEPT ![d].polls = @ + 1] /\ UNCHANGED deployRow
      BY <1>6 DEF PollProvider
    <2>3. ASSUME run' = [run EXCEPT ![d].polls = @ + 1], UNCHANGED deployRow
          PROVE  RunsTyped'
      <3>1. [run[d] EXCEPT !.polls = @ + 1] \in RunRecord
        BY <1>1 DEF RunRecord
      <3> QED BY <1>1, <2>1, <2>3, <3>1 DEF RunsTyped
    <2> QED BY <2>1, <2>2, <2>3, FinishTyped
  <1> QED BY <1>2, <1>4, <1>5, <1>6, RunsMove

LEMMA OutsideKeeps ==
  ASSUME DeploymentInv, NEW d \in Run,
         (\E state \in {"ready", "error"} : ProviderEnds(d, state)) \/ CancelRun(d) \/ ForgetRun(d)
  PROVE  DeploymentInv'
  <1>1. RunsTyped /\ run[d] \in RunRecord
    BY RecordOfRun
  <1>2. UNCHANGED <<secretVars, project, target, gone>>
    BY DEF ProviderEnds, CancelRun, ForgetRun, aside
  <1>3. [run[d] EXCEPT !.aborted = TRUE] \in RunRecord /\ [run[d] EXCEPT !.at = "over"] \in RunRecord
    BY <1>1 DEF RunRecord
  <1>4. RunsTyped'
    BY <1>1, <1>3 DEF ProviderEnds, CancelRun, ForgetRun, RunsTyped
  <1> QED BY <1>2, <1>4, RunsMove

LEMMA EndProcessKeeps ==
  ASSUME DeploymentInv, EndProcess
  PROVE  DeploymentInv'
  <1>1. RunsTyped
    BY DeploymentParts
  <1>2. RunsTyped'
    BY <1>1, KilledTyped DEF EndProcess, RunsTyped
  <1>3. UNCHANGED <<secretVars, project, target, gone>>
    BY DEF EndProcess
  <1> QED BY <1>2, <1>3, RunsMove

LEMMA DeploymentInitInv ==
  ASSUME SecretsInit, DeployInit
  PROVE  DeploymentInv
  <1>1. SecretsTypeOK /\ \A s \in issued : Held(s)
    BY SecretsInitTyped
  <1>2. issued \subseteq Secret /\ (issued = {} \/ \E s \in Secret : issued = {s})
    BY DEF SecretsInit
  <1>3. ASSUME NEW g \in SetUp
        PROVE  g \in TargetRecord /\ Neat(g) /\ Named(g) \subseteq issued
    <2>1. CASE g = NoTarget
      BY <2>1 DEF NoTarget, TargetRecord, Neat, Named
    <2>2. ASSUME NEW a \in Adapter,
                 g = [adapter |-> a, config |-> TRUE, secret |-> issued, env |-> [n \in EnvName |-> {}]]
          PROVE  g \in TargetRecord /\ Neat(g) /\ Named(g) \subseteq issued
      <3>1. g.secret = issued /\ g.env = [n \in EnvName |-> {}]
        BY <2>2
      <3>2. g \in TargetRecord
        BY <1>2, <2>2 DEF TargetRecord
      <3>3. Neat(g)
        BY <1>2, <3>1 DEF Neat
      <3>4. Named(g) \subseteq issued
        BY <3>1 DEF Named
      <3> QED BY <3>2, <3>3, <3>4
    <2> QED BY <1>3, <2>1, <2>2 DEF SetUp
  <1>4. \A t \in Target : target[t] \in SetUp
    BY DEF DeployInit
  <1>5. target \in [Target -> TargetRecord]
    BY <1>3 DEF DeployInit
  <1>6. \A t, u \in Target : t = u \/ Named(target[t]) \cap Named(target[u]) = {}
    BY DEF DeployInit, SecretsOf, Named
  <1>7. TargetsInv
    BY <1>1, <1>3, <1>4, <1>5, <1>6 DEF TargetsInv, DeployInit
  <1>8. NoRun \in RunRecord
    BY DEF NoRun, RunRecord
  <1>9. RunsTyped
    BY <1>8 DEF RunsTyped, DeployInit
  <1> QED BY <1>7, <1>9, DeploymentParts DEF DeployInit

\* One step per action of Deployments.
LEMMA DeploymentStepKeeps ==
  ASSUME DeploymentInv, [DeployNext]_<<secretVars, deployVars>>
  PROVE  DeploymentInv'
  <1>1. ASSUME EditSteps
        PROVE  DeploymentInv'
    <2>1. PICK stop \in Cut :
            \/ \E s \in Secret : StoreValue(s, stop) \/ RotateValue(s, stop) \/ DeleteValue(s, stop)
            \/ \E t \in Target :
                 \/ DeleteTarget(t, stop)
                 \/ \E ids \in {{}, target[t].secret} \cup Fresh, a \in Adapter, given \in BOOLEAN :
                      UpsertTarget(t, a, given, ids, stop)
                 \/ \E n \in EnvName : \E ids \in {{}, target[t].env[n]} \cup Fresh : SetEnv(t, n, ids, stop)
      BY <1>1 DEF EditSteps
    <2>2. ASSUME NEW t \in Target, NEW ids \in {{}, target[t].secret} \cup Fresh, NEW a \in Adapter,
                 NEW given \in BOOLEAN, UpsertTarget(t, a, given, ids, stop)
          PROVE  DeploymentInv'
      BY <2>2, UpsertTargetKeeps
    <2>3. ASSUME NEW t \in Target, NEW n \in EnvName, NEW ids \in {{}, target[t].env[n]} \cup Fresh,
                 SetEnv(t, n, ids, stop)
          PROVE  DeploymentInv'
      BY <2>3, SetEnvKeeps
    <2> QED BY <2>1, <2>2, <2>3, StoreValueKeeps, DeleteTargetKeeps
  <1>2. CASE EndProcess
    BY <1>2, EndProcessKeeps
  <1>3. ASSUME NEW d \in Run, RunSteps(d)
        PROVE  DeploymentInv'
    BY <1>3, StartKeeps, AdapterKeeps, OutsideKeeps DEF RunSteps
  <1>4. CASE UNCHANGED <<secretVars, deployVars>>
    <2>1. RunsTyped
      BY DeploymentParts
    <2>2. RunsTyped' /\ UNCHANGED <<secretVars, project, target, gone>>
      BY <1>4, <2>1 DEF RunsTyped, deployVars
    <2> QED BY <2>2, RunsMove
  <1> QED BY <1>1, <1>2, <1>3, <1>4 DEF DeployNext

\* However edits of targets and their values, deployments and ends of the
\* process interleave (deployment-wiring.ts, service.ts of secrets): the
\* variables keep their types, no two places of any targets name one secret,
\* and a secret that is named is held, unless it is known to be gone.
THEOREM DeploymentInvHolds == DeploySpec => []DeploymentInv
  <1> QED BY DeploymentInitInv, DeploymentStepKeeps, PTL DEF DeploySpec

\* What one edit of a target deletes is never what this or another target still
\* names, unless the user deleted it himself or the process is killed between
\* the deletion and the row (setEnv, upsert and delete of deployment-wiring.ts).
THEOREM TargetsHaveTheirSecretsHold == DeploySpec => []TargetsHaveTheirSecrets
  <1>1. DeploymentInv => TargetsHaveTheirSecrets
    BY DEF DeploymentInv
  <1> QED BY <1>1, DeploymentInvHolds, PTL

-----------------------------------------------------------------------------
(* Extensions: one server or plugin at a time                               *)

\* What is still wanted of a server or plugin by an attempt on it.
StillWanted(o, a) ==
  /\ attempt[a].at \in Connecting \/ attempt[a].then = "opening" => o \in Server /\ server[o].status # "none"
  /\ attempt[a].at \in Activating \/ attempt[a].then = "importing" => o \in Plugin /\ plugin[o].enabled

Enabled(o) == IF o \in Plugin THEN plugin[o].enabled ELSE server[o].status = "connected"

\* The invariant, of one server or plugin.
OwnerInv(o) ==
  /\ \A a \in current[o] :
       /\ attempt[a].of = {o} /\ attempt[a].at \in {"done", "failed"}
       /\ attempt[a].alone => Enabled(o)
  /\ \A n \in ToolName : \A a \in registry[<<o, n>>] :
       /\ attempt[a].of = {o} /\ attempt[a].at \in {"activating", "done", "failed"}
       /\ attempt[a].alone => a \in current[o] \/ attempt[a].at = "activating"
  /\ \A a \in Under(o) :
       /\ \A b \in current[o] : ~attempt[b].alone
       /\ \A b \in Under(o) : b = a \/ ~attempt[b].alone
       /\ attempt[a].alone => StillWanted(o, a)

LEMMA ExtensionParts ==
  ExtensionsInv <=> ExtensionsTyped /\ (\A o \in Owner : OwnerInv(o)) /\ (\A a \in Attempt : Kind(a))
  <1>1. ASSUME ExtensionsTyped
        PROVE  /\ DOMAIN registry = Owner \X ToolName
               /\ \A x \in Owner \X ToolName : x[1] \in Owner /\ x[2] \in ToolName /\ x = <<x[1], x[2]>>
               /\ \A o \in Owner, n \in ToolName : <<o, n>> \in Owner \X ToolName /\ <<o, n>>[1] = o
    BY <1>1 DEF ExtensionsTyped, ExtensionsTypeOK
  <1>2. ASSUME ExtensionsTyped
        PROVE  Placed /\ Crowded /\ Wanted /\ ToolsHaveTheirOwner <=> \A o \in Owner : OwnerInv(o)
    <2>1. Placed /\ ToolsHaveTheirOwner <=>
            \A o \in Owner :
              /\ \A a \in current[o] :
                   /\ attempt[a].of = {o} /\ attempt[a].at \in {"done", "failed"}
                   /\ attempt[a].alone => Enabled(o)
              /\ \A n \in ToolName : \A a \in registry[<<o, n>>] :
                   /\ attempt[a].of = {o} /\ attempt[a].at \in {"activating", "done", "failed"}
                   /\ attempt[a].alone => a \in current[o] \/ attempt[a].at = "activating"
      BY <1>1, <1>2 DEF Placed, ToolsHaveTheirOwner, Enabled
    <2>2. Crowded /\ Wanted <=>
            \A o \in Owner : \A a \in Under(o) :
              /\ \A b \in current[o] : ~attempt[b].alone
              /\ \A b \in Under(o) : b = a \/ ~attempt[b].alone
              /\ attempt[a].alone => StillWanted(o, a)
      BY DEF Crowded, Wanted, StillWanted
    <2> QED BY <2>1, <2>2 DEF OwnerInv
  <1> QED BY <1>2 DEF ExtensionsInv

LEMMA ExtensionsNow ==
  ASSUME ExtensionsTyped', \A o \in Owner : OwnerInv(o)', \A a \in Attempt : Kind(a)'
  PROVE  ExtensionsInv'
  <1>1. (ExtensionsTyped /\ (\A o \in Owner : OwnerInv(o)) /\ (\A a \in Attempt : Kind(a)))' <=> ExtensionsInv'
    BY ExtensionParts, PTL
  <1>2. (\A o \in Owner : OwnerInv(o))' /\ (\A a \in Attempt : Kind(a))'
    OBVIOUS
  <1> QED BY <1>1, <1>2

\* A server or plugin that a step is not about.
LEMMA OthersStay ==
  ASSUME NEW q \in Owner, OwnerInv(q), current'[q] = current[q],
         \A n \in ToolName : registry'[<<q, n>>] = registry[<<q, n>>],
         q \in Plugin => plugin'[q].enabled = plugin[q].enabled,
         q \in Server => server'[q].status = server[q].status,
         \A b \in Attempt : (attempt[b].of = {q} /\ attempt[b].at # "none") \/ attempt'[b].of = {q} => attempt'[b] = attempt[b],
         current'[q] \subseteq Attempt, \A n \in ToolName : registry[<<q, n>>] \subseteq Attempt
  PROVE  OwnerInv(q)'
  <1>1. Under(q)' = Under(q)
    BY DEF Under, Waiting
  <1>2. Enabled(q)' <=> Enabled(q)
    BY DEF Enabled, Owner
  <1>3. \A a \in Under(q) : a \in Attempt /\ attempt[a].of = {q} /\ attempt'[a] = attempt[a]
    BY DEF Under, Waiting
  <1>4. \A a \in Under(q) : attempt[a].alone => StillWanted(q, a)'
    BY <1>3 DEF StillWanted, OwnerInv
  <1>5. \A a \in current'[q] :
          /\ attempt'[a].of = {q} /\ attempt'[a].at \in {"done", "failed"}
          /\ attempt'[a].alone => Enabled(q)'
    BY <1>2 DEF OwnerInv
  <1>6. \A n \in ToolName : \A a \in registry'[<<q, n>>] :
          /\ attempt'[a].of = {q} /\ attempt'[a].at \in {"activating", "done", "failed"}
          /\ attempt'[a].alone => a \in current'[q] \/ attempt'[a].at = "activating"
    BY DEF OwnerInv
  <1>7. \A a \in Under(q)' :
          /\ \A b \in current'[q] : ~attempt'[b].alone
          /\ \A b \in Under(q)' : b = a \/ ~attempt'[b].alone
          /\ attempt'[a].alone => StillWanted(q, a)'
    BY <1>1, <1>3, <1>4 DEF OwnerInv
  <1> QED BY <1>5, <1>6, <1>7 DEF OwnerInv

\* What is there of a server or plugin while an attempt on it is under way.
LEMMA UnderWay ==
  ASSUME ExtensionsInv, NEW a \in Attempt, NEW o \in Owner, a \in Under(o)
  PROVE  /\ attempt[a].of = {o} /\ attempt[a].at \in Waiting /\ a \notin current[o] /\ OwnerInv(o)
         /\ \A b \in current[o] : b \in Attempt /\ attempt[b].of = {o} /\ ~attempt[b].alone
         /\ \A b \in Under(o) \ {a} : b \in Attempt /\ ~attempt[b].alone
         /\ \A n \in ToolName : \A b \in registry[<<o, n>>] \ {a} :
              b \in Attempt /\ attempt[b].of = {o} /\ ~attempt[b].alone
         /\ attempt[a].alone => StillWanted(o, a)
  <1>1. ExtensionsTyped /\ OwnerInv(o)
    BY ExtensionParts
  <1>2. attempt[a].of = {o} /\ attempt[a].at \in Waiting
    BY DEF Under
  <1>3. current[o] \subseteq Attempt /\ \A n \in ToolName : registry[<<o, n>>] \subseteq Attempt
    BY <1>1 DEF ExtensionsTyped, ExtensionsTypeOK
  <1>4. a \notin current[o]
    BY <1>1, <1>2 DEF OwnerInv, Waiting
  <1>5. \A b \in current[o] : attempt[b].of = {o} /\ ~attempt[b].alone
    BY <1>1 DEF OwnerInv
  <1>6. \A b \in Under(o) \ {a} : b \in Attempt /\ ~attempt[b].alone
    BY <1>1 DEF OwnerInv, Under
  <1>7. ASSUME NEW n \in ToolName, NEW b \in registry[<<o, n>>] \ {a}
        PROVE  b \in Attempt /\ attempt[b].of = {o} /\ ~attempt[b].alone
    <2>1. /\ b \in Attempt /\ attempt[b].of = {o}
          /\ attempt[b].alone => b \in current[o] \/ attempt[b].at = "activating"
      BY <1>1, <1>3, <1>7 DEF OwnerInv
    <2>2. attempt[b].at = "activating" => b \in Under(o)
      BY <2>1 DEF Under, Waiting
    <2> QED BY <2>1, <2>2, <1>5, <1>6
  <1>8. attempt[a].alone => StillWanted(o, a)
    BY <1>1 DEF OwnerInv
  <1> QED BY <1>1, <1>2, <1>3, <1>4, <1>5, <1>6, <1>7, <1>8

\* The others of a step about one server or plugin.
OthersKept(o) ==
  /\ \A q \in Owner \ {o} : /\ current'[q] = current[q]
                            /\ \A n \in ToolName : registry'[<<q, n>>] = registry[<<q, n>>]
  /\ \A q \in Plugin \ {o} : plugin'[q].enabled = plugin[q].enabled
  /\ \A q \in Server \ {o} : server'[q].status = server[q].status

\* An attempt under way goes on or ends: who is in the map or has tools of the
\* server or plugin beside it is not alone.
LEMMA MoveKeeps ==
  ASSUME ExtensionsInv, NEW a \in Attempt, NEW o \in Owner, a \in Under(o), NEW r,
         attempt' = [attempt EXCEPT ![a] = r], r.of = {o}, r.alone = attempt[a].alone,
         ExtensionsTyped', Kind(a)', OthersKept(o),
         current'[o] = current[o] \/ (current'[o] = {a} /\ r.at \in {"done", "failed"}),
         \A n \in ToolName :
           /\ registry'[<<o, n>>] \subseteq registry[<<o, n>>] \cup {a}
           /\ a \in registry'[<<o, n>>] => r.at = "activating" \/ (r.at \in {"done", "failed"} /\ a \in current'[o]),
         r.alone /\ r.at \in Waiting => StillWanted(o, a)',
         r.alone /\ a \in current'[o] => Enabled(o)'
  PROVE  ExtensionsInv'
  <1> USE UnderWay
  <1>1. ExtensionsTyped /\ (\A q \in Owner : OwnerInv(q)) /\ (\A b \in Attempt : Kind(b))
    BY ExtensionParts
  <1>2. attempt'[a] = r /\ \A b \in Attempt \ {a} : attempt'[b] = attempt[b]
    BY <1>1 DEF ExtensionsTyped
  <1>3. ASSUME NEW q \in Owner \ {o}
        PROVE  OwnerInv(q)'
    <2>1. /\ q \in Plugin => plugin'[q].enabled = plugin[q].enabled
          /\ q \in Server => server'[q].status = server[q].status
      BY DEF OthersKept
    <2>2. current'[q] = current[q] /\ \A n \in ToolName : registry'[<<q, n>>] = registry[<<q, n>>]
      BY DEF OthersKept
    <2>3. \A b \in Attempt : attempt[b].of = {q} \/ attempt'[b].of = {q} => attempt'[b] = attempt[b]
      BY <1>2
    <2>4. current[q] \subseteq Attempt /\ \A n \in ToolName : registry[<<q, n>>] \subseteq Attempt
      BY <1>1 DEF ExtensionsTyped, ExtensionsTypeOK
    <2> HIDE UnderWay
    <2> QED BY <1>1, <2>1, <2>2, <2>3, <2>4, OthersStay
  <1>4. Under(o)' \subseteq Under(o)
    BY <1>2 DEF Under
  <1>5. \A b \in Under(o)' \ {a} : ~attempt'[b].alone
    BY <1>2, <1>4
  <1>6. \A b \in current'[o] : /\ attempt'[b].of = {o} /\ attempt'[b].at \in {"done", "failed"}
                               /\ attempt'[b].alone => b = a /\ Enabled(o)'
    BY <1>1, <1>2 DEF OwnerInv
  <1>7. ASSUME NEW n \in ToolName, NEW b \in registry'[<<o, n>>]
        PROVE  /\ attempt'[b].of = {o} /\ attempt'[b].at \in {"activating", "done", "failed"}
               /\ attempt'[b].alone => b \in current'[o] \/ attempt'[b].at = "activating"
    BY <1>1, <1>2, <1>7 DEF OwnerInv
  <1>8. ASSUME NEW b \in Under(o)'
        PROVE  /\ \A c \in current'[o] : ~attempt'[c].alone
               /\ \A c \in Under(o)' : c = b \/ ~attempt'[c].alone
               /\ attempt'[b].alone => StillWanted(o, b)'
    <2>1. b \in Attempt /\ attempt'[b].at \in Waiting
      BY <1>8 DEF Under
    <2>2. b = a => current'[o] = current[o]
      BY <1>2, <2>1 DEF Waiting
    <2>3. b # a => ~attempt[a].alone
      BY <1>1, <1>4, <1>8 DEF OwnerInv
    <2>4. \A c \in current'[o] : ~attempt'[c].alone
      BY <1>2, <2>2, <2>3
    <2>5. \A c \in Under(o)' : c = b \/ ~attempt'[c].alone
      BY <1>2, <1>5, <2>3
    <2>6. attempt'[b].alone => StillWanted(o, b)'
      <3>1. CASE b = a
        BY <1>2, <2>1, <3>1
      <3>2. CASE b # a
        BY <1>5, <1>8, <3>2
      <3> QED BY <3>1, <3>2
    <2> QED BY <2>4, <2>5, <2>6
  <1>9. OwnerInv(o)'
    BY <1>6, <1>7, <1>8 DEF OwnerInv
  <1>10. \A b \in Attempt \ {a} : Kind(b)'
    BY <1>1, <1>2 DEF Kind
  <1> QED BY <1>3, <1>9, <1>10, ExtensionsNow

ServerRecord == [status : {"none", "disconnected", "connecting", "connected", "error"},
                 auth : {"none", "bearer", "oauth"}, token : SUBSET Secret]
PluginRecord == [installed : BOOLEAN, enabled : BOOLEAN, granted : BOOLEAN, error : BOOLEAN]

\* The types are five separate facts.
ExtensionTables ==
  /\ server \in [Server -> ServerRecord] /\ plugin \in [Plugin -> PluginRecord]
  /\ current \in [Owner -> SUBSET Attempt] /\ registry \in [Owner \X ToolName -> SUBSET Attempt]

LEMMA ExtensionTypes ==
  ExtensionsTyped <=> /\ SecretsTypeOK /\ ExtensionTables /\ attempt \in [Attempt -> AttemptRecord]
                      /\ tokens \in [Server -> SUBSET Secret]
  <1>1. attempt \in [Attempt -> AttemptRecord] => \A a \in Attempt : attempt[a].at \in Waiting \cup {"none", "done", "failed"}
    BY DEF AttemptRecord
  <1> QED BY <1>1 DEF ExtensionsTyped, ExtensionsTypeOK, ExtensionTables, ServerRecord, PluginRecord

LEMMA ExtensionTypesNow ==
  ASSUME SecretsTypeOK', ExtensionTables', (attempt \in [Attempt -> AttemptRecord])', (tokens \in [Server -> SUBSET Secret])'
  PROVE  ExtensionsTyped'
  BY ExtensionTypes, PTL

\* An attempt goes on to another state.
LEMMA GoesOn ==
  ASSUME ExtensionsTyped, NEW a \in Attempt, NEW x \in Waiting \cup {"none", "done", "failed"},
         attempt' = [attempt EXCEPT ![a].at = x]
  PROVE  /\ (attempt \in [Attempt -> AttemptRecord])'
         /\ \E r : /\ attempt' = [attempt EXCEPT ![a] = r] /\ r.at = x
                   /\ r.of = attempt[a].of /\ r.alone = attempt[a].alone /\ r.then = attempt[a].then
         /\ attempt'[a].at = x /\ attempt'[a].of = attempt[a].of /\ attempt'[a].then = attempt[a].then
  <1> DEFINE r == [attempt[a] EXCEPT !.at = x]
  <1>1. attempt \in [Attempt -> AttemptRecord]
    BY DEF ExtensionsTyped
  <1>2. r \in AttemptRecord /\ r.at = x /\ r.of = attempt[a].of /\ r.alone = attempt[a].alone /\ r.then = attempt[a].then
    BY <1>1 DEF AttemptRecord
  <1>3. attempt' = [attempt EXCEPT ![a] = r]
    OBVIOUS
  <1> HIDE DEF r
  <1> QED BY <1>1, <1>2, <1>3

\* A connect goes on or fails; what is in the map and in the registry stays.
LEMMA ConnectGoesOn ==
  ASSUME ExtensionsInv, NEW a \in Attempt, NEW x \in Connecting \cup {"failed"},
         attempt[a].at \in Connecting, attempt' = [attempt EXCEPT ![a].at = x],
         SecretsTypeOK', (server \in [Server -> ServerRecord])', (tokens \in [Server -> SUBSET Secret])',
         UNCHANGED <<plugin, current, registry>>,
         \A s \in Server : server'[s].status = server[s].status \/ (x = "failed" /\ attempt[a].of = {s})
  PROVE  ExtensionsInv'
  <1>1. ExtensionsTyped /\ Kind(a)
    BY ExtensionParts
  <1>2. PICK r : /\ attempt' = [attempt EXCEPT ![a] = r] /\ r.at = x
                 /\ r.of = attempt[a].of /\ r.alone = attempt[a].alone /\ r.then = attempt[a].then
    BY <1>1, GoesOn DEF Connecting, Waiting
  <1>3. PICK o \in Server : attempt[a].of = {o}
    BY <1>1 DEF Kind, Waiting, Connecting, ExtensionsTyped, AttemptRecord
  <1>4. a \in Under(o) /\ o \in Owner
    BY <1>3 DEF Under, Waiting, Connecting, Owner
  <1>5. ExtensionsTyped'
    <2>1. ExtensionTables'
      BY <1>1, ExtensionTypes DEF ExtensionTables
    <2>2. (attempt \in [Attempt -> AttemptRecord])'
      BY <1>1, GoesOn DEF Connecting, Waiting
    <2> QED BY <2>1, <2>2, ExtensionTypesNow
  <1>6. attempt'[a].at = x /\ attempt'[a].of = {o} /\ attempt'[a].then = attempt[a].then
    BY <1>1, <1>3, GoesOn DEF Connecting, Waiting
  <1>7. Kind(a)'
    BY <1>3, <1>6 DEF Kind, Connecting, Activating, Waiting
  <1>8. OthersKept(o)
    BY <1>3 DEF OthersKept
  <1>9. a \notin current[o] /\ (attempt[a].alone => StillWanted(o, a))
    BY <1>4, UnderWay
  <1>10. \A n \in ToolName : a \notin registry'[<<o, n>>]
    <2>1. OwnerInv(o)
      BY <1>4, ExtensionParts
    <2> QED BY <2>1 DEF OwnerInv, Connecting
  <1>11. r.alone /\ r.at \in Waiting => StillWanted(o, a)'
    <2>1. x \in Waiting => server'[o].status = server[o].status /\ x \notin Activating
      BY <1>3 DEF Waiting, Connecting, Activating
    <2> QED BY <1>2, <1>3, <1>6, <1>9, <2>1 DEF StillWanted
  <1> QED BY <1>2, <1>3, <1>4, <1>5, <1>7, <1>8, <1>9, <1>10, <1>11, MoveKeeps

LEMMA SaveStateKeeps ==
  ASSUME ExtensionsInv, NEW a \in Attempt, NEW x \in Connecting, NEW k \in Secret,
         attempt[a].at \in Connecting, SaveState(a, x, k)
  PROVE  ExtensionsInv'
  <1>1. ExtensionsTyped /\ Kind(a)
    BY ExtensionParts
  <1>2. PICK s \in attempt[a].of :
          \/ /\ RotateSecret(k, "") /\ attempt' = [attempt EXCEPT ![a].at = x] /\ UNCHANGED <<server, tokens>>
          \/ /\ SetSecret(k, "") /\ tokens' = [tokens EXCEPT ![s] = @ \cup {k}]
             /\ \/ attempt' = [attempt EXCEPT ![a].at = "failed"] /\ UNCHANGED server
                \/ server' = [server EXCEPT ![s].token = {k}] /\ attempt' = [attempt EXCEPT ![a].at = x]
    BY DEF SaveState
  <1>3. UNCHANGED <<plugin, current, registry>>
    BY DEF SaveState, inConnect
  <1>4. s \in Server
    BY <1>1, <1>2 DEF Kind
  <1>5. SecretsTypeOK'
    BY <1>1, <1>2, StoredTyped DEF ExtensionsTyped, Cut
  <1>6. (tokens \in [Server -> SUBSET Secret])'
    <2>1. tokens \in [Server -> SUBSET Secret] /\ tokens[s] \cup {k} \in SUBSET Secret
      BY <1>1, <1>4 DEF ExtensionsTyped
    <2>2. tokens' = tokens \/ tokens' = [tokens EXCEPT ![s] = tokens[s] \cup {k}]
      BY <1>2
    <2> QED BY <1>4, <2>1, <2>2
  <1>7. (server \in [Server -> ServerRecord])' /\ \A q \in Server : server'[q].status = server[q].status
    <2>1. server \in [Server -> ServerRecord]
      BY <1>1, ExtensionTypes DEF ExtensionTables
    <2>2. CASE server' = [server EXCEPT ![s].token = {k}]
      <3> DEFINE row == [server[s] EXCEPT !.token = {k}]
      <3>1. row \in ServerRecord /\ row.status = server[s].status
        BY <2>1, <1>4 DEF ServerRecord
      <3>2. server' = [server EXCEPT ![s] = row]
        BY <2>2
      <3> HIDE DEF row
      <3> QED BY <2>1, <3>1, <3>2, <1>4
    <2> QED BY <1>2, <2>1, <2>2
  <1> QED BY <1>2, <1>3, <1>5, <1>6, <1>7, ConnectGoesOn

LEMMA ConnectFailsKeeps ==
  ASSUME ExtensionsInv, NEW a \in Attempt, ConnectFails(a)
  PROVE  ExtensionsInv'
  <1>1. ExtensionsTyped
    BY ExtensionParts
  <1>2. SecretsTypeOK' /\ (tokens \in [Server -> SUBSET Secret])' /\ UNCHANGED <<plugin, current, registry>>
    BY <1>1 DEF ConnectFails, inConnect, ExtensionsTyped, SecretsTypeOK, secretVars
  <1>3. server \in [Server -> ServerRecord]
    BY <1>1, ExtensionTypes DEF ExtensionTables
  <1>4. server' = [s \in Server |-> IF attempt[a].of = {s} /\ server[s].status # "none"
                                     THEN [server[s] EXCEPT !.status = "error"] ELSE server[s]]
    BY DEF ConnectFails
  <1>5. \A s \in Server : [server[s] EXCEPT !.status = "error"] \in ServerRecord
    BY <1>3 DEF ServerRecord
  <1>6. (server \in [Server -> ServerRecord])'
    BY <1>3, <1>4, <1>5
  <1>7. \A s \in Server : attempt[a].of = {s} \/ server'[s].status = server[s].status
    BY <1>3, <1>4
  <1>8. attempt[a].at \in Connecting /\ attempt' = [attempt EXCEPT ![a].at = "failed"]
    BY DEF ConnectFails, Connecting
  <1>9. "failed" \in Connecting \cup {"failed"}
    OBVIOUS
  <1> QED BY ONLY ExtensionsInv, a \in Attempt, <1>2, <1>6, <1>7, <1>8, <1>9, ConnectGoesOn

LEMMA ConnectStepsKeep ==
  ASSUME ExtensionsInv, NEW a \in Attempt,
         Opened(a) \/ Redirected(a) \/ ConnectFails(a) \/ \E k \in Secret : Registered(a, k) \/ SignedIn(a, k)
  PROVE  ExtensionsInv'
  <1>1. CASE Opened(a) \/ Redirected(a)
    <2>1. ExtensionsTyped
      BY ExtensionParts
    <2>2. SecretsTypeOK' /\ (tokens \in [Server -> SUBSET Secret])' /\ (server \in [Server -> ServerRecord])'
      BY <1>1, <2>1, ExtensionTypes DEF Opened, Redirected, ExtensionTables, SecretsTypeOK, secretVars
    <2>3. UNCHANGED <<plugin, current, registry, server>>
      BY <1>1 DEF Opened, Redirected, inConnect
    <2>4. \E x \in Connecting : attempt[a].at \in Connecting /\ attempt' = [attempt EXCEPT ![a].at = x]
      BY <1>1 DEF Opened, Redirected, Connecting
    <2> QED BY <2>2, <2>3, <2>4, ConnectGoesOn
  <1>2. ASSUME NEW k \in Secret, Registered(a, k) \/ SignedIn(a, k)
        PROVE  ExtensionsInv'
    BY <1>2, SaveStateKeeps DEF Registered, SignedIn, Connecting
  <1> QED BY <1>1, <1>2, ConnectFailsKeeps

LEMMA ConnectedKeeps ==
  ASSUME ExtensionsInv, NEW a \in Attempt, NEW names \in SUBSET ToolName, Connected(a, names)
  PROVE  ExtensionsInv'
  <1>1. ExtensionsTyped /\ Kind(a) /\ attempt[a].at = "listing"
    BY ExtensionParts DEF Connected
  <1>2. PICK s \in attempt[a].of :
          /\ registry' = [x \in DOMAIN registry |-> IF x[1] = s /\ x[2] \in names THEN {a} ELSE registry[x]]
          /\ current' = [current EXCEPT ![s] = {a}]
          /\ attempt' = [attempt EXCEPT ![a].at = IF server[s].status = "none" THEN "failed" ELSE "done"]
          /\ server' = [server EXCEPT ![s].status = IF @ = "none" THEN "none" ELSE "connected"]
    BY DEF Connected
  <1>3. s \in Server /\ attempt[a].of = {s}
    BY <1>1, <1>2 DEF Kind, Connecting, ExtensionsTyped, AttemptRecord
  <1>4. s \in Owner /\ s \notin Plugin /\ a \in Under(s)
    BY <1>1, <1>3, AttemptAssumption DEF Owner, Under, Waiting
  <1> DEFINE x == IF server[s].status = "none" THEN "failed" ELSE "done"
             status == IF server[s].status = "none" THEN "none" ELSE "connected"
             row == [server[s] EXCEPT !.status = status]
  <1>5. x \in {"failed", "done"} /\ attempt' = [attempt EXCEPT ![a].at = x]
    BY <1>2
  <1>24. /\ \E r : /\ attempt' = [attempt EXCEPT ![a] = r] /\ r.at = x
                   /\ r.of = attempt[a].of /\ r.alone = attempt[a].alone /\ r.then = attempt[a].then
         /\ attempt'[a].at = x /\ attempt'[a].of = {s}
    <2> HIDE DEF x
    <2>1. x \in Waiting \cup {"none", "done", "failed"}
      BY <1>5
    <2> QED BY <1>1, <1>3, <1>5, <2>1, GoesOn
  <1>6. PICK r : /\ attempt' = [attempt EXCEPT ![a] = r] /\ r.at = x
                 /\ r.of = attempt[a].of /\ r.alone = attempt[a].alone /\ r.then = attempt[a].then
    BY <1>24
  <1>7. ExtensionTables
    BY <1>1, ExtensionTypes
  <1>8. server[s] \in ServerRecord /\ server' = [server EXCEPT ![s] = row]
    BY <1>2, <1>3, <1>7 DEF ExtensionTables
  <1>9. row \in ServerRecord /\ row.status = status
    BY <1>8 DEF ServerRecord
  <1>10. /\ (server \in [Server -> ServerRecord])' /\ server'[s].status = status
         /\ \A q \in Server \ {s} : server'[q] = server[q]
    <2> HIDE DEF row, status
    <2> QED BY <1>3, <1>7, <1>8, <1>9 DEF ExtensionTables
  <1>11. DOMAIN registry = Owner \X ToolName
    BY <1>7 DEF ExtensionTables
  <1>12. \A q \in Owner, n \in ToolName :
           registry'[<<q, n>>] = IF q = s /\ n \in names THEN {a} ELSE registry[<<q, n>>]
    BY <1>2, <1>11
  <1>13. registry' \in [Owner \X ToolName -> SUBSET Attempt]
    BY <1>2, <1>7, <1>11 DEF ExtensionTables
  <1>14. ExtensionTables'
    BY <1>2, <1>4, <1>7, <1>10, <1>13 DEF ExtensionTables, Connected
  <1>15. ExtensionsTyped'
    <2>1. SecretsTypeOK' /\ (tokens \in [Server -> SUBSET Secret])'
      BY <1>1 DEF Connected, ExtensionsTyped, SecretsTypeOK, secretVars
    <2>2. (attempt \in [Attempt -> AttemptRecord])'
      BY <1>1, <1>5, GoesOn
    <2> QED BY <2>1, <2>2, <1>14, ExtensionTypesNow
  <1>16. attempt'[a].at = x /\ attempt'[a].of = {s}
    BY <1>24
  <1>17. Kind(a)'
    BY <1>5, <1>16 DEF Kind, Connecting, Activating, Waiting
  <1>18. OthersKept(s)
    BY <1>2, <1>7, <1>10, <1>12 DEF OthersKept, Connected, ExtensionTables
  <1>19. current'[s] = {a}
    BY <1>2, <1>4, <1>7 DEF ExtensionTables
  <1>20. r.alone => Enabled(s)'
    <2>1. attempt[a].alone => server[s].status # "none"
      BY <1>1, <1>4, UnderWay DEF StillWanted, Connecting
    <2> QED BY <1>4, <1>6, <1>10, <2>1 DEF Enabled
  <1>21. OwnerInv(s) /\ \A n \in ToolName : a \notin registry[<<s, n>>]
    BY <1>1, <1>4, ExtensionParts DEF OwnerInv
  <1>22. r.at \notin Waiting /\ r.of = {s} /\ r.at \in {"done", "failed"}
    BY <1>3, <1>5, <1>6 DEF Waiting
  <1>23. \A n \in ToolName :
           /\ registry'[<<s, n>>] \subseteq registry[<<s, n>>] \cup {a}
           /\ a \in registry'[<<s, n>>] => r.at = "activating" \/ (r.at \in {"done", "failed"} /\ a \in current'[s])
    BY <1>4, <1>12, <1>19, <1>22
  <1> HIDE DEF x, status, row
  <1> QED BY <1>4, <1>6, <1>15, <1>17, <1>18, <1>19, <1>20, <1>22, <1>23, MoveKeeps

\* An activation goes on or ends.
LEMMA ActivationGoesOn ==
  ASSUME ExtensionsInv, NEW a \in Attempt, NEW p \in Plugin, a \in Under(p), attempt[a].at \in Activating,
         NEW x \in {"activating", "done", "failed"}, attempt' = [attempt EXCEPT ![a].at = x],
         UNCHANGED <<secretVars, server, tokens>>, (plugin \in [Plugin -> PluginRecord])',
         \A q \in Plugin : plugin'[q].enabled = plugin[q].enabled,
         (registry \in [Owner \X ToolName -> SUBSET Attempt])',
         \A q \in Owner \ {p}, n \in ToolName : registry'[<<q, n>>] = registry[<<q, n>>],
         \A n \in ToolName : /\ registry'[<<p, n>>] \subseteq registry[<<p, n>>] \cup {a}
                             /\ a \in registry'[<<p, n>>] => x \in {"activating", "done"},
         current' = IF x = "done" THEN [current EXCEPT ![p] = {a}] ELSE current
  PROVE  ExtensionsInv'
  <1>1. ExtensionsTyped /\ ExtensionTables
    BY ExtensionParts, ExtensionTypes
  <1>17. x \in Waiting \cup {"none", "done", "failed"}
    BY DEF Waiting
  <1>2. PICK r : /\ attempt' = [attempt EXCEPT ![a] = r] /\ r.at = x
                 /\ r.of = attempt[a].of /\ r.alone = attempt[a].alone /\ r.then = attempt[a].then
    BY <1>1, <1>17, GoesOn
  <1>3. p \in Owner /\ attempt[a].of = {p}
    BY DEF Owner, Under
  <1>4. current' \in [Owner -> SUBSET Attempt] /\ \A q \in Owner \ {p} : current'[q] = current[q]
    BY <1>1, <1>3 DEF ExtensionTables
  <1>5. IF x = "done" THEN current'[p] = {a} ELSE current' = current
    BY <1>1, <1>3 DEF ExtensionTables
  <1>6. ExtensionsTyped'
    <2>1. ExtensionTables'
      BY <1>1, <1>4 DEF ExtensionTables
    <2>2. SecretsTypeOK' /\ (tokens \in [Server -> SUBSET Secret])'
      BY <1>1 DEF ExtensionsTyped, SecretsTypeOK, secretVars
    <2>3. (attempt \in [Attempt -> AttemptRecord])'
      BY <1>1, GoesOn DEF Waiting
    <2> QED BY <2>1, <2>2, <2>3, ExtensionTypesNow
  <1>7. attempt'[a].at = x /\ attempt'[a].of = {p} /\ attempt'[a].then = attempt[a].then
    BY <1>1, <1>3, GoesOn DEF Waiting
  <1>8. Kind(a)'
    BY <1>3, <1>7 DEF Kind, Connecting, Activating, Waiting
  <1>9. OthersKept(p)
    BY <1>4 DEF OthersKept
  <1>10. a \notin current[p] /\ (attempt[a].alone => StillWanted(p, a))
    BY <1>3, UnderWay
  <1>11. attempt[a].alone => plugin'[p].enabled /\ attempt[a].then # "opening"
    <2>1. p \notin Server
      BY AttemptAssumption
    <2> QED BY <1>10, <2>1 DEF StillWanted, Activating
  <1>12. r.alone => StillWanted(p, a)'
    BY <1>2, <1>7, <1>11 DEF StillWanted, Connecting, Activating
  <1>13. r.alone => Enabled(p)'
    BY <1>2, <1>11 DEF Enabled
  <1>14. \A n \in ToolName :
           /\ registry'[<<p, n>>] \subseteq registry[<<p, n>>] \cup {a}
           /\ a \in registry'[<<p, n>>] => r.at = "activating" \/ (r.at \in {"done", "failed"} /\ a \in current'[p])
    BY <1>2, <1>5
  <1>15. current'[p] = current[p] \/ (current'[p] = {a} /\ r.at \in {"done", "failed"})
    BY <1>2, <1>5
  <1>16. r.of = {p}
    BY <1>2, <1>3
  <1> QED BY ONLY ExtensionsInv, a \in Attempt, <1>3, a \in Under(p), <1>2, <1>6, <1>8, <1>9, <1>12, <1>13,
                  <1>14, <1>15, <1>16, MoveKeeps

LEMMA PluginStepsKeep ==
  ASSUME ExtensionsInv, NEW a \in Attempt,
         Imported(a) \/ Activated(a) \/ ActivateFails(a) \/ \E n \in ToolName : RegisterTool(a, n)
  PROVE  ExtensionsInv'
  <1>1. ExtensionsTyped /\ ExtensionTables /\ Kind(a)
    BY ExtensionParts, ExtensionTypes
  <1>2. attempt[a].at \in Activating /\ UNCHANGED <<secretVars, server, tokens>>
    BY DEF Imported, Activated, ActivateFails, RegisterTool, Activating, forPlugins
  <1>3. PICK p \in Plugin : attempt[a].of = {p}
    BY <1>1, <1>2 DEF Kind, Waiting, Activating, ExtensionsTyped, AttemptRecord
  <1>4. a \in Under(p) /\ p \in Owner
    BY <1>2, <1>3 DEF Under, Waiting, Activating, Owner
  <1>5. DOMAIN registry = Owner \X ToolName /\ \A n \in ToolName : <<p, n>> \in Owner \X ToolName
    BY <1>1, <1>4 DEF ExtensionTables
  <1>6. \A n \in ToolName : attempt[a].at = "importing" => a \notin registry[<<p, n>>]
    <2>1. OwnerInv(p)
      BY <1>4, ExtensionParts
    <2> QED BY <2>1 DEF OwnerInv
  <1>7. plugin \in [Plugin -> PluginRecord] /\ registry \in [Owner \X ToolName -> SUBSET Attempt]
    BY <1>1 DEF ExtensionTables
  <1>8. ASSUME NEW b \in BOOLEAN, plugin' = [plugin EXCEPT ![p].error = b]
        PROVE  (plugin \in [Plugin -> PluginRecord])' /\ \A q \in Plugin : plugin'[q].enabled = plugin[q].enabled
    <2> DEFINE row == [plugin[p] EXCEPT !.error = b]
    <2>1. row \in PluginRecord /\ row.enabled = plugin[p].enabled
      BY <1>7 DEF PluginRecord
    <2>2. plugin' = [plugin EXCEPT ![p] = row]
      BY <1>8
    <2> HIDE DEF row
    <2> QED BY <1>7, <2>1, <2>2
  <1>9. CASE Imported(a)
    <2>1. attempt' = [attempt EXCEPT ![a].at = "activating"] /\ UNCHANGED <<plugin, current, registry>>
      BY <1>9 DEF Imported
    <2> QED BY <1>2, <1>4, <1>7, <2>1, ActivationGoesOn
  <1>10. CASE Activated(a)
    <2>1. /\ attempt' = [attempt EXCEPT ![a].at = "done"] /\ UNCHANGED registry
          /\ current' = [current EXCEPT ![p] = {a}] /\ plugin' = [plugin EXCEPT ![p].error = FALSE]
      BY <1>3, <1>10 DEF Activated
    <2> QED BY <1>2, <1>4, <1>7, <1>8, <2>1, ActivationGoesOn
  <1>11. CASE ActivateFails(a)
    <2>1. /\ attempt' = [attempt EXCEPT ![a].at = "failed"] /\ UNCHANGED current
          /\ registry' = Without({a}) /\ plugin' = [plugin EXCEPT ![p].error = TRUE]
      BY <1>3, <1>11 DEF ActivateFails
    <2>2. (registry \in [Owner \X ToolName -> SUBSET Attempt])'
      BY <1>5, <1>7, <2>1 DEF Without
    <2>3. \A q \in Owner, n \in ToolName : registry'[<<q, n>>] = registry[<<q, n>>] \ {a}
      BY <1>5, <2>1 DEF Without
    <2>4. \A q \in Owner \ {p} : OwnerInv(q)
      BY ExtensionParts
    <2>5. \A q \in Owner \ {p}, n \in ToolName : a \notin registry[<<q, n>>]
      BY <1>3, <2>4 DEF OwnerInv
    <2>6. \A q \in Owner \ {p}, n \in ToolName : registry'[<<q, n>>] = registry[<<q, n>>]
      <3>1. \A tools \in SUBSET Attempt : a \notin tools => tools \ {a} = tools
        OBVIOUS
      <3>2. \A q \in Owner, n \in ToolName : registry[<<q, n>>] \in SUBSET Attempt
        BY <1>7
      <3> QED BY <2>3, <2>5, <3>1, <3>2
    <2>7. \A n \in ToolName : /\ registry'[<<p, n>>] \subseteq registry[<<p, n>>] \cup {a}
                              /\ a \notin registry'[<<p, n>>]
      BY <1>4, <2>3
    <2> QED BY <1>2, <1>4, <1>8, <2>1, <2>2, <2>6, <2>7, ActivationGoesOn
  <1>12. ASSUME NEW n \in ToolName, RegisterTool(a, n)
         PROVE  ExtensionsInv'
    <2>1. /\ attempt[a].at = "activating" /\ UNCHANGED <<plugin, current, attempt>>
          /\ registry' = [registry EXCEPT ![<<p, n>>] = {a}]
      BY <1>3, <1>12 DEF RegisterTool
    <2>2. attempt' = [attempt EXCEPT ![a].at = "activating"]
      <3>1. attempt \in [Attempt -> AttemptRecord]
        BY <1>1 DEF ExtensionsTyped
      <3> QED BY <2>1, <3>1 DEF AttemptRecord
    <2>3. (registry \in [Owner \X ToolName -> SUBSET Attempt])'
      BY <1>5, <1>7, <2>1
    <2>4. \A q \in Owner, m \in ToolName : registry'[<<q, m>>] = IF q = p /\ m = n THEN {a} ELSE registry[<<q, m>>]
      BY <1>7, <2>1
    <2> QED BY <1>2, <1>4, <1>7, <2>1, <2>2, <2>3, <2>4, ActivationGoesOn
  <1> QED BY <1>9, <1>10, <1>11, <1>12

\* What a command writes when what ran has been closed.
LEMMA AfterWrites ==
  ASSUME ExtensionsTyped, NEW o \in Owner, NEW r \in AttemptRecord, NEW saved \in [Plugin -> PluginRecord],
         After(o, r, saved)
  PROVE  /\ SecretsTypeOK' /\ (server \in [Server -> ServerRecord])' /\ (plugin \in [Plugin -> PluginRecord])'
         /\ \A q \in Server \ {o} : server'[q] = server[q]
         /\ \A q \in Plugin \ {o} : plugin'[q] = saved[q]
         /\ r.then = "opening" /\ o \in Server /\ server[o].status # "none" => server'[o].status # "none"
         /\ r.then = "importing" /\ o \in Plugin => plugin'[o].enabled = saved[o].enabled
  <1>1. server \in [Server -> ServerRecord]
    BY ExtensionTypes DEF ExtensionTables
  <1>2. r.auth \in {"none", "bearer", "oauth"} /\ r.token \in SUBSET Secret
    BY DEF AttemptRecord
  <1>3. ASSUME NEW s \in Server
        PROVE  /\ ServerAfter(s, r) \in ServerRecord
               /\ r.then = "opening" /\ server[s].status # "none" => ServerAfter(s, r).status # "none"
    <2>1. server[s] \in ServerRecord
      BY <1>1
    <2>2. CASE r.then = "save"
      BY <1>2, <2>1, <2>2 DEF ServerAfter, ServerRecord
    <2>3. CASE r.then = "delete"
      BY <2>3 DEF ServerAfter, ServerRecord, NoServer
    <2>4. CASE r.then = "disconnect" /\ server[s].status # "none"
      BY <2>1, <2>4 DEF ServerAfter, ServerRecord
    <2>5. CASE r.then = "opening" /\ server[s].status # "none"
      BY <2>1, <2>5 DEF ServerAfter, ServerRecord
    <2>6. CASE /\ r.then # "save" /\ r.then # "delete"
               /\ ~(r.then = "disconnect" /\ server[s].status # "none")
               /\ ~(r.then = "opening" /\ server[s].status # "none")
      <3>1. ServerAfter(s, r) = server[s]
        BY <2>6 DEF ServerAfter
      <3> QED BY <2>1, <2>6, <3>1
    <2> QED BY <2>2, <2>3, <2>4, <2>5, <2>6
  <1>4. ASSUME NEW was \in PluginRecord
        PROVE  /\ PluginAfter(was, r) \in PluginRecord
               /\ r.then = "importing" => PluginAfter(was, r).enabled = was.enabled
    BY <1>4 DEF PluginAfter, PluginRecord, NoPlugin
  <1>5. /\ (server \in [Server -> ServerRecord])'
        /\ \A q \in Server \ {o} : server'[q] = server[q]
        /\ r.then = "opening" /\ o \in Server /\ server[o].status # "none" => server'[o].status # "none"
    <2>1. CASE o \in Server
      <3> DEFINE row == ServerAfter(o, r)
      <3>1. row \in ServerRecord /\ (r.then = "opening" /\ server[o].status # "none" => row.status # "none")
        BY <1>3, <2>1
      <3>2. server' = [server EXCEPT ![o] = row]
        BY <2>1 DEF After
      <3> HIDE DEF row
      <3> QED BY <1>1, <2>1, <3>1, <3>2
    <2>2. CASE o \notin Server
      BY <1>1, <2>2 DEF After
    <2> QED BY <2>1, <2>2
  <1>6. /\ (plugin \in [Plugin -> PluginRecord])'
        /\ \A q \in Plugin \ {o} : plugin'[q] = saved[q]
        /\ r.then = "importing" /\ o \in Plugin => plugin'[o].enabled = saved[o].enabled
    <2>1. CASE o \in Plugin
      <3> DEFINE row == PluginAfter(saved[o], r)
      <3>1. row \in PluginRecord /\ (r.then = "importing" => row.enabled = saved[o].enabled)
        BY <1>4, <2>1
      <3>2. plugin' = [saved EXCEPT ![o] = row]
        BY <2>1 DEF After
      <3> HIDE DEF row
      <3> QED BY <2>1, <3>1, <3>2
    <2>2. CASE o \notin Plugin
      BY <2>2 DEF After
    <2> QED BY <2>1, <2>2
  <1>7. SecretsTypeOK'
    <2>1. CASE r.then = "delete"
      <3>1. Dropped(r.token, "") /\ "" \in Cut
        BY <2>1 DEF After, Cut
      <3> QED BY <3>1, DroppedTyped DEF ExtensionsTyped
    <2>2. CASE r.then # "delete"
      BY <2>2 DEF After, ExtensionsTyped, SecretsTypeOK, secretVars
    <2> QED BY <2>1, <2>2
  <1> QED BY <1>5, <1>6, <1>7

\* An attempt that starts: what it is doing, and for whom.
LEMMA StartedRecord ==
  ASSUME NEW r \in AttemptRecord
  PROVE  /\ Started(r) \in AttemptRecord /\ Started(r).of = r.of /\ Started(r).alone = r.alone
         /\ Started(r).then = r.then
         /\ Started(r).at = IF r.then \in {"opening", "importing"} THEN r.then ELSE "done"
  <1> DEFINE x == IF r.then \in {"opening", "importing"} THEN r.then ELSE "done"
  <1>1. x \in Waiting \cup {"none", "done", "failed"}
    BY DEF Waiting
  <1>2. Started(r) = [r EXCEPT !.at = x]
    BY DEF Started
  <1> HIDE DEF x
  <1>3. /\ Started(r) \in AttemptRecord /\ Started(r).of = r.of /\ Started(r).alone = r.alone
        /\ Started(r).then = r.then /\ Started(r).at = x
    BY <1>1, <1>2 DEF AttemptRecord
  <1> QED BY <1>3 DEF x

LEMMA ClosedKeeps ==
  ASSUME ExtensionsInv, NEW a \in Attempt, Closed(a)
  PROVE  ExtensionsInv'
  <1>1. ExtensionsTyped /\ ExtensionTables /\ Kind(a)
    BY ExtensionParts, ExtensionTypes
  <1>2. attempt \in [Attempt -> AttemptRecord] /\ tokens \in [Server -> SUBSET Secret] /\ plugin \in [Plugin -> PluginRecord]
    BY <1>1 DEF ExtensionsTyped, ExtensionTables
  <1>3. attempt[a].at = "closing" /\ UNCHANGED <<current, registry, tokens>>
    BY DEF Closed
  <1>4. PICK o \in Owner : attempt[a].of = {o}
    BY <1>1, <1>2, <1>3 DEF Kind, Waiting, AttemptRecord
  <1>5. After(o, attempt[a], plugin) /\ a \in Under(o)
    BY <1>3, <1>4 DEF Closed, Under, Waiting
  <1> DEFINE r == Started(attempt[a])
             then == attempt[a].then
  <1>6. attempt' = [attempt EXCEPT ![a] = r]
    BY DEF Closed
  <1>7. /\ r \in AttemptRecord /\ r.of = {o} /\ r.alone = attempt[a].alone /\ r.then = then
        /\ r.at = IF then \in {"opening", "importing"} THEN then ELSE "done"
    BY <1>2, <1>4, StartedRecord
  <1> HIDE DEF r
  <1>8. attempt'[a] = r /\ attempt' \in [Attempt -> AttemptRecord]
    BY <1>2, <1>6, <1>7
  <1>9. /\ SecretsTypeOK' /\ (server \in [Server -> ServerRecord])' /\ (plugin \in [Plugin -> PluginRecord])'
        /\ \A q \in Server \ {o} : server'[q] = server[q]
        /\ \A q \in Plugin \ {o} : plugin'[q] = plugin[q]
        /\ then = "opening" /\ o \in Server /\ server[o].status # "none" => server'[o].status # "none"
        /\ then = "importing" /\ o \in Plugin => plugin'[o].enabled = plugin[o].enabled
    BY <1>1, <1>2, <1>5, AfterWrites
  <1>10. ExtensionsTyped'
    <2>1. ExtensionTables'
      BY <1>1, <1>3, <1>9 DEF ExtensionTables
    <2>2. (attempt \in [Attempt -> AttemptRecord])' /\ (tokens \in [Server -> SUBSET Secret])'
      BY <1>2, <1>3, <1>8
    <2> QED BY <1>9, <2>1, <2>2, ExtensionTypesNow
  <1>11. Kind(a)'
    BY <1>1, <1>3, <1>4, <1>7, <1>8 DEF Kind, Connecting, Activating, OfServers, Waiting
  <1>12. OthersKept(o)
    BY <1>3, <1>9 DEF OthersKept
  <1>13. a \notin current[o] /\ (attempt[a].alone => StillWanted(o, a))
    BY <1>4, <1>5, UnderWay
  <1>14. r.alone => StillWanted(o, a)'
    BY <1>7, <1>8, <1>9, <1>13 DEF StillWanted, Connecting, Activating
  <1>15. \A n \in ToolName : a \notin registry'[<<o, n>>]
    <2>1. OwnerInv(o)
      BY ExtensionParts
    <2> QED BY <1>3, <2>1 DEF OwnerInv
  <1> QED BY ONLY ExtensionsInv, a \in Attempt, o \in Owner, <1>5, <1>6, <1>7, <1>10, <1>11, <1>12, <1>3, <1>13,
                  <1>14, <1>15, MoveKeeps

\* What is under way is overtaken: nothing else of it changes.
LEMMA OvertakenAre ==
  ASSUME ExtensionsTyped, NEW o \in Owner
  PROVE  /\ Overtaken(o) \in [Attempt -> AttemptRecord]
         /\ \A b \in Attempt : /\ Overtaken(o)[b].of = attempt[b].of /\ Overtaken(o)[b].at = attempt[b].at
                               /\ Overtaken(o)[b].then = attempt[b].then
                               /\ Overtaken(o)[b].alone => attempt[b].alone /\ b \notin Under(o)
                               /\ b \notin Under(o) => Overtaken(o)[b] = attempt[b]
  <1>1. attempt \in [Attempt -> AttemptRecord]
    BY DEF ExtensionsTyped
  <1>2. ASSUME NEW r \in AttemptRecord
        PROVE  LET q == [r EXCEPT !.alone = FALSE]
               IN q \in AttemptRecord /\ q.of = r.of /\ q.at = r.at /\ q.then = r.then /\ ~q.alone
    BY <1>2 DEF AttemptRecord
  <1>3. \A b \in Attempt : Overtaken(o)[b] = IF b \in Under(o) THEN [attempt[b] EXCEPT !.alone = FALSE] ELSE attempt[b]
    BY DEF Overtaken
  <1>4. Overtaken(o) \in [Attempt -> AttemptRecord]
    BY <1>1, <1>2 DEF Overtaken
  <1> QED BY <1>1, <1>2, <1>3, <1>4

\* What is closed takes its tools along.
LEMMA Retired ==
  ASSUME ExtensionTables, NEW o \in Owner, Retire(o)
  PROVE  /\ current' \in [Owner -> SUBSET Attempt] /\ registry' \in [Owner \X ToolName -> SUBSET Attempt]
         /\ current'[o] = {} /\ \A q \in Owner \ {o} : current'[q] = current[q]
         /\ \A q \in Owner, n \in ToolName : registry'[<<q, n>>] = registry[<<q, n>>] \ current[o]
  <1>1. DOMAIN registry = Owner \X ToolName
    BY DEF ExtensionTables
  <1> QED BY <1>1 DEF ExtensionTables, Retire, Without

\* A command begins, and what it waits for.
LEMMA CommandTurns ==
  ASSUME ExtensionsInv, NEW a \in Attempt, NEW o \in Owner, NEW rec \in AttemptRecord, attempt[a].at = "none",
         attempt' = [Overtaken(o) EXCEPT ![a] = rec], Retire(o),
         rec.of = {o}, rec.alone => Under(o) = {}, rec.at \in {"closing", "opening", "importing", "done"},
         SecretsTypeOK', (server \in [Server -> ServerRecord])', (plugin \in [Plugin -> PluginRecord])', UNCHANGED tokens,
         \A q \in Plugin \ {o} : plugin'[q].enabled = plugin[q].enabled,
         \A q \in Server \ {o} : server'[q].status = server[q].status,
         Kind(a)', StillWanted(o, a)'
  PROVE  ExtensionsInv'
  <1>1. ExtensionsTyped /\ ExtensionTables /\ (\A q \in Owner : OwnerInv(q)) /\ (\A b \in Attempt : Kind(b))
    BY ExtensionParts, ExtensionTypes
  <1>2. /\ attempt' \in [Attempt -> AttemptRecord] /\ attempt'[a] = rec
        /\ \A b \in Attempt \ {a} : attempt'[b] = Overtaken(o)[b]
    BY <1>1, OvertakenAre
  <1>3. /\ current' \in [Owner -> SUBSET Attempt] /\ registry' \in [Owner \X ToolName -> SUBSET Attempt]
        /\ current'[o] = {} /\ \A q \in Owner \ {o} : current'[q] = current[q]
        /\ \A q \in Owner, n \in ToolName : registry'[<<q, n>>] = registry[<<q, n>>] \ current[o]
    BY <1>1, Retired
  <1>4. ExtensionsTyped'
    <2>1. ExtensionTables'
      BY <1>3 DEF ExtensionTables
    <2>2. (attempt \in [Attempt -> AttemptRecord])' /\ (tokens \in [Server -> SUBSET Secret])'
      BY <1>1, <1>2 DEF ExtensionsTyped
    <2> QED BY <2>1, <2>2, ExtensionTypesNow
  <1>5. \A q \in Owner : a \notin current[q] /\ \A n \in ToolName : a \notin registry[<<q, n>>]
    BY <1>1 DEF OwnerInv
  <1>6. \A b \in Attempt \ {a} : /\ attempt'[b].of = attempt[b].of /\ attempt'[b].at = attempt[b].at
                                 /\ attempt'[b].then = attempt[b].then
                                 /\ attempt'[b].alone => attempt[b].alone /\ b \notin Under(o)
                                 /\ b \notin Under(o) => attempt'[b] = attempt[b]
    BY <1>1, <1>2, OvertakenAre
  <1>7. ASSUME NEW q \in Owner \ {o}
        PROVE  OwnerInv(q)'
    <2>1. /\ q \in Plugin => plugin'[q].enabled = plugin[q].enabled
          /\ q \in Server => server'[q].status = server[q].status
      OBVIOUS
    <2>2. current'[q] = current[q] /\ current'[q] \subseteq Attempt
      BY <1>3
    <2>3. \A n \in ToolName : registry[<<q, n>>] \subseteq Attempt
      BY <1>1 DEF ExtensionTables
    <2>4. \A b \in current[o] : attempt[b].of = {o}
      BY <1>1 DEF OwnerInv
    <2>5. \A n \in ToolName : \A b \in registry[<<q, n>>] : attempt[b].of = {q}
      BY <1>1 DEF OwnerInv
    <2>6. ASSUME NEW n \in ToolName
          PROVE  registry'[<<q, n>>] = registry[<<q, n>>]
      <3>1. \A b \in registry[<<q, n>>] : b \notin current[o]
        BY <2>4, <2>5
      <3>2. registry'[<<q, n>>] = registry[<<q, n>>] \ current[o]
        BY <1>3
      <3> QED BY <3>1, <3>2
    <2>7. \A b \in Attempt : (attempt[b].of = {q} /\ attempt[b].at # "none") \/ attempt'[b].of = {q} => attempt'[b] = attempt[b]
      <3>1. \A b \in Under(o) : attempt[b].of = {o}
        BY DEF Under
      <3>2. q # o /\ {o} # {q}
        OBVIOUS
      <3>3. \A b \in Attempt \ {a} : attempt[b].of = {q} => b \notin Under(o)
        BY <3>1, <3>2
      <3>4. attempt'[a].of # {q} /\ attempt[a].at = "none"
        BY <1>2, <3>2
      <3> QED BY <1>6, <3>3, <3>4
    <2> QED BY <1>1, <2>1, <2>2, <2>3, <2>6, <2>7, OthersStay
  <1>8. Under(o)' \subseteq Under(o) \cup {a}
    BY <1>6 DEF Under
  <1>9. \A b \in Under(o)' \ {a} : b \in Under(o) /\ ~attempt'[b].alone /\ ~rec.alone
    BY <1>6, <1>8 DEF Under
  <1>10. ASSUME NEW n \in ToolName, NEW b \in registry'[<<o, n>>]
         PROVE  /\ attempt'[b].of = {o} /\ attempt'[b].at \in {"activating", "done", "failed"}
                /\ attempt'[b].alone => b \in current'[o] \/ attempt'[b].at = "activating"
    <2>1. b \in registry[<<o, n>>] /\ b \notin current[o]
      BY <1>3
    <2>2. b \in Attempt \ {a}
      BY <1>1, <1>5, <2>1 DEF ExtensionTables
    <2>3. /\ attempt[b].of = {o} /\ attempt[b].at \in {"activating", "done", "failed"}
          /\ attempt[b].alone => attempt[b].at = "activating"
      BY <1>1, <2>1 DEF OwnerInv
    <2> QED BY <1>6, <2>2, <2>3
  <1>11. OwnerInv(o)'
    <2>1. \A b \in Under(o)' :
            /\ \A c \in current'[o] : ~attempt'[c].alone
            /\ \A c \in Under(o)' : c = b \/ ~attempt'[c].alone
            /\ attempt'[b].alone => StillWanted(o, b)'
      BY <1>2, <1>3, <1>9
    <2> QED BY <1>3, <1>10, <2>1 DEF OwnerInv
  <1>12. \A b \in Attempt \ {a} : Kind(b)'
    BY <1>1, <1>6 DEF Kind
  <1> QED BY <1>4, <1>7, <1>11, <1>12, ExtensionsNow

\* What an attempt is told to do, by the fields of its command.
Told(fields, o, alone) == [fields EXCEPT !.of = {o}, !.alone = alone]

LEMMA ToldRecord ==
  ASSUME NEW fields \in AttemptRecord, NEW o \in Owner, NEW alone \in BOOLEAN
  PROVE  /\ Told(fields, o, alone) \in AttemptRecord /\ Told(fields, o, alone).of = {o}
         /\ Told(fields, o, alone).then = fields.then /\ Told(fields, o, alone).alone = alone
  BY DEF Told, AttemptRecord

LEMMA ClosingRecord ==
  ASSUME NEW r \in AttemptRecord
  PROVE  LET q == [r EXCEPT !.at = "closing"]
         IN q \in AttemptRecord /\ q.at = "closing" /\ q.of = r.of /\ q.then = r.then /\ q.alone = r.alone
  BY DEF AttemptRecord, Waiting

LEMMA CommandKeeps ==
  ASSUME ExtensionsInv, NEW a \in Attempt, NEW o \in Owner, NEW fields \in AttemptRecord,
         NEW saved \in [Plugin -> PluginRecord], Command(a, o, fields, saved),
         \A q \in Plugin \ {o} : saved[q].enabled = plugin[q].enabled,
         fields.then \in OfServers \/ fields.then \in {"importing", "disable", "remove"},
         IF fields.then \in OfServers THEN o \in Server ELSE o \in Plugin,
         fields.then = "opening" => server[o].status # "none",
         fields.then = "importing" => saved[o].enabled
  PROVE  ExtensionsInv'
  <1> DEFINE alone == (Under(o) = {})
             q == Told(fields, o, alone)
  <1>1. /\ attempt[a].at = "none" /\ Retire(o) /\ UNCHANGED tokens
        /\ \/ attempt' = [Overtaken(o) EXCEPT ![a] = Started(q)] /\ After(o, q, saved)
           \/ /\ attempt' = [Overtaken(o) EXCEPT ![a] = [q EXCEPT !.at = "closing"]]
              /\ plugin' = saved /\ UNCHANGED <<secretVars, server>>
    BY DEF Command, Told
  <1>2. alone \in BOOLEAN /\ (alone => Under(o) = {})
    OBVIOUS
  <1> HIDE DEF alone
  <1>3. q \in AttemptRecord /\ q.of = {o} /\ q.then = fields.then /\ (q.alone => Under(o) = {})
    BY <1>2, ToldRecord
  <1> HIDE DEF q
  <1>4. ExtensionsTyped /\ server \in [Server -> ServerRecord]
    BY ExtensionParts, ExtensionTypes DEF ExtensionTables
  <1>5. PICK rec \in AttemptRecord :
          /\ attempt' = [Overtaken(o) EXCEPT ![a] = rec]
          /\ rec.of = {o} /\ rec.then = fields.then /\ (rec.alone => Under(o) = {})
          /\ rec.at = "closing" \/ rec.at = IF fields.then \in {"opening", "importing"} THEN fields.then ELSE "done"
    <2>1. CASE attempt' = [Overtaken(o) EXCEPT ![a] = Started(q)]
      <3> DEFINE rec == Started(q)
      <3>1. rec \in AttemptRecord /\ rec.of = q.of /\ rec.then = q.then /\ rec.alone = q.alone
        BY <1>3, StartedRecord
      <3>2. rec.at = IF q.then \in {"opening", "importing"} THEN q.then ELSE "done"
        BY <1>3, StartedRecord
      <3>3. attempt' = [Overtaken(o) EXCEPT ![a] = rec]
        BY <2>1
      <3> HIDE DEF rec
      <3> QED BY <1>3, <3>1, <3>2, <3>3
    <2>2. CASE attempt' = [Overtaken(o) EXCEPT ![a] = [q EXCEPT !.at = "closing"]]
      <3> DEFINE rec == [q EXCEPT !.at = "closing"]
      <3>1. /\ rec \in AttemptRecord /\ rec.at = "closing"
            /\ rec.of = q.of /\ rec.then = q.then /\ rec.alone = q.alone
        BY <1>3, ClosingRecord
      <3>2. attempt' = [Overtaken(o) EXCEPT ![a] = rec]
        BY <2>2
      <3> HIDE DEF rec
      <3> QED BY <1>3, <3>1, <3>2
    <2> QED BY <1>1, <2>1, <2>2
  <1>6. /\ SecretsTypeOK' /\ (server \in [Server -> ServerRecord])' /\ (plugin \in [Plugin -> PluginRecord])'
        /\ \A s \in Server \ {o} : server'[s] = server[s]
        /\ \A p \in Plugin \ {o} : plugin'[p] = saved[p]
        /\ fields.then = "opening" => server'[o].status # "none"
        /\ fields.then = "importing" => plugin'[o].enabled
    <2>1. CASE After(o, q, saved)
      BY <1>3, <1>4, <2>1, AfterWrites DEF OfServers
    <2>2. CASE plugin' = saved /\ UNCHANGED <<secretVars, server>>
      BY <1>4, <2>2 DEF ExtensionsTyped, SecretsTypeOK, secretVars
    <2> QED BY <1>1, <2>1, <2>2
  <1>7. attempt'[a] = rec
    BY <1>4, <1>5, OvertakenAre
  <1>8. rec.at \in {"closing", "opening", "importing", "done"}
    BY <1>5
  <1>9. Kind(a)'
    BY <1>5, <1>7 DEF Kind, Connecting, Activating, OfServers, Waiting
  <1>10. StillWanted(o, a)'
    <2>1. rec.at \in Connecting => fields.then = "opening"
      BY <1>5 DEF Connecting
    <2>2. rec.at \in Activating => fields.then = "importing"
      BY <1>5 DEF Activating
    <2> QED BY <1>5, <1>6, <1>7, <2>1, <2>2 DEF StillWanted, OfServers
  <1>11. /\ \A p \in Plugin \ {o} : plugin'[p].enabled = plugin[p].enabled
         /\ \A s \in Server \ {o} : server'[s].status = server[s].status
    BY <1>6
  <1> QED BY ONLY ExtensionsInv, a \in Attempt, o \in Owner, rec \in AttemptRecord, <1>1, <1>5, <1>6, <1>8, <1>9,
                  <1>10, <1>11, CommandTurns

LEMMA ServerCommandsKeep ==
  ASSUME ExtensionsInv, NEW a \in Attempt, NEW s \in Server,
         (\E auth \in {"bearer", "oauth"}, given \in Given : SaveServer(a, s, auth, given))
           \/ DisconnectServer(a, s) \/ DeleteServer(a, s) \/ Connect(a, s)
  PROVE  ExtensionsInv'
  <1>1. server \in [Server -> ServerRecord] /\ plugin \in [Plugin -> PluginRecord] /\ s \in Owner
    BY ExtensionParts, ExtensionTypes DEF ExtensionTables, Owner
  <1>2. server[s].auth \in {"none", "bearer", "oauth"} /\ server[s].token \in SUBSET Secret
    BY <1>1 DEF ServerRecord
  <1>3. ASSUME NEW fields \in AttemptRecord, Command(a, s, fields, plugin), fields.then \in OfServers,
               fields.then = "opening" => server[s].status # "none"
        PROVE  ExtensionsInv'
    <2>1. fields.then # "importing"
      BY <1>3 DEF OfServers
    <2> QED BY <1>1, <1>3, <2>1, CommandKeeps
  <1>4. ASSUME NEW auth \in {"bearer", "oauth"}, NEW given \in Given, SaveServer(a, s, auth, given)
        PROVE  ExtensionsInv'
    <2> DEFINE token  == IF given # {} THEN given ELSE server[s].token
               fields == [NoTry EXCEPT !.then = "save", !.auth = auth, !.token = token]
    <2>1. Command(a, s, fields, plugin)
      BY <1>4 DEF SaveServer
    <2>2. token \in SUBSET Secret
      BY <1>2 DEF Given
    <2> HIDE DEF token
    <2>3. fields \in AttemptRecord /\ fields.then = "save"
      BY <2>2 DEF NoTry, AttemptRecord
    <2> HIDE DEF fields
    <2> QED BY <1>3, <2>1, <2>3 DEF OfServers
  <1>5. CASE DisconnectServer(a, s)
    <2> DEFINE fields == [NoTry EXCEPT !.then = "disconnect"]
    <2>1. fields \in AttemptRecord /\ fields.then = "disconnect"
      BY DEF NoTry, AttemptRecord
    <2>2. Command(a, s, fields, plugin)
      BY <1>5 DEF DisconnectServer
    <2> HIDE DEF fields
    <2> QED BY <1>3, <2>1, <2>2 DEF OfServers
  <1>6. CASE DeleteServer(a, s)
    <2> DEFINE fields == [NoTry EXCEPT !.then = "delete", !.token = server[s].token]
    <2>1. fields \in AttemptRecord /\ fields.then = "delete"
      BY <1>2 DEF NoTry, AttemptRecord
    <2>2. Command(a, s, fields, plugin)
      BY <1>6 DEF DeleteServer
    <2> HIDE DEF fields
    <2> QED BY <1>3, <2>1, <2>2 DEF OfServers
  <1>7. CASE Connect(a, s)
    <2> DEFINE fields == [NoTry EXCEPT !.then = "opening", !.auth = server[s].auth, !.token = server[s].token]
    <2>1. fields \in AttemptRecord /\ fields.then = "opening"
      BY <1>2 DEF NoTry, AttemptRecord
    <2>2. Command(a, s, fields, plugin) /\ server[s].status # "none"
      BY <1>7 DEF Connect, HasRow
    <2> HIDE DEF fields
    <2> QED BY <1>3, <2>1, <2>2 DEF OfServers
  <1> QED BY <1>4, <1>5, <1>6, <1>7

LEMMA PluginCommandsKeep ==
  ASSUME ExtensionsInv, NEW a \in Attempt, NEW p \in Plugin,
         (\E enabled \in BOOLEAN : SetEnabled(a, p, enabled)) \/ RemovePlugin(a, p)
  PROVE  ExtensionsInv'
  <1>1. plugin \in [Plugin -> PluginRecord] /\ p \in Owner
    BY ExtensionParts, ExtensionTypes DEF ExtensionTables, Owner
  <1>2. ASSUME NEW enabled \in BOOLEAN, SetEnabled(a, p, enabled)
        PROVE  ExtensionsInv'
    <2> DEFINE then == IF enabled THEN "importing" ELSE "disable"
               fields == [NoTry EXCEPT !.then = then, !.granted = plugin[p].granted]
               row == [plugin[p] EXCEPT !.enabled = enabled]
               saved == [plugin EXCEPT ![p] = row]
    <2>1. plugin[p].granted \in BOOLEAN /\ row \in PluginRecord /\ row.enabled = enabled
      BY <1>1 DEF PluginRecord
    <2>2. then \in {"importing", "disable"} /\ (then = "importing" => enabled)
      OBVIOUS
    <2>3. Command(a, p, fields, saved)
      BY <1>2 DEF SetEnabled
    <2> HIDE DEF then
    <2>4. fields \in AttemptRecord /\ fields.then = then
      BY <2>1, <2>2 DEF NoTry, AttemptRecord
    <2> HIDE DEF fields, row
    <2>5. saved \in [Plugin -> PluginRecord] /\ saved[p].enabled = enabled /\ \A q \in Plugin \ {p} : saved[q] = plugin[q]
      BY <1>1, <2>1
    <2> HIDE DEF saved
    <2>6. fields.then \notin OfServers /\ fields.then # "opening"
      BY <2>2, <2>4 DEF OfServers
    <2> QED BY <1>1, <2>2, <2>3, <2>4, <2>5, <2>6, CommandKeeps
  <1>3. CASE RemovePlugin(a, p)
    <2> DEFINE fields == [NoTry EXCEPT !.then = "remove"]
    <2>1. fields \in AttemptRecord /\ fields.then = "remove"
      BY DEF NoTry, AttemptRecord
    <2>2. Command(a, p, fields, plugin)
      BY <1>3 DEF RemovePlugin
    <2> HIDE DEF fields
    <2>3. fields.then \notin OfServers
      BY <2>1 DEF OfServers
    <2> QED BY <1>1, <2>1, <2>2, <2>3, CommandKeeps
  <1> QED BY <1>2, <1>3

LEMMA InstallKeeps ==
  ASSUME ExtensionsInv, NEW p \in Plugin, Install(p)
  PROVE  ExtensionsInv'
  <1>1. ExtensionsTyped /\ ExtensionTables /\ (\A q \in Owner : OwnerInv(q)) /\ (\A b \in Attempt : Kind(b))
    BY ExtensionParts, ExtensionTypes
  <1>2. p \in Owner /\ attempt \in [Attempt -> AttemptRecord] /\ plugin \in [Plugin -> PluginRecord]
    BY <1>1 DEF Owner, ExtensionsTyped, ExtensionTables
  <1>3. UNCHANGED <<secretVars, server, tokens, current, registry>>
    BY DEF Install, forPlugins
  <1> DEFINE row == [NoPlugin EXCEPT !.installed = TRUE, !.error = plugin[p].error]
  <1>4. plugin' = [plugin EXCEPT ![p] = row]
    BY DEF Install
  <1>5. plugin[p].error \in BOOLEAN
    BY <1>2 DEF PluginRecord
  <1>6. row \in PluginRecord
    BY <1>5 DEF NoPlugin, PluginRecord
  <1> HIDE DEF row
  <1>7. (plugin \in [Plugin -> PluginRecord])' /\ \A q \in Plugin \ {p} : plugin'[q] = plugin[q]
    BY <1>2, <1>4, <1>6
  <1>8. ASSUME NEW r \in AttemptRecord
        PROVE  LET q == [r EXCEPT !.alone = FALSE]
               IN q \in AttemptRecord /\ q.of = r.of /\ q.at = r.at /\ q.then = r.then /\ ~q.alone
    BY <1>8 DEF AttemptRecord
  <1>9. attempt' = [a \in Attempt |-> IF a \in Under(p) \cup current[p] THEN [attempt[a] EXCEPT !.alone = FALSE]
                                      ELSE attempt[a]]
    BY DEF Install
  <1>10. (attempt \in [Attempt -> AttemptRecord])'
    BY <1>2, <1>8, <1>9
  <1>11. \A b \in Attempt : /\ attempt'[b].of = attempt[b].of /\ attempt'[b].at = attempt[b].at
                            /\ attempt'[b].then = attempt[b].then
                            /\ attempt'[b].alone => attempt[b].alone
                            /\ b \in Under(p) \cup current[p] => ~attempt'[b].alone
                            /\ b \notin Under(p) \cup current[p] => attempt'[b] = attempt[b]
    BY <1>2, <1>8, <1>9
  <1>12. current[p] \subseteq Attempt /\ \A q \in Owner, n \in ToolName : registry[<<q, n>>] \subseteq Attempt
    BY <1>1, <1>2 DEF ExtensionTables
  <1>13. ExtensionsTyped'
    <2>1. ExtensionTables'
      BY <1>1, <1>3, <1>7 DEF ExtensionTables
    <2>2. SecretsTypeOK' /\ (tokens \in [Server -> SUBSET Secret])'
      BY <1>1, <1>3 DEF ExtensionsTyped, SecretsTypeOK, secretVars
    <2> QED BY <1>10, <2>1, <2>2, ExtensionTypesNow
  <1>14. ASSUME NEW q \in Owner \ {p}
         PROVE  OwnerInv(q)'
    <2>1. \A b \in Under(p) \cup current[p] : attempt[b].of = {p}
      BY <1>1, <1>2 DEF Under, OwnerInv
    <2>2. {p} # {q}
      OBVIOUS
    <2>3. \A b \in Attempt : attempt[b].of = {q} => attempt'[b] = attempt[b]
      BY <1>11, <2>1, <2>2
    <2>4. current'[q] = current[q] /\ current'[q] \subseteq Attempt
      BY <1>1, <1>3 DEF ExtensionTables
    <2>5. \A n \in ToolName : registry'[<<q, n>>] = registry[<<q, n>>] /\ registry[<<q, n>>] \subseteq Attempt
      BY <1>3, <1>12
    <2>6. \A b \in Attempt : (attempt[b].of = {q} /\ attempt[b].at # "none") \/ attempt'[b].of = {q} => attempt'[b] = attempt[b]
      BY <1>11, <2>3
    <2> QED BY <1>1, <1>3, <1>7, <2>4, <2>5, <2>6, OthersStay
  <1>15. Under(p)' = Under(p) /\ \A b \in Under(p) : b \in Attempt
    BY <1>11 DEF Under
  <1>16. OwnerInv(p)'
    <2>1. \A b \in current'[p] : /\ attempt'[b].of = {p} /\ attempt'[b].at \in {"done", "failed"}
                                 /\ ~attempt'[b].alone
      BY <1>1, <1>2, <1>3, <1>11, <1>12 DEF OwnerInv
    <2>2. \A n \in ToolName : \A b \in registry'[<<p, n>>] :
            /\ attempt'[b].of = {p} /\ attempt'[b].at \in {"activating", "done", "failed"}
            /\ attempt'[b].alone => b \in current'[p] \/ attempt'[b].at = "activating"
      BY <1>1, <1>2, <1>3, <1>11, <1>12 DEF OwnerInv
    <2>3. \A b \in Under(p)' : ~attempt'[b].alone
      BY <1>11, <1>15
    <2> QED BY <2>1, <2>2, <2>3 DEF OwnerInv
  <1>17. \A b \in Attempt : Kind(b)'
    BY <1>1, <1>11 DEF Kind
  <1> QED BY <1>13, <1>14, <1>16, <1>17, ExtensionsNow

LEMMA GrantKeeps ==
  ASSUME ExtensionsInv, (\E p \in Plugin, granted \in BOOLEAN : Grant(p, granted))
                          \/ UNCHANGED <<secretVars, extensionVars>>
  PROVE  ExtensionsInv'
  <1>1. ExtensionsTyped /\ ExtensionTables /\ (\A q \in Owner : OwnerInv(q)) /\ (\A b \in Attempt : Kind(b))
    BY ExtensionParts, ExtensionTypes
  <1>2. UNCHANGED <<secretVars, server, tokens, current, registry, attempt>>
    BY DEF Grant, forPlugins, extensionVars
  <1>3. plugin \in [Plugin -> PluginRecord]
    BY <1>1 DEF ExtensionTables
  <1>4. (plugin \in [Plugin -> PluginRecord])' /\ \A q \in Plugin : plugin'[q].enabled = plugin[q].enabled
    <2>1. ASSUME NEW p \in Plugin, NEW granted \in BOOLEAN, plugin' = [plugin EXCEPT ![p].granted = granted]
          PROVE  (plugin \in [Plugin -> PluginRecord])' /\ \A q \in Plugin : plugin'[q].enabled = plugin[q].enabled
      <3> DEFINE row == [plugin[p] EXCEPT !.granted = granted]
      <3>1. row \in PluginRecord /\ row.enabled = plugin[p].enabled
        BY <1>3 DEF PluginRecord
      <3>2. plugin' = [plugin EXCEPT ![p] = row]
        BY <2>1
      <3> HIDE DEF row
      <3> QED BY <1>3, <3>1, <3>2
    <2> QED BY <1>3, <2>1 DEF Grant, extensionVars
  <1>5. ExtensionsTyped'
    <2>1. ExtensionTables'
      BY <1>1, <1>2, <1>4 DEF ExtensionTables
    <2>2. SecretsTypeOK' /\ (tokens \in [Server -> SUBSET Secret])' /\ (attempt \in [Attempt -> AttemptRecord])'
      BY <1>1, <1>2 DEF ExtensionsTyped, SecretsTypeOK, secretVars
    <2> QED BY <2>1, <2>2, ExtensionTypesNow
  <1>6. ASSUME NEW q \in Owner
        PROVE  OwnerInv(q)'
    <2>1. current'[q] = current[q] /\ current'[q] \subseteq Attempt
      BY <1>1, <1>2 DEF ExtensionTables
    <2>2. \A n \in ToolName : registry'[<<q, n>>] = registry[<<q, n>>] /\ registry[<<q, n>>] \subseteq Attempt
      BY <1>1, <1>2 DEF ExtensionTables
    <2> QED BY <1>1, <1>2, <1>4, <2>1, <2>2, OthersStay
  <1>7. \A b \in Attempt : Kind(b)'
    BY <1>1, <1>2 DEF Kind
  <1> QED BY <1>5, <1>6, <1>7, ExtensionsNow

\* The panel's token becomes one of the server's; nothing else changes.
LEMMA StoreTokenKeeps ==
  ASSUME ExtensionsInv, NEW s \in Server, NEW k \in Secret, StoreToken(s, k)
  PROVE  ExtensionsInv'
  <1>1. ExtensionsTyped /\ ExtensionTables /\ (\A q \in Owner : OwnerInv(q)) /\ (\A b \in Attempt : Kind(b))
    BY ExtensionParts, ExtensionTypes
  <1>2. UNCHANGED <<server, current, registry, attempt, plugin>>
    BY DEF StoreToken
  <1>3. (attempt \in [Attempt -> AttemptRecord])' /\ ExtensionTables'
    BY <1>1, <1>2 DEF ExtensionsTyped, ExtensionTables
  <1>4. SecretsTypeOK'
    BY <1>1, StoredTyped DEF StoreToken, ExtensionsTyped, Cut
  <1>5. (tokens \in [Server -> SUBSET Secret])'
    <2>1. tokens \in [Server -> SUBSET Secret] /\ tokens[s] \cup {k} \in SUBSET Secret
      BY <1>1 DEF ExtensionsTyped
    <2>2. tokens' = [tokens EXCEPT ![s] = tokens[s] \cup {k}]
      BY DEF StoreToken
    <2> QED BY <2>1, <2>2
  <1>6. ASSUME NEW q \in Owner
        PROVE  OwnerInv(q)'
    <2>1. current[q] \subseteq Attempt /\ \A n \in ToolName : registry[<<q, n>>] \subseteq Attempt
      BY <1>1 DEF ExtensionTables
    <2> QED BY <1>1, <1>2, <2>1, OthersStay
  <1>7. \A b \in Attempt : Kind(b)'
    BY <1>1, <1>2 DEF Kind
  <1> QED BY <1>3, <1>4, <1>5, <1>6, <1>7, ExtensionTypesNow, ExtensionsNow

LEMMA ExtensionsInitInv ==
  ASSUME SecretsInit, ExtensionsInit
  PROVE  ExtensionsInv
  <1>1. NoTry \in AttemptRecord /\ NoTry.of = {} /\ NoTry.at = "none" /\ NoTry.then = "none"
    BY DEF NoTry, AttemptRecord
  <1>2. \A a \in Attempt : attempt[a] = NoTry
    BY DEF ExtensionsInit
  <1>3. NoServer \in ServerRecord /\ [status : {"disconnected"}, auth : {"bearer", "oauth"}, token : {{}}] \subseteq ServerRecord
    BY DEF NoServer, ServerRecord
  <1>4. NoPlugin \in PluginRecord /\ [NoPlugin EXCEPT !.installed = TRUE, !.granted = TRUE] \in PluginRecord
    BY DEF NoPlugin, PluginRecord
  <1>5. ExtensionTables
    BY <1>3, <1>4 DEF ExtensionTables, ExtensionsInit
  <1>6. ExtensionsTyped
    BY <1>1, <1>5, SecretsInitTyped, ExtensionTypes DEF ExtensionsInit
  <1>7. ASSUME NEW o \in Owner
        PROVE  OwnerInv(o)
    <2>1. current[o] = {} /\ \A n \in ToolName : registry[<<o, n>>] = {}
      BY DEF ExtensionsInit
    <2>2. Under(o) = {}
      BY <1>1, <1>2 DEF Under, Waiting
    <2> QED BY <2>1, <2>2 DEF OwnerInv
  <1>8. \A a \in Attempt : Kind(a)
    BY <1>1, <1>2 DEF Kind, Waiting, Connecting, Activating
  <1> QED BY <1>6, <1>7, <1>8, ExtensionParts

\* One step per action of Extensions.
LEMMA ExtensionsStepKeeps ==
  ASSUME ExtensionsInv, [ExtensionsNext]_<<secretVars, extensionVars>>
  PROVE  ExtensionsInv'
  <1>1. ASSUME NEW a \in Attempt, ServerSteps(a)
        PROVE  ExtensionsInv'
    BY <1>1, ServerCommandsKeep, ConnectStepsKeep, ConnectedKeeps DEF ServerSteps
  <1>2. ASSUME NEW a \in Attempt, PluginSteps(a)
        PROVE  ExtensionsInv'
    BY <1>2, PluginCommandsKeep, PluginStepsKeep DEF PluginSteps
  <1>3. CASE UNCHANGED <<secretVars, extensionVars>>
    BY <1>3, GrantKeeps
  <1>4. CASE ExtensionsNext
    BY <1>1, <1>2, <1>4, ClosedKeeps, InstallKeeps, GrantKeeps, StoreTokenKeeps DEF ExtensionsNext
  <1> QED BY <1>3, <1>4

\* However connects, sign-ins, activations, saves, deletes and enables of any
\* servers and plugins interleave (mcp-wiring.ts, plugins-wiring.ts, loader.ts):
\* the variables keep their types, what is in the maps and in the registry was
\* put there by an attempt on that server or plugin, and of what is under way
\* for one of them at most one is alone, and is then still wanted.
THEOREM ExtensionsInvHolds == ExtensionsSpec => []ExtensionsInv
  <1> QED BY ExtensionsInitInv, ExtensionsStepKeeps, PTL DEF ExtensionsSpec

\* A tool in the registry belongs to a connection or activation that stands, and
\* what stands is wanted: a plugin enabled, a server connected (disconnect and
\* deactivate of the wiring, unregister on a failed activation of loader.ts),
\* unless another command has overtaken the attempt.
THEOREM ToolsHaveTheirOwnerHolds == ExtensionsSpec => []ToolsHaveTheirOwner
  <1>1. ExtensionsInv => ToolsHaveTheirOwner
    BY DEF ExtensionsInv
  <1> QED BY <1>1, ExtensionsInvHolds, PTL

-----------------------------------------------------------------------------
(* Projects: the folders                                                    *)

CatalogRow == [at : {"none", "kept", "gone"}, dir : {{}} \cup {{d} : d \in Dir},
               origin : {"none", "created", "copied", "imported"}]

\* What is about the catalog and the folders.
FoldersInv ==
  /\ catalog \in [Project -> CatalogRow] /\ initial \in [Project -> {"none", "pending", "done", "failed"}]
  /\ folder \in [Dir -> {"none", "user", "program"}] /\ removed \subseteq Dir
  /\ \A p \in Cataloged : DirOf(p) # {}
  /\ FoldersStand /\ FoldersAreApart

RefName == {"none", "general"} \cup UNION {{doc[i] : i \in DOMAIN doc} : doc \in Doc}
RefRow  == [of : {{}} \cup {{p} : p \in Project}, ref : RefName]
FactRow == [at : {"none", "kept", "gone"}, of : {{}} \cup {{p} : p \in Project}, by : SUBSET Fact]

\* The requirements a project has synced, and the rows that are its own.
SyncedRefs(p) == IF synced[p] = 0 THEN <<>> ELSE Derived(blueprint[p][synced[p]])
Mine(p)       == {i \in RefId : requirement[i].of = {p}}
Matched(p)    == Mine(p) = DOMAIN SyncedRefs(p) /\ \A i \in Mine(p) : requirement[i].ref = SyncedRefs(p)[i]

\* What is about blueprints and requirements.
RowsInv ==
  /\ configured \subseteq Cataloged /\ refused \subseteq Project
  /\ blueprint \in [Project -> Seq(Doc)] /\ approved \in [Project -> SUBSET Nat] /\ synced \in [Project -> Nat]
  /\ requirement \in [RefId -> RefRow]
  /\ \A i \in RefId : requirement[i].of \subseteq Cataloged
  /\ \A p \in Project : /\ Len(blueprint[p]) <= MaxBlueprints /\ approved[p] \subseteq DOMAIN blueprint[p]
                        /\ synced[p] <= Len(blueprint[p])
                        /\ p \notin Cataloged => synced[p] = 0 /\ blueprint[p] = <<>> /\ approved[p] = {}
  /\ \A p \in Cataloged : Matched(p)

FactsInv ==
  /\ fact \in [Fact -> FactRow]
  /\ \A f \in Fact : fact[f].at = "kept" => fact[f].of \subseteq Cataloged

EffortTyped == effort \in [folders : Nat, papers : Nat, facts : Nat]

LEMMA ProjectsParts == ProjectsInv <=> FoldersInv /\ RowsInv /\ FactsInv /\ EffortTyped
  <1>1. Cataloged \subseteq Project
    BY DEF Cataloged
  <1>2. CatalogTyped <=> /\ catalog \in [Project -> CatalogRow] /\ initial \in [Project -> {"none", "pending", "done", "failed"}]
                         /\ (\A p \in Cataloged : DirOf(p) # {}) /\ EffortTyped
    BY DEF CatalogTyped, CatalogRow, EffortTyped
  <1>3. PapersTyped <=>
          /\ blueprint \in [Project -> Seq(Doc)] /\ approved \in [Project -> SUBSET Nat] /\ synced \in [Project -> Nat]
          /\ requirement \in [RefId -> RefRow] /\ fact \in [Fact -> FactRow]
          /\ \A p \in Project : /\ synced[p] <= Len(blueprint[p])
                                /\ p \notin Cataloged => synced[p] = 0 /\ blueprint[p] = <<>> /\ approved[p] = {}
    BY DEF PapersTyped, RefRow, RefName, FactRow
  <1>4. (catalog \in [Project -> CatalogRow]) =>
          \A p \in Project : /\ catalog[p].at \in {"none", "kept", "gone"} /\ catalog[p].dir \subseteq Dir
                             /\ catalog[p].origin \in {"none", "created", "copied", "imported"}
    BY DEF CatalogRow
  <1>5. (initial \in [Project -> {"none", "pending", "done", "failed"}]) =>
          \A p \in Project : initial[p] \in {"none", "pending", "done", "failed"}
    OBVIOUS
  <1>6. ProjectsTypeOK <=>
          /\ \A p \in Project : /\ catalog[p].at \in {"none", "kept", "gone"} /\ catalog[p].dir \subseteq Dir
                                /\ catalog[p].origin \in {"none", "created", "copied", "imported"}
                                /\ initial[p] \in {"none", "pending", "done", "failed"}
                                /\ Len(blueprint[p]) <= MaxBlueprints /\ approved[p] \subseteq DOMAIN blueprint[p]
          /\ folder \in [Dir -> {"none", "user", "program"}] /\ removed \subseteq Dir
          /\ configured \cup refused \subseteq Project /\ configured \subseteq Cataloged
          /\ \A i \in RefId : requirement[i].of \subseteq Cataloged
          /\ \A f \in Fact : fact[f].at = "kept" => fact[f].of \subseteq Cataloged
          /\ \A p \in Cataloged : Matched(p)
    BY DEF ProjectsTypeOK, Matched, Mine, SyncedRefs
  <1>7. ASSUME FoldersInv, RowsInv, FactsInv, EffortTyped
        PROVE  ProjectsInv
    <2>1. configured \cup refused \subseteq Project
      BY <1>1, <1>7 DEF RowsInv
    <2> QED BY <1>2, <1>3, <1>4, <1>5, <1>6, <1>7, <2>1 DEF ProjectsInv, FoldersInv, RowsInv, FactsInv
  <1>8. ASSUME ProjectsInv
        PROVE  FoldersInv /\ RowsInv /\ FactsInv /\ EffortTyped
    <2>1. FoldersInv
      BY <1>2, <1>6, <1>8 DEF ProjectsInv, FoldersInv
    <2>2. RowsInv
      BY <1>3, <1>6, <1>8 DEF ProjectsInv, RowsInv
    <2>3. FactsInv /\ EffortTyped
      BY <1>2, <1>3, <1>6, <1>8 DEF ProjectsInv, FactsInv
    <2> QED BY <2>1, <2>2, <2>3
  <1> QED BY <1>7, <1>8

LEMMA ProjectsNow ==
  ASSUME FoldersInv', RowsInv', FactsInv', EffortTyped'
  PROVE  ProjectsInv'
  BY ProjectsParts, PTL

\* The folders change under the projects there are.
LEMMA FoldersMove ==
  ASSUME FoldersInv, UNCHANGED catalog, folder' \in [Dir -> {"none", "user", "program"}],
         removed \subseteq removed', removed' \subseteq Dir,
         \A d \in Dir : folder'[d] = "none" => folder[d] = "none" \/ d \in removed',
         initial' \in [Project -> {"none", "pending", "done", "failed"}]
  PROVE  FoldersInv'
  <1>1. Cataloged' = Cataloged /\ \A p : DirOf(p)' = DirOf(p)
    BY DEF Cataloged, DirOf
  <1>2. \A p \in Cataloged : DirOf(p) \subseteq Dir
    BY DEF FoldersInv, Cataloged, DirOf, CatalogRow
  <1>3. FoldersStand'
    BY <1>1, <1>2 DEF FoldersStand, FoldersInv
  <1>4. FoldersAreApart'
    BY <1>1 DEF FoldersAreApart, FoldersInv
  <1> QED BY <1>1, <1>3, <1>4 DEF FoldersInv

\* A project is inserted in a folder that stands, and that no other project has
\* unless it was removed from under it.
LEMMA InsertKeeps ==
  ASSUME FoldersInv, NEW p \in Project, NEW d \in Dir, NEW origin \in {"created", "copied", "imported"},
         Insert(p, d, origin), p \notin Cataloged,
         folder' \in [Dir -> {"none", "user", "program"}],
         \A e \in Dir : folder'[e] = "none" => folder[e] = "none",
         folder'[d] # "none",
         \A q \in Cataloged : DirOf(q) = {d} => d \in removed
  PROVE  FoldersInv' /\ Cataloged' = Cataloged \cup {p}
  <1> DEFINE row == [at |-> "kept", dir |-> {d}, origin |-> origin]
  <1>1. row \in CatalogRow /\ row.at = "kept" /\ row.dir = {d}
    BY DEF CatalogRow
  <1>2. catalog' = [catalog EXCEPT ![p] = row] /\ UNCHANGED removed
    BY DEF Insert
  <1> HIDE DEF row
  <1>3. /\ catalog' \in [Project -> CatalogRow] /\ catalog'[p] = row
        /\ \A q \in Project \ {p} : catalog'[q] = catalog[q]
    BY <1>1, <1>2 DEF FoldersInv
  <1>4. Cataloged' = Cataloged \cup {p}
    BY <1>1, <1>3 DEF Cataloged
  <1>5. DirOf(p)' = {d} /\ \A q \in Cataloged : DirOf(q)' = DirOf(q)
    BY <1>1, <1>3 DEF DirOf, Cataloged
  <1>6. \A q \in Cataloged : DirOf(q) \subseteq Dir
    BY DEF FoldersInv, Cataloged, DirOf, CatalogRow
  <1>7. FoldersStand'
    BY <1>2, <1>4, <1>5, <1>6 DEF FoldersStand, FoldersInv
  <1>8. FoldersAreApart'
    <2> SUFFICES ASSUME NEW q \in Cataloged', NEW r \in Cataloged', q # r, DirOf(q)' = DirOf(r)'
                 PROVE  DirOf(q)' \subseteq removed'
      BY DEF FoldersAreApart
    <2>1. CASE q = p
      BY <1>2, <1>4, <1>5, <2>1
    <2>2. CASE r = p
      BY <1>2, <1>4, <1>5, <2>2
    <2>3. CASE q # p /\ r # p
      <3>1. q \in Cataloged /\ r \in Cataloged
        BY <1>4, <2>3
      <3> QED BY <1>2, <1>5, <3>1 DEF FoldersAreApart, FoldersInv
    <2> QED BY <2>1, <2>2, <2>3
  <1>9. initial' \in [Project -> {"none", "pending", "done", "failed"}]
    BY DEF Insert, FoldersInv
  <1>10. \A q \in Cataloged' : DirOf(q)' # {}
    BY <1>4, <1>5 DEF FoldersInv
  <1> QED BY <1>2, <1>3, <1>4, <1>7, <1>8, <1>9, <1>10 DEF FoldersInv

\* The other tables when there is one project more.
LEMMA RowsOfOneMore ==
  ASSUME RowsInv, FactsInv, NEW p \in Project, p \notin Cataloged, Cataloged' = Cataloged \cup {p},
         UNCHANGED <<configured, papers, fact>>
  PROVE  RowsInv' /\ FactsInv'
  <1>1. UNCHANGED <<configured, blueprint, approved, requirement, synced, refused, fact>>
    BY DEF papers
  <1>2. \A q : Matched(q)' <=> Matched(q)
    BY <1>1 DEF Matched, Mine, SyncedRefs
  <1>3. Matched(p)
    <2>1. \A i \in RefId : requirement[i].of # {p}
      BY DEF RowsInv
    <2>2. SyncedRefs(p) = <<>>
      BY DEF RowsInv, SyncedRefs
    <2> QED BY <2>1, <2>2 DEF Matched, Mine
  <1>4. RowsInv'
    BY <1>1, <1>2, <1>3 DEF RowsInv
  <1>5. FactsInv'
    BY <1>1 DEF FactsInv
  <1> QED BY <1>4, <1>5

LEMMA RowsStay ==
  ASSUME RowsInv, FactsInv, UNCHANGED <<catalog, configured, blueprint, approved, requirement, synced, refused, fact>>
  PROVE  RowsInv' /\ FactsInv'
  <1>1. Cataloged' = Cataloged
    BY DEF Cataloged
  <1>2. \A q : Matched(q)' <=> Matched(q)
    BY DEF Matched, Mine, SyncedRefs
  <1> QED BY <1>1, <1>2 DEF RowsInv, FactsInv

\* What lies in the folder of a project is folders.
LEMMA InsideFolders ==
  ASSUME FoldersInv, NEW p \in Cataloged
  PROVE  UNION {LiesIn(d) : d \in DirOf(p)} \subseteq Dir
  <1>1. DirOf(p) \subseteq Dir
    BY DEF FoldersInv, CatalogRow, Cataloged, DirOf
  <1>2. \A d \in Dir : LiesIn(d) \subseteq Dir
    BY DEF LiesIn
  <1> QED BY <1>1, <1>2

\* A folder is made with its parents.
LEMMA MadeFolders ==
  ASSUME FoldersInv, NEW d \in Dir
  PROVE  /\ Made(d) \in [Dir -> {"none", "user", "program"}]
         /\ \A e \in Dir : Made(d)[e] = "none" => folder[e] = "none"
         /\ Made(d)[d] # "none"
  <1>1. folder \in [Dir -> {"none", "user", "program"}]
    BY DEF FoldersInv
  <1> QED BY <1>1 DEF Made

\* A project whose folder is not there has lost it.
LEMMA LostFolders ==
  ASSUME FoldersInv, NEW d \in Dir, folder[d] = "none", NEW q \in Cataloged, DirOf(q) = {d}
  PROVE  d \in removed
  BY DEF FoldersInv, FoldersStand

LEMMA CatalogGrows ==
  ASSUME ProjectsInv, UNCHANGED effort, NEW p \in Project, NEW d \in Dir,
         ImportInPlace(p, d) \/ Create(p, d) \/ \E s \in Dir : ImportCopy(p, s, d)
  PROVE  ProjectsInv'
  <1>1. FoldersInv /\ RowsInv /\ FactsInv /\ EffortTyped
    BY ProjectsParts
  <1>2. p \notin Cataloged /\ folder \in [Dir -> {"none", "user", "program"}]
    BY <1>1 DEF ImportInPlace, Create, ImportCopy, Cataloged, FoldersInv
  <1>3. EffortTyped'
    BY <1>1 DEF EffortTyped
  <1>4. ASSUME NEW origin \in {"created", "copied", "imported"}, Insert(p, d, origin), FoldersInv',
               Cataloged' = Cataloged \cup {p}
        PROVE  ProjectsInv'
    <2>1. UNCHANGED <<configured, papers, fact>>
      BY <1>4 DEF Insert
    <2> QED BY <1>1, <1>2, <1>3, <1>4, <2>1, RowsOfOneMore, ProjectsNow
  <1>5. ASSUME Free(d), folder' = Made(d), NEW origin \in {"created", "copied"}, Insert(p, d, origin)
        PROVE  ProjectsInv'
    <2>1. \A q \in Cataloged : DirOf(q) = {d} => d \in removed
      BY <1>1, <1>5, LostFolders DEF Free
    <2>2. FoldersInv' /\ Cataloged' = Cataloged \cup {p}
      BY <1>1, <1>2, <1>5, <2>1, MadeFolders, InsertKeeps
    <2> QED BY <1>4, <1>5, <2>2
  <1>6. ASSUME UNCHANGED <<catalog, initial, removed, configured, papers, fact>>,
               folder' \in [Dir -> {"none", "user", "program"}],
               \A e \in Dir : folder'[e] = "none" => folder[e] = "none"
        PROVE  ProjectsInv'
    <2>1. FoldersInv'
      BY <1>1, <1>6, FoldersMove DEF FoldersInv
    <2>2. RowsInv' /\ FactsInv'
      BY <1>1, <1>6, RowsStay DEF papers
    <2> QED BY <1>3, <2>1, <2>2, ProjectsNow
  <1>7. CASE ImportInPlace(p, d)
    <2>1. folder' = folder /\ folder[d] # "none" /\ Insert(p, d, "imported") /\ \A q \in Cataloged : DirOf(q) # {d}
      BY <1>7 DEF ImportInPlace
    <2>2. FoldersInv' /\ Cataloged' = Cataloged \cup {p}
      BY <1>1, <1>2, <2>1, InsertKeeps
    <2> QED BY <1>4, <2>1, <2>2
  <1>8. CASE Create(p, d)
    <2>1. CASE folder' = Made(d) /\ Insert(p, d, "created")
      BY <1>5, <1>8, <2>1 DEF Create
    <2>2. CASE folder' = [Made(d) EXCEPT ![d] = "none"] /\ UNCHANGED <<catalog, initial, removed, configured, papers, fact>>
      <3>1. folder[d] = "none"
        BY <1>8 DEF Create, Free
      <3>2. /\ folder' \in [Dir -> {"none", "user", "program"}]
            /\ \A e \in Dir : folder'[e] = "none" => folder[e] = "none"
        BY <1>1, <2>2, <3>1, MadeFolders
      <3> QED BY <1>6, <2>2, <3>2
    <2> QED BY <1>8, <2>1, <2>2 DEF Create
  <1>9. ASSUME NEW s \in Dir, ImportCopy(p, s, d)
        PROVE  ProjectsInv'
    <2>1. Free(d) /\ folder' = Made(d)
      BY <1>9 DEF ImportCopy
    <2>2. CASE Insert(p, d, "copied")
      BY <1>5, <2>1, <2>2
    <2>3. CASE UNCHANGED <<catalog, initial, removed, configured, papers, fact>>
      BY <1>1, <1>6, <2>1, <2>3, MadeFolders
    <2> QED BY <1>9, <2>2, <2>3 DEF ImportCopy
  <1> QED BY <1>7, <1>8, <1>9

\* A project goes, and its folder may go with it.
LEMMA FoldersOfOneLess ==
  ASSUME FoldersInv, NEW p \in Cataloged, NEW lost, lost = UNION {LiesIn(d) : d \in DirOf(p)},
         catalog' = [catalog EXCEPT ![p] = [NoProject EXCEPT !.at = "gone"]], UNCHANGED initial,
         \/ UNCHANGED <<folder, removed>>
         \/ folder' = Emptied(lost) /\ removed' = removed \cup (lost \ DirOf(p))
  PROVE  FoldersInv' /\ Cataloged' = Cataloged \ {p}
  <1> DEFINE row == [NoProject EXCEPT !.at = "gone"]
  <1>1. row \in CatalogRow /\ row.at = "gone"
    BY DEF NoProject, CatalogRow
  <1> HIDE DEF row
  <1>2. p \in Project /\ Cataloged \subseteq Project
    BY DEF Cataloged
  <1>3. /\ catalog' \in [Project -> CatalogRow] /\ catalog'[p] = row
        /\ \A q \in Project \ {p} : catalog'[q] = catalog[q]
    BY <1>1, <1>2 DEF FoldersInv, row
  <1>4. Cataloged' = Cataloged \ {p} /\ \A q \in Cataloged \ {p} : DirOf(q)' = DirOf(q)
    BY <1>1, <1>2, <1>3 DEF Cataloged, DirOf
  <1>5. lost \subseteq Dir
    BY InsideFolders
  <1>6. /\ folder' \in [Dir -> {"none", "user", "program"}]
        /\ removed \subseteq removed' /\ removed' \subseteq Dir
        /\ \A d \in Dir : folder'[d] = "none" => folder[d] = "none" \/ d \in DirOf(p) \/ d \in removed'
    BY <1>5 DEF FoldersInv, Emptied
  <1>7. \A q \in Cataloged : DirOf(q) \subseteq Dir /\ \A d \in DirOf(q) : DirOf(q) = {d}
    BY DEF FoldersInv, CatalogRow, Cataloged, DirOf
  <1>8. FoldersStand'
    <2> SUFFICES ASSUME NEW q \in Cataloged \ {p}, NEW d \in DirOf(q)
                 PROVE  folder'[d] # "none" \/ d \in removed'
      BY <1>4 DEF FoldersStand
    <2>1. folder[d] # "none" \/ d \in removed
      BY DEF FoldersInv, FoldersStand
    <2>2. d \in DirOf(p) => d \in removed
      BY <1>7 DEF FoldersInv, FoldersAreApart
    <2> QED BY <1>6, <1>7, <2>1, <2>2
  <1>9. FoldersAreApart'
    BY <1>4, <1>6 DEF FoldersAreApart, FoldersInv
  <1>10. \A q \in Cataloged' : DirOf(q)' # {}
    BY <1>4 DEF FoldersInv
  <1> QED BY <1>3, <1>4, <1>6, <1>8, <1>9, <1>10 DEF FoldersInv

\* The rows of a project go with it.
LEMMA RowsOfOneLess ==
  ASSUME RowsInv, FactsInv, NEW p \in Cataloged, DropRows(p), UNCHANGED refused, Cataloged' = Cataloged \ {p}
  PROVE  RowsInv' /\ FactsInv'
  <1>1. p \in Project /\ Cataloged \subseteq Project
    BY DEF Cataloged
  <1>2. NoRef \in RefRow /\ NoRef.of = {}
    BY DEF NoRef, RefRow, RefName
  <1>3. requirement' = [i \in RefId |-> IF p \in requirement[i].of THEN NoRef ELSE requirement[i]]
    BY DEF DropRows
  <1>4. requirement' \in [RefId -> RefRow] /\ \A i \in RefId : requirement'[i].of \subseteq Cataloged'
    BY <1>2, <1>3 DEF RowsInv
  <1>5. /\ blueprint' \in [Project -> Seq(Doc)] /\ approved' \in [Project -> SUBSET Nat] /\ synced' \in [Project -> Nat]
        /\ blueprint'[p] = <<>> /\ approved'[p] = {} /\ synced'[p] = 0
        /\ \A q \in Project \ {p} : /\ blueprint'[q] = blueprint[q] /\ approved'[q] = approved[q]
                                    /\ synced'[q] = synced[q]
    BY <1>1 DEF DropRows, RowsInv
  <1>6. \A q \in Project : /\ Len(blueprint'[q]) <= MaxBlueprints /\ approved'[q] \subseteq DOMAIN blueprint'[q]
                           /\ synced'[q] <= Len(blueprint'[q])
                           /\ q \notin Cataloged' => synced'[q] = 0 /\ blueprint'[q] = <<>> /\ approved'[q] = {}
    <2> TAKE q \in Project
    <2>1. CASE q = p
      BY <1>5, <2>1, ProjectsAssumption
    <2>2. CASE q # p
      BY <1>5, <2>2 DEF RowsInv
    <2> QED BY <2>1, <2>2
  <1>7. ASSUME NEW q \in Cataloged'
        PROVE  Matched(q)'
    <2>1. q # p /\ q \in Cataloged /\ Matched(q)
      BY <1>7 DEF RowsInv
    <2>2. SyncedRefs(q)' = SyncedRefs(q)
      BY <1>1, <1>5, <2>1 DEF SyncedRefs
    <2>3. \A i \in RefId : p \in requirement[i].of => requirement[i].of = {p}
      BY DEF RowsInv, RefRow
    <2>4. {p} # {q}
      BY <2>1
    <2>5. Mine(q)' = Mine(q) /\ \A i \in Mine(q) : requirement'[i] = requirement[i]
      BY <1>2, <1>3, <2>3, <2>4 DEF Mine
    <2> QED BY <2>1, <2>2, <2>5 DEF Matched
  <1>8. RowsInv'
    BY <1>4, <1>5, <1>6, <1>7 DEF RowsInv, DropRows
  <1>9. FactsInv'
    <2> DEFINE row == [NoFact EXCEPT !.at = "gone"]
    <2>1. row \in FactRow /\ row.at = "gone"
      BY DEF NoFact, FactRow
    <2>2. fact' = [f \in Fact |-> IF p \in fact[f].of THEN row ELSE fact[f]]
      BY DEF DropRows
    <2> HIDE DEF row
    <2> QED BY <2>1, <2>2 DEF FactsInv
  <1> QED BY <1>8, <1>9

LEMMA DeleteKeeps ==
  ASSUME ProjectsInv, UNCHANGED effort, NEW p \in Project, NEW emptied \in BOOLEAN, NEW typed \in BOOLEAN,
         Delete(p, emptied, typed)
  PROVE  ProjectsInv'
  <1>1. FoldersInv /\ RowsInv /\ FactsInv /\ EffortTyped /\ p \in Cataloged /\ UNCHANGED <<initial, refused>>
    BY ProjectsParts DEF Delete
  <1>2. EffortTyped'
    BY <1>1 DEF EffortTyped
  <1> DEFINE lost == UNION {LiesIn(d) : d \in DirOf(p)}
  <1>3. CASE /\ folder' = IF emptied THEN Emptied(lost) ELSE folder
             /\ removed' = IF emptied THEN removed \cup (lost \ DirOf(p)) ELSE removed
             /\ DropRows(p)
    <2>1. FoldersInv' /\ Cataloged' = Cataloged \ {p}
      BY <1>1, <1>3, FoldersOfOneLess DEF DropRows
    <2> QED BY <1>1, <1>2, <1>3, <2>1, RowsOfOneLess, ProjectsNow
  <1>4. ASSUME NEW some \in SUBSET (lost \ DirOf(p)), folder' = Emptied(some), removed' = removed \cup some,
               UNCHANGED <<catalog, configured, blueprint, approved, requirement, fact, synced>>
        PROVE  ProjectsInv'
    <2>1. lost \subseteq Dir
      BY <1>1, InsideFolders
    <2>2. FoldersInv'
      <3> HIDE DEF lost
      <3>1. /\ folder' \in [Dir -> {"none", "user", "program"}] /\ removed \subseteq removed' /\ removed' \subseteq Dir
            /\ \A d \in Dir : folder'[d] = "none" => folder[d] = "none" \/ d \in removed'
        BY <1>1, <1>4, <2>1 DEF FoldersInv, Emptied
      <3> QED BY <1>1, <1>4, <3>1, FoldersMove DEF FoldersInv
    <2>3. RowsInv' /\ FactsInv'
      BY <1>1, <1>4, RowsStay
    <2> QED BY <1>2, <2>2, <2>3, ProjectsNow
  <1> QED BY <1>3, <1>4 DEF Delete

LEMMA SpendTyped ==
  ASSUME EffortTyped, NEW kind \in {"folders", "papers", "facts"}, Spend(kind)
  PROVE  EffortTyped'
  <1>1. effort[kind] \in Nat /\ effort[kind] > 0
    BY DEF EffortTyped, Spend
  <1> DEFINE left == effort[kind] - 1
  <1>2. left \in Nat
    BY <1>1
  <1>3. effort' = [effort EXCEPT ![kind] = left]
    BY DEF Spend
  <1> HIDE DEF left
  <1> QED BY <1>2, <1>3 DEF EffortTyped

LEMMA FolderStepsKeep ==
  ASSUME ProjectsInv, EffortTyped', FolderSteps
  PROVE  ProjectsInv'
  <1>1. FoldersInv /\ RowsInv /\ FactsInv
    BY ProjectsParts
  <1>2. folder \in [Dir -> {"none", "user", "program"}] /\ removed \subseteq Dir
        /\ initial \in [Project -> {"none", "pending", "done", "failed"}]
    BY <1>1 DEF FoldersInv
  <1>3. UNCHANGED <<catalog, configured, papers, fact>>
    BY DEF FolderSteps, InitialCommit, UserMakes, UserRemoves
  <1>4. RowsInv' /\ FactsInv'
    BY <1>1, <1>3, RowsStay DEF papers
  <1>5. ASSUME NEW p \in Project, InitialCommit(p)
        PROVE  FoldersInv'
    <2>1. UNCHANGED <<folder, removed>> /\ initial' \in [Project -> {"none", "pending", "done", "failed"}]
      BY <1>2, <1>5 DEF InitialCommit
    <2> QED BY <1>1, <1>2, <1>3, <2>1, FoldersMove
  <1>6. ASSUME NEW d \in Dir, UserMakes(d)
        PROVE  FoldersInv'
    <2>1. folder' = [folder EXCEPT ![d] = "user"] /\ UNCHANGED <<removed, initial>>
      BY <1>6 DEF UserMakes
    <2>2. /\ folder' \in [Dir -> {"none", "user", "program"}]
          /\ \A e \in Dir : folder'[e] = "none" => folder[e] = "none"
      BY <1>2, <2>1
    <2> QED BY <1>1, <1>2, <1>3, <2>1, <2>2, FoldersMove
  <1>7. ASSUME NEW d \in Dir, UserRemoves(d)
        PROVE  FoldersInv'
    <2>1. LiesIn(d) \subseteq Dir
      BY DEF LiesIn
    <2>2. removed' = removed \cup LiesIn(d) /\ folder' = Emptied(LiesIn(d)) /\ initial' = initial
      BY <1>7 DEF UserRemoves
    <2>3. /\ folder' \in [Dir -> {"none", "user", "program"}] /\ removed \subseteq removed' /\ removed' \subseteq Dir
          /\ \A e \in Dir : folder'[e] = "none" => folder[e] = "none" \/ e \in removed'
      BY <1>2, <2>1, <2>2 DEF Emptied
    <2> QED BY <1>1, <1>2, <1>3, <2>2, <2>3, FoldersMove
  <1>8. FoldersInv'
    BY <1>5, <1>6, <1>7 DEF FolderSteps
  <1> QED BY <1>4, <1>8, ProjectsNow

\* The catalog and the folders stay, and the memory.
LEMMA FoldersStay ==
  ASSUME FoldersInv, UNCHANGED <<catalog, folder, removed, initial>>
  PROVE  FoldersInv' /\ Cataloged' = Cataloged
  <1>1. folder \in [Dir -> {"none", "user", "program"}] /\ removed \subseteq Dir
        /\ initial \in [Project -> {"none", "pending", "done", "failed"}]
    BY DEF FoldersInv
  <1> QED BY <1>1, FoldersMove DEF Cataloged

LEMMA FactsStay ==
  ASSUME FactsInv, UNCHANGED fact, Cataloged' = Cataloged
  PROVE  FactsInv'
  BY DEF FactsInv

\* What one blueprint asks for has a place in the table and a name.
LEMMA DerivedRefs ==
  ASSUME NEW doc \in Doc
  PROVE  DOMAIN Derived(doc) \subseteq RefId /\ \A i \in DOMAIN Derived(doc) : Derived(doc)[i] \in RefName
  <1>1. DOMAIN Derived(doc) \subseteq RefId
    BY DEF RefId
  <1>2. CASE doc = <<>>
    <2>1. Derived(doc) = <<"general">>
      BY <1>2 DEF Derived
    <2>2. \A i \in DOMAIN <<"general">> : <<"general">>[i] = "general"
      OBVIOUS
    <2> QED BY <1>1, <2>1, <2>2 DEF RefName
  <1>3. CASE doc # <<>>
    <2>1. Derived(doc) = doc
      BY <1>3 DEF Derived
    <2>2. \A i \in DOMAIN doc : doc[i] \in RefName
      BY DEF RefName
    <2> QED BY <1>1, <2>1, <2>2
  <1> QED BY <1>2, <1>3

LEMMA SaveBlueprintKeeps ==
  ASSUME RowsInv, UNCHANGED catalog, NEW p \in Project, NEW doc \in Doc, SaveBlueprint(p, doc)
  PROVE  RowsInv'
  <1>1. Cataloged' = Cataloged /\ Cataloged \subseteq Project /\ p \in Cataloged
    BY DEF Cataloged, SaveBlueprint
  <1>2. UNCHANGED <<configured, approved, requirement, synced, refused>> /\ Len(blueprint[p]) < MaxBlueprints
    BY DEF SaveBlueprint
  <1> DEFINE docs == Append(blueprint[p], doc)
  <1>3. blueprint[p] \in Seq(Doc) /\ synced[p] \in Nat /\ synced[p] <= Len(blueprint[p])
    BY DEF RowsInv
  <1>4. docs \in Seq(Doc) /\ Len(docs) = Len(blueprint[p]) + 1 /\ DOMAIN blueprint[p] \subseteq DOMAIN docs
        /\ \A i \in 1..Len(blueprint[p]) : docs[i] = blueprint[p][i]
    BY <1>3
  <1>5. blueprint' = [blueprint EXCEPT ![p] = docs]
    BY DEF SaveBlueprint
  <1> HIDE DEF docs
  <1>6. blueprint' \in [Project -> Seq(Doc)] /\ blueprint'[p] = docs /\ \A q \in Project \ {p} : blueprint'[q] = blueprint[q]
    BY <1>4, <1>5 DEF RowsInv
  <1>7. Len(docs) <= MaxBlueprints /\ synced[p] <= Len(docs)
    <2>1. Len(blueprint[p]) \in Nat
      BY <1>3
    <2> QED BY <1>2, <1>3, <1>4, <2>1, ProjectsAssumption
  <1>8. \A q \in Project : SyncedRefs(q)' = SyncedRefs(q)
    <2>1. synced[p] # 0 => blueprint'[p][synced[p]] = blueprint[p][synced[p]]
      <3>1. synced[p] # 0 => synced[p] \in 1..Len(blueprint[p])
        BY <1>3
      <3> QED BY <1>4, <1>6, <3>1
    <2> QED BY <1>2, <1>6, <2>1 DEF SyncedRefs
  <1>9. \A q \in Cataloged : Matched(q)'
    <2>1. \A q : Mine(q)' = Mine(q)
      BY <1>2 DEF Mine
    <2>2. \A q \in Project : Matched(q)' <=> Matched(q)
      BY <1>2, <1>8, <2>1 DEF Matched
    <2> QED BY <1>1, <2>2 DEF RowsInv
  <1>10. \A q \in Project : /\ Len(blueprint'[q]) <= MaxBlueprints /\ approved'[q] \subseteq DOMAIN blueprint'[q]
                            /\ synced'[q] <= Len(blueprint'[q])
                            /\ q \notin Cataloged' => synced'[q] = 0 /\ blueprint'[q] = <<>> /\ approved'[q] = {}
    <2> TAKE q \in Project
    <2>1. CASE q = p
      BY <1>1, <1>2, <1>4, <1>6, <1>7, <2>1 DEF RowsInv
    <2>2. CASE q # p
      BY <1>1, <1>2, <1>6, <2>2 DEF RowsInv
    <2> QED BY <2>1, <2>2
  <1> QED BY <1>1, <1>2, <1>6, <1>9, <1>10 DEF RowsInv

LEMMA ApproveKeeps ==
  ASSUME RowsInv, UNCHANGED catalog, NEW p \in Project, NEW nth \in 1..MaxBlueprints, Approve(p, nth)
  PROVE  RowsInv'
  <1>1. Cataloged' = Cataloged
    BY DEF Cataloged
  <1>2. UNCHANGED <<configured, blueprint, requirement, synced, refused>> /\ nth \in DOMAIN blueprint[p]
    BY DEF Approve
  <1> DEFINE versions == approved[p] \cup {nth}
  <1>3. approved' = [approved EXCEPT ![p] = versions]
    BY DEF Approve
  <1>4. versions \in SUBSET Nat /\ versions \subseteq DOMAIN blueprint[p]
    BY <1>2, ProjectsAssumption DEF RowsInv
  <1> HIDE DEF versions
  <1>5. approved' \in [Project -> SUBSET Nat] /\ approved'[p] = versions /\ \A q \in Project \ {p} : approved'[q] = approved[q]
    BY <1>3, <1>4 DEF RowsInv
  <1>6. p \in Cataloged
    <2>1. blueprint[p] # <<>>
      BY <1>2
    <2> QED BY <2>1 DEF RowsInv
  <1>7. \A q : Matched(q)' <=> Matched(q)
    BY <1>2 DEF Matched, Mine, SyncedRefs
  <1> QED BY <1>1, <1>2, <1>4, <1>5, <1>6, <1>7 DEF RowsInv

\* A sync that does not collide: the rows of the project are what its latest
\* blueprint asks for, those of the others stay.
LEMMA ReplaceKeeps ==
  ASSUME RowsInv, NEW p \in Cataloged, NEW refs, DOMAIN refs \subseteq RefId,
         \A i \in DOMAIN refs : refs[i] \in RefName,
         ~Collides(p, refs), Replace(p, refs)
  PROVE  /\ requirement' \in [RefId -> RefRow]
         /\ \A i \in RefId : requirement'[i].of \subseteq Cataloged
         /\ Mine(p)' = DOMAIN refs /\ \A i \in DOMAIN refs : requirement'[i].ref = refs[i]
         /\ \A q \in Project \ {p} : Mine(q)' = Mine(q) /\ \A i \in Mine(q) : requirement'[i] = requirement[i]
  <1>1. p \in Project /\ Cataloged \subseteq Project
    BY DEF Cataloged
  <1>2. \A i \in RefId : requirement'[i] = IF requirement[i].of \notin {{}, {p}} THEN requirement[i]
                                           ELSE IF i \in DOMAIN refs THEN [of |-> {p}, ref |-> refs[i]]
                                           ELSE NoRef
    BY DEF Replace
  <1>3. \A i \in DOMAIN refs : requirement[i].of \in {{}, {p}}
    BY DEF Collides
  <1>4. NoRef \in RefRow /\ NoRef.of = {}
    BY DEF NoRef, RefRow, RefName
  <1>5. \A i \in DOMAIN refs : /\ [of |-> {p}, ref |-> refs[i]] \in RefRow
                               /\ [of |-> {p}, ref |-> refs[i]].of = {p} /\ [of |-> {p}, ref |-> refs[i]].ref = refs[i]
    BY <1>1 DEF RefRow
  <1>6. requirement \in [RefId -> RefRow] /\ \A i \in RefId : requirement[i].of \subseteq Cataloged
    BY DEF RowsInv
  <1>7. requirement' \in [RefId -> RefRow]
    <2>1. requirement' = [i \in RefId |-> requirement'[i]]
      BY DEF Replace
    <2>2. \A i \in RefId : requirement'[i] \in RefRow
      BY <1>2, <1>4, <1>5, <1>6
    <2> QED BY <2>1, <2>2
  <1>8. \A i \in RefId : requirement'[i].of \subseteq Cataloged
    BY <1>2, <1>4, <1>5, <1>6
  <1>9. \A i \in DOMAIN refs : requirement'[i].of = {p} /\ requirement'[i].ref = refs[i]
    BY <1>2, <1>3, <1>5
  <1>10. \A i \in RefId \ DOMAIN refs : requirement'[i].of # {p}
    BY <1>2, <1>4
  <1>11. Mine(p)' = DOMAIN refs
    BY <1>9, <1>10 DEF Mine
  <1>12. ASSUME NEW q \in Project \ {p}
         PROVE  Mine(q)' = Mine(q) /\ \A i \in Mine(q) : requirement'[i] = requirement[i]
    <2>1. {q} # {p} /\ {q} # {}
      OBVIOUS
    <2>2. \A i \in RefId : requirement[i].of = {q} => requirement'[i] = requirement[i]
      BY <1>2, <2>1
    <2>3. \A i \in RefId : requirement'[i].of = {q} => requirement'[i] = requirement[i]
      BY <1>2, <1>4, <1>5, <2>1
    <2> QED BY <2>2, <2>3 DEF Mine
  <1> QED BY <1>7, <1>8, <1>9, <1>11, <1>12

LEMMA SyncKeeps ==
  ASSUME RowsInv, UNCHANGED catalog, NEW p \in Project, Sync(p)
  PROVE  RowsInv'
  <1> DEFINE n == Len(blueprint[p])
             refs == IF n = 0 THEN <<>> ELSE Derived(blueprint[p][n])
  <1>1. /\ p \in Cataloged /\ UNCHANGED <<configured, blueprint, approved>> /\ Replace(p, refs)
        /\ IF Collides(p, refs) THEN refused' = refused \cup {p} /\ UNCHANGED synced
           ELSE synced' = [synced EXCEPT ![p] = n] /\ UNCHANGED refused
    BY DEF Sync
  <1>2. blueprint[p] \in Seq(Doc) /\ n \in Nat
    BY DEF RowsInv
  <1>3. DOMAIN refs \subseteq RefId /\ \A i \in DOMAIN refs : refs[i] \in RefName
    <2>1. CASE n = 0
      BY <2>1
    <2>2. CASE n # 0
      <3>1. blueprint[p][n] \in Doc
        BY <1>2, <2>2
      <3> QED BY <2>2, <3>1, DerivedRefs
    <2> QED BY <2>1, <2>2
  <1>4. Cataloged' = Cataloged /\ Cataloged \subseteq Project
    BY DEF Cataloged
  <1>5. CASE Collides(p, refs)
    <2>1. requirement' = requirement
      <3>1. requirement' = [i \in RefId |-> requirement[i]]
        BY <1>1, <1>5 DEF Replace
      <3> QED BY <3>1 DEF RowsInv
    <2>2. refused' = refused \cup {p} /\ UNCHANGED synced
      BY <1>1, <1>5
    <2> HIDE DEF refs
    <2>3. \A q : Matched(q)' <=> Matched(q)
      BY <1>1, <2>1, <2>2 DEF Matched, Mine, SyncedRefs
    <2> QED BY <1>1, <1>4, <2>1, <2>2, <2>3 DEF RowsInv
  <1>6. CASE ~Collides(p, refs)
    <2>1. synced' = [synced EXCEPT ![p] = n] /\ UNCHANGED refused
      BY <1>1, <1>6
    <2>2. synced' \in [Project -> Nat] /\ synced'[p] = n /\ \A q \in Project \ {p} : synced'[q] = synced[q]
      BY <1>2, <2>1 DEF RowsInv
    <2>3. SyncedRefs(p)' = refs
      BY <1>1, <2>2 DEF SyncedRefs
    <2> HIDE DEF refs
    <2>4. /\ requirement' \in [RefId -> RefRow]
          /\ \A i \in RefId : requirement'[i].of \subseteq Cataloged
          /\ Mine(p)' = DOMAIN refs /\ \A i \in DOMAIN refs : requirement'[i].ref = refs[i]
          /\ \A q \in Project \ {p} : Mine(q)' = Mine(q) /\ \A i \in Mine(q) : requirement'[i] = requirement[i]
      BY <1>1, <1>3, <1>6, ReplaceKeeps
    <2>5. Matched(p)'
      BY <2>3, <2>4 DEF Matched
    <2>6. ASSUME NEW q \in Cataloged \ {p}
          PROVE  Matched(q)'
      <3>1. SyncedRefs(q)' = SyncedRefs(q) /\ q \in Project
        BY <1>1, <1>4, <2>2 DEF SyncedRefs
      <3>2. Matched(q)
        BY DEF RowsInv
      <3> QED BY <2>4, <3>1, <3>2 DEF Matched
    <2>7. \A q \in Project : /\ synced'[q] <= Len(blueprint[q])
                             /\ q \notin Cataloged => synced'[q] = 0
      BY <1>1, <1>2, <2>2 DEF RowsInv
    <2> QED BY <1>1, <1>4, <2>1, <2>2, <2>4, <2>5, <2>6, <2>7 DEF RowsInv
  <1> QED BY <1>5, <1>6

LEMMA PaperStepsKeep ==
  ASSUME ProjectsInv, EffortTyped', NEW p \in Project, PaperSteps(p)
  PROVE  ProjectsInv'
  <1>1. FoldersInv /\ RowsInv /\ FactsInv
    BY ProjectsParts
  <1>2. UNCHANGED <<catalog, folder, removed, initial, fact>>
    BY DEF PaperSteps, Configure, SaveBlueprint, Approve, Sync, papers
  <1>3. FoldersInv' /\ Cataloged' = Cataloged
    BY <1>1, <1>2, FoldersStay
  <1>4. FactsInv'
    BY <1>1, <1>2, <1>3, FactsStay
  <1>5. CASE Configure(p)
    <2>1. /\ configured' = configured \cup {p} /\ p \in Cataloged
          /\ UNCHANGED <<blueprint, approved, requirement, synced, refused>>
      BY <1>5 DEF Configure, papers
    <2>2. \A q : Matched(q)' <=> Matched(q)
      BY <2>1 DEF Matched, Mine, SyncedRefs
    <2>3. RowsInv'
      BY <1>1, <1>3, <2>1, <2>2 DEF RowsInv
    <2> QED BY <1>3, <1>4, <2>3, ProjectsNow
  <1>6. CASE \E doc \in Doc : SaveBlueprint(p, doc)
    BY <1>1, <1>2, <1>3, <1>4, <1>6, SaveBlueprintKeeps, ProjectsNow
  <1>7. CASE \E v \in 1..MaxBlueprints : Approve(p, v)
    BY <1>1, <1>2, <1>3, <1>4, <1>7, ApproveKeeps, ProjectsNow
  <1>8. CASE Sync(p)
    BY <1>1, <1>2, <1>3, <1>4, <1>8, SyncKeeps, ProjectsNow
  <1> QED BY <1>5, <1>6, <1>7, <1>8 DEF PaperSteps

-----------------------------------------------------------------------------
(* Projects: memory, and every step                                         *)

LEMMA FactStepsKeep ==
  ASSUME ProjectsInv, EffortTyped', NEW f \in Fact, FactSteps(f)
  PROVE  ProjectsInv'
  <1>1. FoldersInv /\ RowsInv /\ FactsInv
    BY ProjectsParts
  <1>2. UNCHANGED <<catalog, folder, removed, configured, initial, papers>>
    BY DEF FactSteps, AddFact, Supersede, DeleteFact
  <1>3. FoldersInv' /\ Cataloged' = Cataloged /\ Cataloged \subseteq Project
    BY <1>1, <1>2, FoldersStay DEF Cataloged
  <1>4. RowsInv'
    <2>1. \A q : Matched(q)' <=> Matched(q)
      BY <1>2 DEF Matched, Mine, SyncedRefs, papers
    <2> QED BY <1>1, <1>2, <1>3, <2>1 DEF RowsInv, papers
  <1>5. fact \in [Fact -> FactRow] /\ \A g \in Fact : fact[g].at = "kept" => fact[g].of \subseteq Cataloged
    BY <1>1 DEF FactsInv
  <1>6. ASSUME NEW p \in Project, AddFact(f, p)
        PROVE  FactsInv'
    <2> DEFINE row == [at |-> "kept", of |-> {p}, by |-> {}]
    <2>1. row \in FactRow /\ row.of = {p} /\ p \in Cataloged
      BY <1>6 DEF FactRow, AddFact
    <2>2. fact' = [fact EXCEPT ![f] = row]
      BY <1>6 DEF AddFact
    <2> HIDE DEF row
    <2> QED BY <1>3, <1>5, <2>1, <2>2 DEF FactsInv
  <1>7. ASSUME NEW g \in Fact, Supersede(f, g)
        PROVE  FactsInv'
    <2> DEFINE new == [at |-> "kept", of |-> fact[f].of, by |-> {}]
               old == [fact[f] EXCEPT !.by = {g}]
    <2>1. fact[f] \in FactRow /\ fact[f].at = "kept" /\ f # g
      BY <1>5, <1>7 DEF Supersede
    <2>2. /\ new \in FactRow /\ new.of = fact[f].of
          /\ old \in FactRow /\ old.of = fact[f].of
      BY <2>1 DEF FactRow
    <2>3. fact' = [[fact EXCEPT ![g] = new] EXCEPT ![f] = old]
      BY <2>1, <1>7 DEF Supersede
    <2> HIDE DEF new, old
    <2> QED BY <1>3, <1>5, <2>1, <2>2, <2>3 DEF FactsInv
  <1>8. ASSUME DeleteFact(f)
        PROVE  FactsInv'
    <2> DEFINE row == [NoFact EXCEPT !.at = "gone"]
    <2>1. row \in FactRow /\ row.at = "gone"
      BY DEF NoFact, FactRow
    <2>2. fact' = [fact EXCEPT ![f] = row]
      BY <1>8 DEF DeleteFact
    <2> HIDE DEF row
    <2> QED BY <1>3, <1>5, <2>1, <2>2 DEF FactsInv
  <1>9. FactsInv'
    BY <1>6, <1>7, <1>8 DEF FactSteps
  <1> QED BY <1>3, <1>4, <1>9, ProjectsNow

LEMMA ProjectsInitInv ==
  ASSUME ProjectsInit
  PROVE  ProjectsInv
  <1>1. NoProject \in CatalogRow /\ NoProject.at = "none"
    BY DEF NoProject, CatalogRow
  <1>2. Cataloged = {}
    BY <1>1 DEF Cataloged, ProjectsInit
  <1>3. FoldersInv
    BY <1>1, <1>2 DEF FoldersInv, FoldersStand, FoldersAreApart, ProjectsInit
  <1>4. NoRef \in RefRow /\ NoRef.of = {}
    BY DEF NoRef, RefRow, RefName
  <1>5. \A p \in Project : /\ Len(blueprint[p]) <= MaxBlueprints /\ approved[p] \subseteq DOMAIN blueprint[p]
                           /\ synced[p] <= Len(blueprint[p])
                           /\ synced[p] = 0 /\ blueprint[p] = <<>> /\ approved[p] = {}
    BY ProjectsAssumption DEF ProjectsInit
  <1>6. RowsInv
    BY <1>2, <1>4, <1>5 DEF RowsInv, ProjectsInit
  <1>7. NoFact \in FactRow /\ NoFact.at = "none"
    BY DEF NoFact, FactRow
  <1>8. FactsInv
    BY <1>7 DEF FactsInv, ProjectsInit
  <1>9. EffortTyped
    BY ProjectsAssumption DEF EffortTyped, ProjectsInit
  <1> QED BY <1>3, <1>6, <1>8, <1>9, ProjectsParts

\* One step per group of actions of Projects.
LEMMA ProjectsStepKeeps ==
  ASSUME ProjectsInv, [ProjectsNext]_projectsVars
  PROVE  ProjectsInv'
  <1>1. FoldersInv /\ RowsInv /\ FactsInv /\ EffortTyped
    BY ProjectsParts
  <1>2. CASE UNCHANGED effort /\ CatalogSteps
    BY <1>2, CatalogGrows, DeleteKeeps DEF CatalogSteps
  <1>3. CASE Spend("folders") /\ FolderSteps
    <2>1. EffortTyped'
      BY <1>1, <1>3, SpendTyped
    <2> QED BY <1>3, <2>1, FolderStepsKeep
  <1>4. ASSUME Spend("papers"), NEW p \in Project, PaperSteps(p)
        PROVE  ProjectsInv'
    <2>1. EffortTyped'
      BY <1>1, <1>4, SpendTyped
    <2> QED BY <1>4, <2>1, PaperStepsKeep
  <1>5. ASSUME Spend("facts"), NEW f \in Fact, FactSteps(f)
        PROVE  ProjectsInv'
    <2>1. EffortTyped'
      BY <1>1, <1>5, SpendTyped
    <2> QED BY <1>5, <2>1, FactStepsKeep
  <1>6. CASE UNCHANGED projectsVars
    <2>1. UNCHANGED <<catalog, folder, removed, configured, initial, blueprint, approved, requirement, synced, refused,
                      fact, effort>>
      BY <1>6 DEF projectsVars, papers
    <2>2. EffortTyped' /\ FoldersInv'
      BY <1>1, <2>1, FoldersStay DEF EffortTyped
    <2> QED BY <1>1, <2>1, <2>2, RowsStay, ProjectsNow
  <1> QED BY <1>2, <1>3, <1>4, <1>5, <1>6 DEF ProjectsNext

\* However commands of the catalog, git and what the user does to the folders
\* mix (catalog.ts, project-settings.ts, blueprint.ts, memory.ts): the
\* variables keep their types, no setting, blueprint, requirement or memory of
\* a project outlives it, and the requirements of a project are those of the
\* blueprint it synced last, even where another project's ids collide with it.
THEOREM ProjectsInvHolds == ProjectsSpec => []ProjectsInv
  <1> QED BY ProjectsInitInv, ProjectsStepKeeps, PTL DEF ProjectsSpec

\* Two projects share a folder only if it had been removed from under one of
\* them (uniqueChildDirectory of paths.ts, import of catalog.ts).
THEOREM FoldersAreApartHolds == ProjectsSpec => []FoldersAreApart
  <1>1. ProjectsInv => FoldersAreApart
    BY DEF ProjectsInv
  <1> QED BY <1>1, ProjectsInvHolds, PTL

-----------------------------------------------------------------------------
(* The opening of the database: the property speaks of one moment, its      *)
(* invariant says where the rows are at every other.                        *)

\* The empty directory of a first start.
LEMMA UpgradeStarts == UpgradeInit => UpgradeInv
<1> SUFFICES ASSUME UpgradeInit PROVE UpgradeInv
  OBVIOUS
<1> USE DEF UpgradeInit, RowsNow, VersionNow, None, Shut, NoWal, File, Places
<1>1. UpgradeTypes
  BY DEF UpgradeTypes
<1>2. Bounded
  BY UpgradeAssumption DEF Bounded
<1>3. Reached /\ RowsAreSomewhere
  BY DEF Reached, RowsAreSomewhere
<1> QED
  BY <1>1, <1>2, <1>3 DEF UpgradeInv

\* Every step of openDatabase, of the program at work, of its update and of its
\* death keeps the rows somewhere.
LEMMA UpgradeSteps == UpgradeInv /\ [UpgradeNext]_upgradeVars => UpgradeInv'
<1> SUFFICES ASSUME UpgradeInv, [UpgradeNext]_upgradeVars PROVE UpgradeInv'
  OBVIOUS
<1> USE UpgradeAssumption DEF UpgradeInv, Whole, None, Torn, Shut, NoWal, Places, files
<1>a. /\ file \in File /\ backup \in File /\ wal \in [rows : Nat, at : Nat]
      /\ RowsNow \in Nat /\ VersionNow \in Nat
      /\ Checkpointed = [is |-> "whole", rows |-> RowsNow, at |-> VersionNow] /\ Checkpointed \in File
  BY DEF UpgradeTypes, RowsNow, VersionNow, Checkpointed, File
<1>b. NoWal \in [rows : Nat, at : Nat] /\ None \in File /\ Torn \in File /\ Whole(0, 0) \in File
  BY DEF File
<1>c. LET Moments == [at : Places, existed : BOOLEAN, backedUp : BOOLEAN]
      IN  opening \in Moments /\ Shut \in Moments /\ [opening EXCEPT !.at = "copying"] \in Moments
  BY DEF UpgradeTypes
<1>1. CASE Open
  <2> USE <1>1 DEF Open
  <2>0. opening.at = "closed" /\ UNCHANGED <<backup, known, stored, cut, kills>>
    OBVIOUS
  <2>1. CASE file.is = "none"
    <3>1. file' = Whole(0, 0) /\ wal' = NoWal /\ opening' = [Shut EXCEPT !.at = "opened"]
      BY <2>1
    <3>2. RowsNow' = 0 /\ VersionNow' = 0 /\ file'.is = "whole"
      BY <3>1 DEF RowsNow, VersionNow
    <3>3. UpgradeTypes'
      BY <3>1, <2>0, <1>b DEF UpgradeTypes
    <3>4. opening'.at = "opened" /\ opening'.backedUp = FALSE
      BY <3>1
    <3>5. Bounded'
      BY <3>2, <2>0 DEF UpgradeTypes, Bounded
    <3>6. Reached'
      BY <3>2, <3>4 DEF Reached
    <3>7. RowsAreSomewhere'
      BY <2>1, <3>2, <3>4, <2>0 DEF RowsAreSomewhere
    <3> QED
      BY <3>3, <3>5, <3>6, <3>7
  <2>2. CASE file.is = "whole"
    <3>1. UNCHANGED <<file, wal>> /\ opening' = [Shut EXCEPT !.at = "opened", !.existed = TRUE]
      BY <2>2
    <3>2. RowsNow' = RowsNow /\ VersionNow' = VersionNow
      BY <3>1 DEF RowsNow, VersionNow
    <3>3. UpgradeTypes'
      BY <3>1, <2>0 DEF UpgradeTypes
    <3>4. Bounded' /\ Reached' /\ RowsAreSomewhere'
      BY <2>2, <3>1, <3>2, <2>0 DEF UpgradeTypes, Bounded, Reached, RowsAreSomewhere
    <3> QED
      BY <3>3, <3>4
  <2>3. CASE file.is \notin {"none", "whole"}
    <3>1. UNCHANGED <<file, wal, opening>>
      BY <2>3
    <3> QED
      BY <3>1, <2>0 DEF UpgradeTypes, Bounded, Reached, RowsAreSomewhere, RowsNow, VersionNow
  <2> QED
    BY <2>1, <2>2, <2>3
<1>2. CASE Backup
  <2> USE <1>2 DEF Backup
  <2>0. opening.at = "opened" /\ opening'.at = "migrating" /\ UNCHANGED <<known, stored, cut, kills>>
    BY DEF UpgradeTypes
  <2>1. CASE Pending /\ opening.existed
    <3>1. /\ file' = Checkpointed /\ backup' = Checkpointed /\ wal' = NoWal
          /\ RowsNow' = RowsNow /\ VersionNow' = VersionNow
      BY <2>1, <1>a DEF CreateBackup, RowsNow, VersionNow
    <3>2. opening' = [opening EXCEPT !.at = "migrating", !.backedUp = TRUE]
      BY <2>1
    <3>3. UpgradeTypes'
      BY <3>1, <3>2, <2>0, <1>a, <1>b DEF UpgradeTypes
    <3>4. Bounded' /\ Reached' /\ RowsAreSomewhere'
      BY <3>1, <3>2, <2>0, <1>a DEF UpgradeTypes, Bounded, Reached, RowsAreSomewhere
    <3> QED
      BY <3>3, <3>4
  <2>2. CASE ~(Pending /\ opening.existed)
    <3>1. UNCHANGED files /\ RowsNow' = RowsNow /\ VersionNow' = VersionNow
          /\ opening' = [opening EXCEPT !.at = "migrating"]
      BY <2>2 DEF RowsNow, VersionNow
    <3>2. UpgradeTypes'
      BY <3>1, <2>0 DEF UpgradeTypes
    <3>3. Bounded' /\ Reached' /\ RowsAreSomewhere'
      BY <3>1, <2>0 DEF UpgradeTypes, Bounded, Reached, RowsAreSomewhere
    <3> QED
      BY <3>2, <3>3
  <2> QED
    BY <2>1, <2>2
<1>3. CASE ApplyMigration
  <2> USE <1>3 DEF ApplyMigration, Pending
  <2>1. UpgradeTypes'
    BY <1>a, <1>b DEF UpgradeTypes
  <2>2. Bounded'
    BY <1>a DEF UpgradeTypes, Bounded, Reached, RowsNow, VersionNow, File
  <2>3. Reached'
    BY <1>a DEF UpgradeTypes, Bounded, Reached, RowsNow, VersionNow, File
  <2>4. RowsAreSomewhere'
    BY <1>a DEF UpgradeTypes, Reached, RowsAreSomewhere, RowsNow, VersionNow, File
  <2> QED
    BY <2>1, <2>2, <2>3, <2>4
<1>4. CASE Verify
  <2> USE <1>4 DEF Verify, Pending
  <2>1. UpgradeTypes'
    BY <1>a, <1>b DEF UpgradeTypes
  <2>2. Bounded'
    BY <1>a DEF UpgradeTypes, Bounded, Reached, RowsNow, VersionNow, File
  <2>3. Reached'
    BY <1>a DEF UpgradeTypes, Bounded, Reached, RowsNow, VersionNow, File
  <2>4. RowsAreSomewhere'
    BY <1>a DEF UpgradeTypes, Reached, RowsAreSomewhere, RowsNow, VersionNow, File
  <2> QED
    BY <2>1, <2>2, <2>3, <2>4
<1>5. CASE CloseFailed
  <2> USE <1>5 DEF CloseFailed
  <2>1. UpgradeTypes'
    BY <1>a, <1>b DEF UpgradeTypes
  <2>2. Bounded'
    BY <1>a DEF UpgradeTypes, Bounded, Reached, RowsNow, VersionNow, File
  <2>3. Reached'
    BY <1>a DEF UpgradeTypes, Bounded, Reached, RowsNow, VersionNow, File
  <2>4. RowsAreSomewhere'
    BY <1>a DEF UpgradeTypes, Reached, RowsAreSomewhere, RowsNow, VersionNow, File
  <2> QED
    BY <2>1, <2>2, <2>3, <2>4
<1>6. CASE SetAside
  <2> USE <1>6 DEF SetAside
  <2>1. UpgradeTypes'
    BY <1>a, <1>b DEF UpgradeTypes
  <2>2. Bounded'
    BY <1>a DEF UpgradeTypes, Bounded, Reached, RowsNow, VersionNow, File
  <2>3. Reached'
    BY <1>a DEF UpgradeTypes, Bounded, Reached, RowsNow, VersionNow, File
  <2>4. RowsAreSomewhere'
    BY <1>a DEF UpgradeTypes, Reached, RowsAreSomewhere, RowsNow, VersionNow, File
  <2> QED
    BY <2>1, <2>2, <2>3, <2>4
<1>7. CASE CopyBack
  <2> USE <1>7 DEF CopyBack
  <2>0. opening.at \in {"moved", "copying"} /\ UNCHANGED <<wal, backup, known, stored, cut, kills>>
    OBVIOUS
  <2>1. /\ file' \in File
        /\ (opening' = [opening EXCEPT !.at = "copying"] \/ opening' = Shut)
    BY <1>a, <1>b
  <2>2. UpgradeTypes'
    <3>1. opening' \in [at : Places, existed : BOOLEAN, backedUp : BOOLEAN]
      BY <2>1, <1>c, Zenon
    <3> QED
      BY <2>0, <2>1, <3>1 DEF UpgradeTypes
  <2>3. Bounded'
    BY <1>a DEF UpgradeTypes, Bounded, Reached, RowsNow, VersionNow, File
  <2>4. Reached'
    BY <1>a DEF UpgradeTypes, Bounded, Reached, RowsNow, VersionNow, File
  <2>5. RowsAreSomewhere'
    BY <1>a DEF UpgradeTypes, Reached, RowsAreSomewhere, RowsNow, VersionNow, File
  <2> QED
    BY <2>2, <2>3, <2>4, <2>5
<1>8. CASE Save
  <2> USE <1>8 DEF Save
  <2>1. UpgradeTypes'
    BY <1>a, <1>b DEF UpgradeTypes
  <2>2. Bounded'
    BY <1>a DEF UpgradeTypes, Bounded, Reached, RowsNow, VersionNow, File
  <2>3. Reached'
    BY <1>a DEF UpgradeTypes, Bounded, Reached, RowsNow, VersionNow, File
  <2>4. RowsAreSomewhere'
    BY <1>a DEF UpgradeTypes, Reached, RowsAreSomewhere, RowsNow, VersionNow, File
  <2> QED
    BY <2>1, <2>2, <2>3, <2>4
<1>9. CASE Checkpoint \/ Close
  <2> USE <1>9 DEF Checkpoint, Close
  <2>1. /\ opening.at = "open" /\ file' = Checkpointed /\ wal' = NoWal
        /\ UNCHANGED <<backup, known, stored, cut, kills>>
        /\ (opening' = opening \/ opening' = Shut)
    OBVIOUS
  <2>2. UpgradeTypes'
    <3>1. opening' \in [at : Places, existed : BOOLEAN, backedUp : BOOLEAN]
      BY <2>1, <1>c, Zenon
    <3>2. file' \in File /\ wal' \in [rows : Nat, at : Nat]
      BY <2>1, <1>a, <1>b
    <3> QED
      BY <2>1, <3>1, <3>2 DEF UpgradeTypes
  <2>3. RowsNow' = RowsNow /\ VersionNow' = VersionNow
    BY <2>1, <1>a DEF RowsNow, VersionNow
  <2>4. Bounded' /\ Reached' /\ RowsAreSomewhere'
    BY <2>1, <2>3, <1>a DEF UpgradeTypes, Bounded, Reached, RowsAreSomewhere
  <2> QED
    BY <2>2, <2>4
<1>10. CASE Update
  <2> USE <1>10 DEF Update
  <2>1. UpgradeTypes'
    BY <1>a, <1>b DEF UpgradeTypes
  <2>2. Bounded'
    BY <1>a DEF UpgradeTypes, Bounded, Reached, RowsNow, VersionNow, File
  <2>3. Reached'
    BY <1>a DEF UpgradeTypes, Bounded, Reached, RowsNow, VersionNow, File
  <2>4. RowsAreSomewhere'
    BY <1>a DEF UpgradeTypes, Reached, RowsAreSomewhere, RowsNow, VersionNow, File
  <2> QED
    BY <2>1, <2>2, <2>3, <2>4
<1>11. CASE Die
  <2> USE <1>11 DEF Die
  <2>1. UpgradeTypes'
    BY <1>a, <1>b DEF UpgradeTypes
  <2>2. Bounded'
    BY <1>a DEF UpgradeTypes, Bounded, Reached, RowsNow, VersionNow, File
  <2>3. Reached'
    BY <1>a DEF UpgradeTypes, Bounded, Reached, RowsNow, VersionNow, File
  <2>4. RowsAreSomewhere'
    BY <1>a DEF UpgradeTypes, Reached, RowsAreSomewhere, RowsNow, VersionNow, File
  <2> QED
    BY <2>1, <2>2, <2>3, <2>4
<1>12. CASE UNCHANGED upgradeVars
  <2> USE <1>12 DEF upgradeVars
  <2>1. UpgradeTypes'
    BY <1>a, <1>b DEF UpgradeTypes
  <2>2. Bounded'
    BY <1>a DEF UpgradeTypes, Bounded, Reached, RowsNow, VersionNow, File
  <2>3. Reached'
    BY <1>a DEF UpgradeTypes, Bounded, Reached, RowsNow, VersionNow, File
  <2>4. RowsAreSomewhere'
    BY <1>a DEF UpgradeTypes, Reached, RowsAreSomewhere, RowsNow, VersionNow, File
  <2> QED
    BY <2>1, <2>2, <2>3, <2>4
<1> QED
  BY <1>1, <1>2, <1>3, <1>4, <1>5, <1>6, <1>7, <1>8, <1>9, <1>10, <1>11, <1>12 DEF UpgradeNext

\* The invariant holds throughout.
THEOREM UpgradeInvHolds == UpgradeSpec => []UpgradeInv
BY UpgradeStarts, UpgradeSteps, PTL DEF UpgradeSpec

\* Every variable of the opening keeps its type.
THEOREM UpgradeTypeCorrect == UpgradeSpec => []UpgradeTypeOK
<1>1. ASSUME UpgradeInv PROVE UpgradeTypeOK
  <2> USE UpgradeAssumption, <1>1 DEF UpgradeInv, UpgradeTypes, Bounded, RowsNow, VersionNow, File, Places
  <2>1. file.rows \in 0..MaxRows /\ file.at \in 0..MaxKnown
    OBVIOUS
  <2>2. backup.rows \in 0..MaxRows /\ backup.at \in 0..MaxKnown
    OBVIOUS
  <2>3. wal \in [rows : 0..MaxRows, at : 0..MaxKnown]
    OBVIOUS
  <2> QED
    BY <2>1, <2>2, <2>3 DEF UpgradeTypeOK
<1> QED
  BY <1>1, UpgradeInvHolds, PTL

\* An open database is of the program's version and has every row ever saved
\* (database.ts, openDatabase), for any number of migrations, rows and deaths
\* of the process; only a restore that is cut short may lose them.
THEOREM RowsSurviveUpgradesHolds == UpgradeSpec => []RowsSurviveUpgrades
<1>1. UpgradeInv => RowsSurviveUpgrades
  BY DEF UpgradeInv, UpgradeTypes, Reached, RowsAreSomewhere, RowsSurviveUpgrades, RowsNow, VersionNow, File, Places
<1> QED
  BY <1>1, UpgradeInvHolds, PTL

-----------------------------------------------------------------------------
(* The vault, which deployments and servers share                           *)

LEMMA NamesAre ==
  ASSUME NEW t
  PROVE  SecretsOf(t) = Named(target[t])
  BY DEF SecretsOf, Named

\* What has a row was given out.
LEMMA RowsAreIssued ==
  ASSUME SecretsTypeOK
  PROVE  issued \subseteq Secret /\ \A s \in Secret : ref[s] # 0 => s \in issued
  BY DEF SecretsTypeOK

\* An id is given out for good.
LEMMA IssuedGrows ==
  ASSUME NEW ids, NEW s, NEW stop, SetSecret(s, stop) \/ RotateSecret(s, stop) \/ Dropped(ids, stop) \/ UNCHANGED secretVars
  PROVE  issued \subseteq issued'
  BY DEF SetSecret, RotateSecret, Dropped, secretVars

\* What an edit of targets does to the vault, and what of it is gone then.
LEMMA DeployIssues ==
  ASSUME DeploymentInv, gone \subseteq issued, \A t \in Target : SecretsOf(t) \subseteq issued, DeployNext
  PROVE  issued \subseteq issued' /\ gone' \subseteq issued
  <1>1. SecretsTypeOK
    BY DEF DeploymentInv
  <1>2. ASSUME NEW t, NEW old, NEW next, NEW stop, EditTarget(t, old, next, stop), old \subseteq issued
        PROVE  issued \subseteq issued' /\ gone' \subseteq issued
    BY <1>2 DEF EditTarget, Dropped
  <1>3. ASSUME NEW s \in Secret, NEW stop \in Cut, StoreValue(s, stop) \/ RotateValue(s, stop) \/ DeleteValue(s, stop)
        PROVE  issued \subseteq issued' /\ gone' \subseteq issued
    BY <1>1, <1>3, RowsAreIssued, IssuedGrows DEF StoreValue, RotateValue, DeleteValue
  <1>4. ASSUME NEW t \in Target, NEW stop \in Cut, DeleteTarget(t, stop)
        PROVE  issued \subseteq issued' /\ gone' \subseteq issued
    BY <1>2, <1>4 DEF DeleteTarget
  <1>5. ASSUME NEW t \in Target, NEW stop \in Cut, NEW ids, NEW a, NEW given, UpsertTarget(t, a, given, ids, stop)
        PROVE  issued \subseteq issued' /\ gone' \subseteq issued
    <2>1. target[t].secret \subseteq issued
      BY DEF SecretsOf
    <2>2. (IF ids = {} THEN {} ELSE target[t].secret \ ids) \subseteq issued
      BY <2>1
    <2> QED BY <1>2, <1>5, <2>2 DEF UpsertTarget
  <1>6. ASSUME NEW t \in Target, NEW stop \in Cut, NEW n \in EnvName, NEW ids, SetEnv(t, n, ids, stop)
        PROVE  issued \subseteq issued' /\ gone' \subseteq issued
    <2>1. target[t].env[n] \ ids \subseteq issued
      BY DEF SecretsOf
    <2> QED BY <1>2, <1>6, <2>1 DEF SetEnv
  <1>7. CASE EditSteps
    BY <1>3, <1>4, <1>5, <1>6, <1>7 DEF EditSteps
  <1>8. CASE EndProcess
    BY <1>8 DEF EndProcess, secretVars
  <1>9. ASSUME NEW d \in Run, RunSteps(d)
        PROVE  UNCHANGED <<issued, gone>>
    BY <1>9 DEF RunSteps, Readying, Entered, PhaseDone, Upload, PhaseFails, ImageBuilt, CreateDeployment, PollProvider,
                ProviderEnds, CancelRun, ForgetRun, aside, secretVars
  <1> QED BY <1>7, <1>8, <1>9 DEF DeployNext

\* With the end of the process nothing is in the maps, nothing has tools and
\* nothing is under way.
LEMMA ExtensionsEndKeeps ==
  ASSUME ExtensionsInv, SecretsTypeOK', ExtensionsEnd
  PROVE  ExtensionsInv'
  <1>1. ExtensionTables /\ attempt \in [Attempt -> AttemptRecord] /\ tokens \in [Server -> SUBSET Secret]
    BY ExtensionParts, ExtensionTypes
  <1>2. attempt' \in [Attempt -> AttemptRecord] /\ \A a \in Attempt : attempt'[a].at \notin Waiting
    <2>1. \A a \in Attempt : /\ [attempt[a] EXCEPT !.at = "failed"] \in AttemptRecord
                             /\ [attempt[a] EXCEPT !.at = "failed"].at \notin Waiting
      BY <1>1 DEF AttemptRecord, Waiting
    <2> QED BY <1>1, <2>1 DEF ExtensionsEnd
  <1>3. plugin' \in [Plugin -> PluginRecord]
    <2>1. \A p \in Plugin : [plugin[p] EXCEPT !.error = FALSE] \in PluginRecord
      BY <1>1 DEF ExtensionTables, PluginRecord
    <2> QED BY <2>1 DEF ExtensionsEnd
  <1>4. ExtensionsTyped'
    <2>1. ExtensionTables'
      BY <1>1, <1>3 DEF ExtensionTables, ExtensionsEnd
    <2>2. (attempt \in [Attempt -> AttemptRecord])' /\ (tokens \in [Server -> SUBSET Secret])'
      BY <1>1, <1>2 DEF ExtensionsEnd
    <2> QED BY <2>1, <2>2, ExtensionTypesNow
  <1>5. ASSUME NEW o \in Owner
        PROVE  OwnerInv(o)'
    <2>1. current'[o] = {} /\ \A n \in ToolName : registry'[<<o, n>>] = {}
      BY DEF ExtensionsEnd
    <2>2. Under(o)' = {}
      BY <1>2 DEF Under
    <2> QED BY <2>1, <2>2 DEF OwnerInv
  <1>6. \A a \in Attempt : Kind(a)'
    BY <1>2 DEF Kind, Waiting, Connecting, Activating
  <1> QED BY <1>4, <1>5, <1>6, ExtensionsNow

\* The extensions know of the vault only what its types say.
LEMMA ExtensionsRest ==
  ASSUME ExtensionsInv, SecretsTypeOK', UNCHANGED extensionVars
  PROVE  ExtensionsInv'
  <1>1. UNCHANGED <<server, tokens, current, registry, attempt, plugin>>
    BY DEF extensionVars
  <1>2. ExtensionTables /\ attempt \in [Attempt -> AttemptRecord] /\ tokens \in [Server -> SUBSET Secret]
    BY ExtensionParts, ExtensionTypes
  <1>3. ExtensionsTyped'
    <2>1. ExtensionTables'
      BY <1>1, <1>2 DEF ExtensionTables
    <2> QED BY <1>1, <1>2, <2>1, ExtensionTypesNow
  <1>4. ASSUME NEW q \in Owner
        PROVE  OwnerInv(q)'
    <2>1. current[q] \subseteq Attempt /\ \A n \in ToolName : registry[<<q, n>>] \subseteq Attempt
      BY <1>2 DEF ExtensionTables
    <2> QED BY <1>1, <2>1, ExtensionParts, OthersStay
  <1>5. \A b \in Attempt : Kind(b)'
    BY <1>1, ExtensionParts DEF Kind
  <1> QED BY <1>3, <1>4, <1>5, ExtensionsNow

\* Every token that a server or an attempt has was stored for a server.
TokensAreStored ==
  /\ \A s \in Server : server[s].token \subseteq ServerTokens
  /\ \A a \in Attempt : attempt[a].token \subseteq ServerTokens

\* What a step of the extensions leaves of the vault: what is not a server's is
\* held as before, and what has become a server's was not given out before.
VaultKept ==
  /\ issued \subseteq issued' /\ ServerTokens' \subseteq issued' /\ ServerTokens' \cap issued \subseteq ServerTokens
  /\ \A k \in Secret \ ServerTokens : Held(k) => Held(k)'
  /\ TokensAreStored'

\* A step that stores nothing.
LEMMA NothingStored ==
  ASSUME ExtensionsInv, ServerTokens \subseteq issued, NEW ids, ids \subseteq ServerTokens,
         UNCHANGED secretVars \/ Dropped(ids, ""), UNCHANGED tokens,
         \A s \in Server : server'[s].token \subseteq ServerTokens, \A a \in Attempt : attempt'[a].token \subseteq ServerTokens
  PROVE  VaultKept
  <1>1. ServerTokens' = ServerTokens
    BY DEF ServerTokens
  <1>2. issued' = issued
    BY DEF secretVars, Dropped
  <1>3. SecretsTypeOK
    BY DEF ExtensionsInv, ExtensionsTyped
  <1>4. \A k \in Secret \ ServerTokens : Held(k) => Held(k)'
    <2>1. CASE UNCHANGED secretVars
      BY <2>1 DEF secretVars, Held
    <2>2. CASE Dropped(ids, "")
      BY <1>3, <2>2, DroppedTyped DEF Cut
    <2> QED BY <2>1, <2>2
  <1>5. TokensAreStored'
    BY <1>1 DEF TokensAreStored
  <1> QED BY <1>1, <1>2, <1>4, <1>5 DEF VaultKept

\* The rows of servers after a command keep their token, lose it or are given
\* that of the command.
LEMMA RowsAfter ==
  ASSUME ExtensionsInv, TokensAreStored, NEW o \in Owner, NEW r, NEW saved, After(o, r, saved),
         r.token \subseteq ServerTokens
  PROVE  \A s \in Server : server'[s].token \subseteq ServerTokens
  <1>1. server \in [Server -> ServerRecord]
    BY ExtensionParts, ExtensionTypes DEF ExtensionTables
  <1>2. ASSUME NEW s \in Server
        PROVE  ServerAfter(s, r).token \subseteq ServerTokens
    <2>1. server[s] \in ServerRecord /\ server[s].token \subseteq ServerTokens
      BY <1>1 DEF TokensAreStored
    <2> DEFINE named == [status |-> "disconnected", auth |-> r.auth, token |-> r.token]
               parted == [server[s] EXCEPT !.status = "disconnected"]
               wanted == [server[s] EXCEPT !.status = "connecting"]
    <2>2. \/ ServerAfter(s, r) = named
          \/ ServerAfter(s, r) = parted
          \/ ServerAfter(s, r) = wanted
          \/ ServerAfter(s, r) = NoServer
          \/ ServerAfter(s, r) = server[s]
      BY DEF ServerAfter
    <2>3. parted.token = server[s].token /\ wanted.token = server[s].token
      BY <2>1 DEF ServerRecord
    <2>4. NoServer.token = {}
      BY DEF NoServer
    <2>5. named.token = r.token
      OBVIOUS
    <2> HIDE DEF named, parted, wanted
    <2> QED BY <2>1, <2>2, <2>3, <2>4, <2>5
  <1>3. CASE o \in Server
    <2> DEFINE row == ServerAfter(o, r)
    <2>1. server' = [server EXCEPT ![o] = row]
      BY <1>3 DEF After
    <2>2. row.token \subseteq ServerTokens
      BY <1>2, <1>3
    <2> HIDE DEF row
    <2> QED BY <1>1, <2>1, <2>2 DEF TokensAreStored
  <1>4. CASE o \notin Server
    BY <1>4 DEF After, TokensAreStored
  <1> QED BY <1>3, <1>4

LEMMA TokenOfStarted ==
  ASSUME NEW r \in AttemptRecord
  PROVE  Started(r).token = r.token
  BY DEF Started, AttemptRecord

\* A command begins.
LEMMA CommandStores ==
  ASSUME ExtensionsInv, TokensAreStored, ServerTokens \subseteq issued, NEW a \in Attempt, NEW o \in Owner,
         NEW fields \in AttemptRecord, NEW saved, fields.token \subseteq ServerTokens, Command(a, o, fields, saved)
  PROVE  VaultKept
  <1> DEFINE r == [fields EXCEPT !.of = {o}, !.alone = (Under(o) = {})]
  <1>1. r \in AttemptRecord /\ r.token = fields.token
    BY DEF AttemptRecord
  <1>2. /\ UNCHANGED tokens
        /\ \/ attempt' = [Overtaken(o) EXCEPT ![a] = Started(r)] /\ After(o, r, saved)
           \/ /\ attempt' = [Overtaken(o) EXCEPT ![a] = [r EXCEPT !.at = "closing"]]
              /\ UNCHANGED <<secretVars, server>>
    BY DEF Command
  <1>3. attempt \in [Attempt -> AttemptRecord]
    BY ExtensionParts, ExtensionTypes
  <1>4. Started(r).token \subseteq ServerTokens /\ [r EXCEPT !.at = "closing"].token \subseteq ServerTokens
    BY <1>1, TokenOfStarted DEF AttemptRecord
  <1>5. \A b \in Attempt : Overtaken(o)[b].token \subseteq ServerTokens
    BY <1>3 DEF Overtaken, TokensAreStored, AttemptRecord
  <1>6. r.token \subseteq ServerTokens
    BY <1>1
  <1> HIDE DEF r
  <1>7. DOMAIN Overtaken(o) = Attempt
    BY DEF Overtaken
  <1>8. \A b \in Attempt : attempt'[b].token \subseteq ServerTokens
    BY <1>2, <1>4, <1>5, <1>7
  <1>9. (UNCHANGED secretVars \/ Dropped(r.token, "")) /\ \A s \in Server : server'[s].token \subseteq ServerTokens
    <2>1. CASE After(o, r, saved)
      BY <1>6, <2>1, RowsAfter DEF After
    <2>2. CASE UNCHANGED <<secretVars, server>>
      BY <2>2 DEF TokensAreStored
    <2> QED BY <1>2, <2>1, <2>2
  <1> QED BY <1>2, <1>6, <1>8, <1>9, NothingStored

LEMMA ClosedStores ==
  ASSUME ExtensionsInv, TokensAreStored, ServerTokens \subseteq issued, NEW a \in Attempt, Closed(a)
  PROVE  VaultKept
  <1>1. attempt \in [Attempt -> AttemptRecord]
    BY ExtensionParts, ExtensionTypes
  <1>2. attempt' = [attempt EXCEPT ![a] = Started(attempt[a])] /\ UNCHANGED tokens
    BY DEF Closed
  <1>3. Started(attempt[a]).token = attempt[a].token
    BY <1>1, TokenOfStarted
  <1>4. \A b \in Attempt : attempt'[b].token \subseteq ServerTokens
    BY <1>1, <1>2, <1>3 DEF TokensAreStored
  <1>5. PICK o \in attempt[a].of : After(o, attempt[a], plugin)
    BY DEF Closed
  <1>6. o \in Owner
    BY <1>1 DEF AttemptRecord
  <1>7. UNCHANGED secretVars \/ Dropped(attempt[a].token, "")
    BY <1>5 DEF After
  <1>8. attempt[a].token \subseteq ServerTokens
    BY DEF TokensAreStored
  <1>9. \A s \in Server : server'[s].token \subseteq ServerTokens
    BY <1>5, <1>6, <1>8, RowsAfter
  <1> QED BY <1>2, <1>4, <1>7, <1>8, <1>9, NothingStored

LEMMA ServerCommandsStore ==
  ASSUME ExtensionsInv, TokensAreStored, ServerTokens \subseteq issued, NEW a \in Attempt, NEW s \in Server,
         (\E auth \in {"bearer", "oauth"}, given \in Given : SaveServer(a, s, auth, given))
           \/ DisconnectServer(a, s) \/ DeleteServer(a, s) \/ Connect(a, s)
  PROVE  VaultKept
  <1>1. server[s] \in ServerRecord /\ server[s].token \subseteq ServerTokens /\ s \in Owner /\ {} \subseteq ServerTokens
    BY ExtensionParts, ExtensionTypes DEF ExtensionTables, TokensAreStored, Owner
  <1>2. NoTry \in AttemptRecord /\ NoTry.token = {}
    BY DEF NoTry, AttemptRecord
  <1>3. ASSUME NEW auth \in {"bearer", "oauth"}, NEW given \in Given, SaveServer(a, s, auth, given)
        PROVE  VaultKept
    <2> DEFINE token == IF given # {} THEN given ELSE server[s].token
               r     == [NoTry EXCEPT !.then = "save", !.auth = auth, !.token = token]
    <2>1. Command(a, s, r, plugin) /\ (given # {} => given \subseteq tokens[s])
      BY <1>3 DEF SaveServer
    <2>2. token \in SUBSET Secret /\ token \subseteq ServerTokens
      BY <1>1, <2>1 DEF Given, ServerRecord, ServerTokens
    <2> HIDE DEF token
    <2>3. r \in AttemptRecord /\ r.token \subseteq ServerTokens
      BY <1>2, <2>2 DEF AttemptRecord
    <2> HIDE DEF r
    <2> QED BY <1>1, <2>1, <2>3, CommandStores
  <1>4. ASSUME DisconnectServer(a, s)
        PROVE  VaultKept
    <2> DEFINE r == [NoTry EXCEPT !.then = "disconnect"]
    <2>1. r \in AttemptRecord /\ r.token \subseteq ServerTokens
      BY <1>1, <1>2 DEF AttemptRecord
    <2>2. Command(a, s, r, plugin)
      BY <1>4 DEF DisconnectServer
    <2> HIDE DEF r
    <2> QED BY <1>1, <2>1, <2>2, CommandStores
  <1>5. ASSUME DeleteServer(a, s)
        PROVE  VaultKept
    <2> DEFINE r == [NoTry EXCEPT !.then = "delete", !.token = server[s].token]
    <2>1. r \in AttemptRecord /\ r.token \subseteq ServerTokens
      BY <1>1, <1>2 DEF AttemptRecord, ServerRecord
    <2>2. Command(a, s, r, plugin)
      BY <1>5 DEF DeleteServer
    <2> HIDE DEF r
    <2> QED BY <1>1, <2>1, <2>2, CommandStores
  <1>6. ASSUME Connect(a, s)
        PROVE  VaultKept
    <2> DEFINE r == [NoTry EXCEPT !.then = "opening", !.auth = server[s].auth, !.token = server[s].token]
    <2>1. r \in AttemptRecord /\ r.token \subseteq ServerTokens
      BY <1>1, <1>2 DEF AttemptRecord, ServerRecord
    <2>2. Command(a, s, r, plugin)
      BY <1>6 DEF Connect
    <2> HIDE DEF r
    <2> QED BY <1>1, <2>1, <2>2, CommandStores
  <1> QED BY <1>3, <1>4, <1>5, <1>6

LEMMA PluginCommandsStore ==
  ASSUME ExtensionsInv, TokensAreStored, ServerTokens \subseteq issued, NEW a \in Attempt, NEW p \in Plugin,
         (\E enabled \in BOOLEAN : SetEnabled(a, p, enabled)) \/ RemovePlugin(a, p)
  PROVE  VaultKept
  <1>1. plugin[p] \in PluginRecord /\ p \in Owner /\ {} \subseteq ServerTokens
    BY ExtensionParts, ExtensionTypes DEF ExtensionTables, Owner
  <1>2. NoTry \in AttemptRecord /\ NoTry.token = {}
    BY DEF NoTry, AttemptRecord
  <1>3. ASSUME NEW enabled \in BOOLEAN, SetEnabled(a, p, enabled)
        PROVE  VaultKept
    <2> DEFINE r == [NoTry EXCEPT !.then = IF enabled THEN "importing" ELSE "disable", !.granted = plugin[p].granted]
               saved == [plugin EXCEPT ![p].enabled = enabled]
    <2>1. r \in AttemptRecord /\ r.token \subseteq ServerTokens
      BY <1>1, <1>2 DEF AttemptRecord, PluginRecord
    <2>2. Command(a, p, r, saved)
      BY <1>3 DEF SetEnabled
    <2> HIDE DEF r, saved
    <2> QED BY <1>1, <2>1, <2>2, CommandStores
  <1>4. ASSUME RemovePlugin(a, p)
        PROVE  VaultKept
    <2> DEFINE r == [NoTry EXCEPT !.then = "remove"]
    <2>1. r \in AttemptRecord /\ r.token \subseteq ServerTokens
      BY <1>1, <1>2 DEF AttemptRecord
    <2>2. Command(a, p, r, plugin)
      BY <1>4 DEF RemovePlugin
    <2> HIDE DEF r
    <2> QED BY <1>1, <2>1, <2>2, CommandStores
  <1> QED BY <1>3, <1>4

\* A connect or an activation goes on and stores nothing.
LEMMA MovesStore ==
  ASSUME ExtensionsInv, TokensAreStored, ServerTokens \subseteq issued, NEW a \in Attempt,
         \/ Opened(a) \/ Redirected(a) \/ ConnectFails(a) \/ (\E names \in SUBSET ToolName : Connected(a, names))
         \/ Imported(a) \/ Activated(a) \/ ActivateFails(a) \/ (\E n \in ToolName : RegisterTool(a, n))
  PROVE  VaultKept
  <1>1. server \in [Server -> ServerRecord] /\ attempt \in [Attempt -> AttemptRecord] /\ {} \subseteq ServerTokens
    BY ExtensionParts, ExtensionTypes DEF ExtensionTables
  <1>2. UNCHANGED secretVars /\ UNCHANGED tokens
    BY DEF Opened, Redirected, ConnectFails, Connected, Imported, Activated, ActivateFails, RegisterTool, forPlugins
  <1>3. attempt' = attempt \/ \E x \in {"listing", "finishing", "failed", "done", "activating"} : attempt' = [attempt EXCEPT ![a].at = x]
    <2>1. ASSUME NEW names, Connected(a, names)
          PROVE  attempt' = [attempt EXCEPT ![a].at = "failed"] \/ attempt' = [attempt EXCEPT ![a].at = "done"]
      BY <2>1 DEF Connected
    <2> QED BY <2>1 DEF Opened, Redirected, ConnectFails, Imported, Activated, ActivateFails, RegisterTool
  <1>4. \A b \in Attempt : attempt'[b].token = attempt[b].token
    <2>1. \A x : [attempt[a] EXCEPT !.at = x].token = attempt[a].token
      BY <1>1 DEF AttemptRecord
    <2>2. ASSUME NEW x, attempt' = [attempt EXCEPT ![a].at = x]
          PROVE  \A b \in Attempt : attempt'[b].token = attempt[b].token
      <3> DEFINE r == [attempt[a] EXCEPT !.at = x]
      <3>1. attempt' = [attempt EXCEPT ![a] = r]
        BY <2>2
      <3>2. r.token = attempt[a].token
        BY <2>1
      <3> HIDE DEF r
      <3>3. \A b \in Attempt : attempt'[b] = IF b = a THEN r ELSE attempt[b]
        BY <1>1, <3>1
      <3> QED BY <3>2, <3>3
    <2> QED BY <1>3, <2>2
  <1>5. \A s \in Server : server'[s].token = server[s].token
    <2>1. \A s \in Server : \A x : [server[s] EXCEPT !.status = x].token = server[s].token
      BY <1>1 DEF ServerRecord
    <2>2. ASSUME ConnectFails(a)
          PROVE  \A s \in Server : server'[s].token = server[s].token
      BY <2>1, <2>2 DEF ConnectFails
    <2>3. ASSUME NEW names, Connected(a, names)
          PROVE  \A s \in Server : server'[s].token = server[s].token
      <3>1. PICK s \in attempt[a].of : server' = [server EXCEPT ![s].status = IF @ = "none" THEN "none" ELSE "connected"]
        BY <2>3 DEF Connected
      <3> QED BY <1>1, <2>1, <3>1
    <2>4. ASSUME \/ Opened(a) \/ Redirected(a) \/ Imported(a) \/ Activated(a) \/ ActivateFails(a)
                 \/ (\E n \in ToolName : RegisterTool(a, n))
          PROVE  server' = server
      BY <2>4 DEF Opened, Redirected, Imported, Activated, ActivateFails, RegisterTool, forPlugins
    <2> QED BY <2>2, <2>3, <2>4
  <1> QED BY <1>1, <1>2, <1>4, <1>5, NothingStored DEF TokensAreStored

LEMMA InstallStores ==
  ASSUME ExtensionsInv, TokensAreStored, ServerTokens \subseteq issued, NEW p \in Plugin,
         Install(p) \/ (\E granted \in BOOLEAN : Grant(p, granted))
  PROVE  VaultKept
  <1>1. attempt \in [Attempt -> AttemptRecord] /\ {} \subseteq ServerTokens
    BY ExtensionParts, ExtensionTypes
  <1>2. UNCHANGED secretVars /\ UNCHANGED <<server, tokens>>
    BY DEF Install, Grant, forPlugins
  <1>3. \A b \in Attempt : [attempt[b] EXCEPT !.alone = FALSE].token = attempt[b].token
    BY <1>1 DEF AttemptRecord
  <1>4. \A b \in Attempt : attempt'[b].token = attempt[b].token
    BY <1>3 DEF Install, Grant
  <1> QED BY <1>1, <1>2, <1>4, NothingStored DEF TokensAreStored

\* A sign-in rotates what it has, or stores what nobody can have yet.
LEMMA SaveStateStores ==
  ASSUME ExtensionsInv, TokensAreStored, ServerTokens \subseteq issued, NEW a \in Attempt, NEW k \in Secret, NEW at,
         attempt[a].at \in {"opening", "finishing"}, SaveState(a, at, k)
  PROVE  VaultKept
  <1>1. /\ server \in [Server -> ServerRecord] /\ attempt \in [Attempt -> AttemptRecord]
        /\ tokens \in [Server -> SUBSET Secret] /\ SecretsTypeOK
    BY ExtensionParts, ExtensionTypes DEF ExtensionTables
  <1>2. \A x : [attempt[a] EXCEPT !.at = x].token = attempt[a].token
    BY <1>1 DEF AttemptRecord
  <1>3. attempt' = [attempt EXCEPT ![a].at = at] \/ attempt' = [attempt EXCEPT ![a].at = "failed"]
    BY DEF SaveState
  <1>4. \A b \in Attempt : attempt'[b].token = attempt[b].token
    <2>1. ASSUME NEW x, attempt' = [attempt EXCEPT ![a].at = x]
          PROVE  \A b \in Attempt : attempt'[b].token = attempt[b].token
      <3> DEFINE r == [attempt[a] EXCEPT !.at = x]
      <3>1. attempt' = [attempt EXCEPT ![a] = r] /\ r.token = attempt[a].token
        BY <1>2, <2>1
      <3> HIDE DEF r
      <3>2. \A b \in Attempt : attempt'[b] = IF b = a THEN r ELSE attempt[b]
        BY <1>1, <3>1
      <3> QED BY <3>1, <3>2
    <2> QED BY <1>3, <2>1
  <1>5. (SetSecret(k, "") \/ RotateSecret(k, "")) /\ "" \in Cut
    BY DEF SaveState, Cut
  <1>6. issued \subseteq issued' /\ \A j \in Secret : Held(j) => Held(j)'
    BY <1>1, <1>5, StoredTyped, IssuedGrows
  <1>7. ASSUME UNCHANGED <<server, tokens>>
        PROVE  VaultKept
    <2>1. ServerTokens' = ServerTokens
      BY <1>7 DEF ServerTokens
    <2> QED BY <1>4, <1>6, <1>7, <2>1 DEF VaultKept, TokensAreStored
  <1>8. ASSUME NEW s \in attempt[a].of, s \in Server, SetSecret(k, ""), tokens' = [tokens EXCEPT ![s] = @ \cup {k}],
               server' = server \/ server' = [server EXCEPT ![s].token = {k}]
        PROVE  VaultKept
    <2>1. ServerTokens' = ServerTokens \cup {k}
      <3>1. tokens'[s] = tokens[s] \cup {k} /\ \A q \in Server \ {s} : tokens'[q] = tokens[q]
        BY <1>1, <1>8
      <3>2. \A j : (\E q \in Server : j \in tokens'[q]) <=> (\E q \in Server : j \in tokens[q]) \/ j = k
        BY <1>8, <3>1
      <3> QED BY <3>2 DEF ServerTokens
    <2>2. k \notin issued /\ issued' = issued \cup {k}
      BY <1>8 DEF SetSecret
    <2>3. \A q \in Server : server'[q].token \subseteq server[q].token \cup {k}
      <3>1. server[s] \in ServerRecord
        BY <1>1, <1>8
      <3>2. [server[s] EXCEPT !.token = {k}].token = {k}
        BY <3>1 DEF ServerRecord
      <3> QED BY <1>1, <1>8, <3>2
    <2>4. \A q \in Server : server'[q].token \subseteq ServerTokens'
      BY <2>1, <2>3 DEF TokensAreStored
    <2>5. \A b \in Attempt : attempt'[b].token \subseteq ServerTokens'
      BY <1>4, <2>1 DEF TokensAreStored
    <2>6. TokensAreStored'
      BY <2>4, <2>5 DEF TokensAreStored
    <2> QED BY <1>6, <2>1, <2>2, <2>6 DEF VaultKept
  <1>9. attempt[a].of \subseteq Server
    BY ExtensionParts DEF Kind, Connecting
  <1>10. PICK s \in attempt[a].of :
           IF attempt[a].token # {} /\ Resolves(attempt[a].token)
           THEN UNCHANGED <<server, tokens>>
           ELSE /\ SetSecret(k, "") /\ tokens' = [tokens EXCEPT ![s] = @ \cup {k}]
                /\ server' = server \/ server' = [server EXCEPT ![s].token = {k}]
    BY DEF SaveState
  <1> QED BY <1>7, <1>8, <1>9, <1>10

LEMMA StoreTokenStores ==
  ASSUME ExtensionsInv, TokensAreStored, ServerTokens \subseteq issued, NEW s \in Server, NEW k \in Secret,
         StoreToken(s, k)
  PROVE  VaultKept
  <1>1. tokens \in [Server -> SUBSET Secret] /\ SecretsTypeOK
    BY ExtensionParts, ExtensionTypes
  <1>2. SetSecret(k, "") /\ tokens' = [tokens EXCEPT ![s] = @ \cup {k}] /\ UNCHANGED <<server, attempt>>
    BY DEF StoreToken
  <1>3. issued \subseteq issued' /\ \A j \in Secret : Held(j) => Held(j)'
    BY <1>1, <1>2, StoredTyped, IssuedGrows DEF Cut
  <1>4. ServerTokens' = ServerTokens \cup {k}
    <2>1. tokens'[s] = tokens[s] \cup {k} /\ \A q \in Server \ {s} : tokens'[q] = tokens[q]
      BY <1>1, <1>2
    <2>2. \A j : (\E q \in Server : j \in tokens'[q]) <=> (\E q \in Server : j \in tokens[q]) \/ j = k
      BY <2>1
    <2> QED BY <2>2 DEF ServerTokens
  <1>5. k \notin issued /\ issued' = issued \cup {k}
    BY <1>2 DEF SetSecret
  <1>6. TokensAreStored'
    BY <1>2, <1>4 DEF TokensAreStored
  <1> QED BY <1>3, <1>4, <1>5, <1>6 DEF VaultKept

LEMMA ExtensionsStore ==
  ASSUME ExtensionsInv, TokensAreStored, ServerTokens \subseteq issued, ExtensionsNext
  PROVE  VaultKept
  <1>1. ASSUME NEW a \in Attempt, ServerSteps(a)
        PROVE  VaultKept
    <2>1. ASSUME NEW k \in Secret, Registered(a, k) \/ SignedIn(a, k)
          PROVE  VaultKept
      BY <2>1, SaveStateStores DEF Registered, SignedIn
    <2> QED BY <1>1, <2>1, ServerCommandsStore, MovesStore DEF ServerSteps
  <1>2. ASSUME NEW a \in Attempt, PluginSteps(a)
        PROVE  VaultKept
    BY <1>2, PluginCommandsStore, MovesStore DEF PluginSteps
  <1> QED BY <1>1, <1>2, ClosedStores, InstallStores, StoreTokenStores DEF ExtensionsNext

-----------------------------------------------------------------------------
(* The services side by side                                                *)

\* What the deployments and the extensions, with the vault between them, rely on.
VaultInv == DeploymentInv /\ ExtensionsInv /\ SecretsApart

\* A secret that a target names and that was not given up was given out.
LEMMA NamedAreIssued ==
  ASSUME DeploymentInv, gone \subseteq issued
  PROVE  \A t \in Target : SecretsOf(t) \subseteq issued
  <1>1. SecretsTypeOK /\ TargetsInv
    BY DeploymentParts DEF TargetsInv
  <1>2. ASSUME NEW t \in Target, NEW s \in SecretsOf(t)
        PROVE  s \in issued
    <2>1. s \in Named(target[t]) /\ target[t] \in TargetRecord
      BY <1>1, <1>2, NamesAre DEF TargetsInv
    <2>2. s \in Secret /\ (Held(s) \/ s \in gone)
      BY <1>1, <2>1, NamedIs DEF TargetsInv
    <2> QED BY <1>1, <2>2, RowsAreIssued DEF Held
  <1> QED BY <1>2

LEMMA NamedAreIssuedNow ==
  ASSUME DeploymentInv', gone' \subseteq issued'
  PROVE  \A t \in Target : SecretsOf(t)' \subseteq issued'
  <1>1. (DeploymentInv /\ gone \subseteq issued)' => (\A t \in Target : SecretsOf(t) \subseteq issued)'
    BY NamedAreIssued, PTL
  <1> QED BY <1>1

LEMMA VaultStarts ==
  ASSUME SecretsInit, DeployInit, ExtensionsInit
  PROVE  VaultInv
  <1>1. DeploymentInv /\ ExtensionsInv
    BY DeploymentInitInv, ExtensionsInitInv
  <1>2. ServerTokens = {}
    BY DEF ServerTokens, ExtensionsInit
  <1>3. gone = {}
    BY DEF DeployInit
  <1>4. \A t \in Target : SecretsOf(t) \subseteq issued
    BY <1>1, <1>3, NamedAreIssued
  <1>5. \A s \in Server : server[s].token = {}
    <2>1. \A x \in [status : {"disconnected"}, auth : {"bearer", "oauth"}, token : {{}}] : x.token = {}
      OBVIOUS
    <2>2. NoServer.token = {}
      BY DEF NoServer
    <2> QED BY <2>1, <2>2 DEF ExtensionsInit
  <1>6. \A a \in Attempt : attempt[a].token = {}
    BY DEF ExtensionsInit, NoTry
  <1>7. SecretsApart
    BY <1>2, <1>3, <1>4, <1>5, <1>6 DEF SecretsApart
  <1> QED BY <1>1, <1>7 DEF VaultInv

\* A step of a deployment or an edit of a target, and the end of the process.
LEMMA DeploymentsMoveKeeps ==
  ASSUME VaultInv, DeploymentsMove
  PROVE  VaultInv'
  <1>1. DeploymentInv /\ ExtensionsInv /\ SecretsApart /\ DeployNext /\ PanelNames
    BY DEF VaultInv, DeploymentsMove
  <1>2. DeploymentInv'
    BY <1>1, DeploymentStepKeeps
  <1>3. SecretsTypeOK'
    BY <1>2 DEF DeploymentInv
  <1>4. ExtensionsEnd \/ UNCHANGED extensionVars
    BY DEF DeploymentsMove
  <1>5. ExtensionsInv'
    BY <1>1, <1>3, <1>4, ExtensionsEndKeeps, ExtensionsRest
  <1>6. UNCHANGED <<server, tokens>> /\ \A a \in Attempt : attempt'[a].token = attempt[a].token
    <2>1. attempt \in [Attempt -> AttemptRecord]
      BY <1>1, ExtensionParts, ExtensionTypes
    <2>2. \A a \in Attempt : [attempt[a] EXCEPT !.at = "failed"].token = attempt[a].token
      BY <2>1 DEF AttemptRecord
    <2>3. CASE ExtensionsEnd
      BY <2>2, <2>3 DEF ExtensionsEnd
    <2>4. CASE UNCHANGED extensionVars
      BY <2>4 DEF extensionVars
    <2> QED BY <1>4, <2>3, <2>4
  <1>7. ServerTokens' = ServerTokens
    BY <1>6 DEF ServerTokens
  <1>8. issued \subseteq issued' /\ gone' \subseteq issued'
    <2>1. gone \subseteq issued /\ \A t \in Target : SecretsOf(t) \subseteq issued
      BY <1>1 DEF SecretsApart
    <2> QED BY <1>1, <2>1, DeployIssues
  <1>9. \A t \in Target : SecretsOf(t)' \subseteq issued'
    BY <1>2, <1>8, NamedAreIssuedNow
  <1>10. \A t \in Target : SecretsOf(t)' \cap ServerTokens = {}
    BY <1>1 DEF PanelNames, SecretsApart
  <1>11. SecretsApart'
    <2>1. \A t \in Target : SecretsOf(t)' \subseteq issued' \ ServerTokens'
      BY <1>7, <1>9, <1>10
    <2>2. ServerTokens' \subseteq issued'
      BY <1>1, <1>7, <1>8 DEF SecretsApart
    <2>3. /\ \A s \in Server : server'[s].token \subseteq ServerTokens'
          /\ \A a \in Attempt : attempt'[a].token \subseteq ServerTokens'
      BY <1>1, <1>6, <1>7 DEF SecretsApart
    <2> QED BY <1>8, <2>1, <2>2, <2>3 DEF SecretsApart
  <1> QED BY <1>2, <1>5, <1>11 DEF VaultInv

\* A step of a server or plugin: what it drops or stores no target names.
LEMMA ExtensionsMoveKeeps ==
  ASSUME VaultInv, ExtensionsNext, UNCHANGED deployVars
  PROVE  VaultInv'
  <1>1. DeploymentInv /\ ExtensionsInv /\ SecretsApart
    BY DEF VaultInv
  <1>2. ExtensionsInv' /\ SecretsTypeOK'
    <2>1. ExtensionsInv'
      BY <1>1, ExtensionsStepKeeps
    <2> QED BY <2>1 DEF ExtensionsInv, ExtensionsTyped
  <1>3. VaultKept
    BY <1>1, ExtensionsStore DEF SecretsApart, TokensAreStored
  <1>4. UNCHANGED <<target, gone, project, run, deployRow, provider>>
    BY DEF deployVars
  <1>5. TargetsInv /\ RunsTyped /\ project \in Projects
    BY <1>1, DeploymentParts
  <1>6. \A t \in Target : SecretsOf(t)' = SecretsOf(t)
    BY <1>4 DEF SecretsOf
  <1>7. \A t \in Target : \A s \in Named(target[t]) : s \in Secret \ ServerTokens
    <2>1. \A t \in Target : Named(target[t]) \subseteq Secret
      BY <1>5, NamedIs DEF TargetsInv
    <2> QED BY <1>1, <2>1, NamesAre DEF SecretsApart
  <1>8. \A t \in Target : \A s \in Named(target[t]) : Held(s)' \/ s \in gone'
    BY <1>3, <1>4, <1>5, <1>7 DEF VaultKept, TargetsInv
  <1>9. \A u \in Target : Neat(target[u])' /\ (Named(target[u]))' = Named(target[u])
    BY <1>4, <1>5 DEF TargetsInv, Neat, Named
  <1>10. TargetsInv'
    BY <1>2, <1>4, <1>5, <1>8, <1>9 DEF TargetsInv
  <1>11. RunsTyped'
    BY <1>4, <1>5 DEF RunsTyped
  <1>12. DeploymentInv'
    BY <1>4, <1>5, <1>10, <1>11, DeploymentNow
  <1>13. SecretsApart'
    <2>1. \A t \in Target : SecretsOf(t)' \subseteq issued' \ ServerTokens'
      BY <1>1, <1>3, <1>6 DEF VaultKept, SecretsApart
    <2>2. gone' \subseteq issued'
      BY <1>1, <1>3, <1>4 DEF VaultKept, SecretsApart
    <2> QED BY <1>3, <2>1, <2>2 DEF VaultKept, TokensAreStored, SecretsApart
  <1> QED BY <1>2, <1>12, <1>13 DEF VaultInv

LEMMA VaultRests ==
  ASSUME VaultInv, UNCHANGED <<secretVars, deployVars, extensionVars>>
  PROVE  VaultInv'
  <1>1. DeploymentInv /\ ExtensionsInv /\ SecretsApart
    BY DEF VaultInv
  <1>2. DeploymentInv' /\ ExtensionsInv'
    BY <1>1, DeploymentStepKeeps, ExtensionsStepKeeps
  <1>3. UNCHANGED <<issued, target, gone, server, attempt, tokens>>
    BY DEF secretVars, deployVars, extensionVars
  <1>4. SecretsApart'
    BY <1>1, <1>3 DEF SecretsApart, SecretsOf, ServerTokens
  <1> QED BY <1>2, <1>4 DEF VaultInv

LEMMA VaultSteps == VaultInv /\ [ServicesNext]_servicesVars => VaultInv'
  <1> SUFFICES ASSUME VaultInv, [ServicesNext]_servicesVars
               PROVE  VaultInv'
    OBVIOUS
  <1>1. CASE DeploymentsMove
    BY <1>1, DeploymentsMoveKeeps
  <1>2. CASE ExtensionsMove
    BY <1>2, ExtensionsMoveKeeps DEF ExtensionsMove
  <1>3. CASE DatabasesMove \/ ProvidersMove \/ ProjectsMove \/ UpgradeMove \/ UNCHANGED servicesVars
    <2>1. UNCHANGED <<secretVars, deployVars, extensionVars>>
      BY <1>3 DEF DatabasesMove, ProvidersMove, ProjectsMove, UpgradeMove, servicesVars
    <2> QED BY <2>1, VaultRests
  <1> QED BY <1>1, <1>2, <1>3 DEF ServicesNext

\* What the other parts see of a step is a step of their own or none.
LEMMA ServicesSteps ==
  ASSUME [ServicesNext]_servicesVars
  PROVE  /\ [DatabaseNext]_databaseVars /\ [ProvidersNext]_providerVars
         /\ [ProjectsNext]_projectsVars /\ [UpgradeNext]_upgradeVars
  BY DEF ServicesNext, servicesVars, DatabasesMove, DeploymentsMove, ExtensionsMove, ProvidersMove, ProjectsMove, UpgradeMove

\* However the services work side by side, over one vault whose secrets the
\* settings screen deletes and rotates at any time (services.ts): each keeps its
\* invariant, a secret stored for a server is never one a target names, and so
\* neither a sign-in nor the deletion of a server takes a target's secret away, for any
\* numbers of targets, servers, plugins, secrets and bounds.
THEOREM ServicesInvHolds == ServicesSpec => []ServicesInv
  <1>1. ServicesInit => VaultInv
    BY VaultStarts DEF ServicesInit
  <1>2. ServicesSpec => []VaultInv
    BY <1>1, VaultSteps, PTL DEF ServicesSpec
  <1>3. ServicesSpec => DatabaseSpec /\ ProvidersSpec /\ ProjectsSpec /\ UpgradeSpec
    <2>1. ServicesInit => DatabaseInit /\ ProvidersInit /\ ProjectsInit /\ UpgradeInit
      BY DEF ServicesInit
    <2> QED BY <2>1, ServicesSteps, PTL DEF ServicesSpec, DatabaseSpec, ProvidersSpec, ProjectsSpec, UpgradeSpec
  <1>4. VaultInv /\ DatabaseInv /\ ProvidersInv /\ ProjectsInv /\ UpgradeTypeOK /\ UpgradeInv => ServicesInv
    BY DEF VaultInv, ServicesInv
  <1> QED BY <1>2, <1>3, <1>4, DatabaseInvHolds, ProvidersInvHolds, ProjectsInvHolds, UpgradeTypeCorrect, UpgradeInvHolds, PTL
====
