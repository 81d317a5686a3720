---- MODULE Renderer ----
(***************************************************************************)
(* What a window shows: the query cache (renderer/state/query-cache.ts)    *)
(* and the live view of a task (renderer/state/use-task-stream.ts), over   *)
(* the command bus and the task event hub.                                 *)
(*                                                                         *)
(* Of the host's data one number is kept, which every command that changes *)
(* something makes greater; of the cache one record, whose query reads     *)
(* that number and whose scope every command invalidates.  A query handler *)
(* that awaits something (Async) reads and answers in different turns.     *)
(***************************************************************************)
EXTENDS CommandBus, TaskEventHub, FiniteSets

CONSTANTS
  Async,       \* the query's handler awaits
  MaxCancels,  \* bound: cancels sent for calls
  MaxEvents    \* bound: task.changed events

ASSUME StreamsAssumption == Sub = Stream
ASSUME EventsAssumption == Event = {"cache.invalidate", "task.changed"}
ASSUME AsyncAssumption == Async \in BOOLEAN
ASSUME BoundsAssumption == MaxCancels \in Nat /\ MaxEvents \in Nat

VARIABLES
  data,      \* the host's data
  acted,     \* call handlers that have changed or read it
  seen,      \* what a query's handler has read
  asked,     \* the task a stream was opened for
  rec,       \* the cache's record: status, data, and the fetch under way
  view,      \* useTaskStream: task, handle, chunks shown, done and error
  cancels,
  \* History.
  announced, \* the data as of the last cache.invalidate that was published
  known,     \* the data as of the last one the client heard
  heardTo    \* the last chunk a stream's observer was called with

cacheVars == <<rec, known>>
hostData  == <<data, acted, seen, announced>>
vars == <<busVars, hubVars, hostData, asked, cacheVars, view, heardTo, cancels>>

Empty == [task |-> {}, handle |-> {}, done |-> FALSE, error |-> FALSE,
          from |-> {}]  \* history: the streams whose messages were folded in

TypeOK ==
  /\ BusTypeOK /\ HubTypeOK
  /\ data \in Nat /\ announced \in 0..data /\ known \in 0..announced
  /\ acted \subseteq Call /\ seen \in [Query -> 0..data] /\ asked \in [Stream -> SUBSET Task]
  /\ rec \in [status : {"absent", "loading", "success", "error"}, data : 0..data,
              fetch : SUBSET Query]
  /\ view.task \in SUBSET Task /\ view.handle \in SUBSET Stream
  /\ heardTo \in [Stream -> Nat] /\ cancels \in 0..MaxCancels

\* connectRuntime(): the client subscribes to invalidations.
Init ==
  /\ BusInit("cache.invalidate")
  /\ HubInit
  /\ data = 0 /\ announced = 0 /\ known = 0
  /\ acted = {} /\ seen = [q \in Query |-> 0] /\ asked = [i \in Stream |-> {}]
  /\ rec = [status |-> "absent", data |-> 0, fetch |-> {}]
  /\ view = Empty /\ heardTo = [i \in Stream |-> 0] /\ cancels \in 0..MaxCancels

-----------------------------------------------------------------------------
(* The query cache                                                          *)

Fetching == rec.fetch # {}

\* fetch(): a fetch that is under way is not started again.
Fetch(q) ==
  IF Fetching THEN Quiet /\ UNCHANGED rec
  ELSE /\ q \in Query /\ Calls(q, FALSE)
       /\ rec' = [rec EXCEPT !.fetch = {q}, !.status = IF @ = "absent" THEN "loading" ELSE @]

\* invalidate(): only what was read before is fetched again.
Invalidate(q) == IF rec.status = "absent" THEN Quiet /\ UNCHANGED rec ELSE Fetch(q)

\* read() and subscribe() of a component that mounts, or refetch().
Read(q) ==
  /\ ~Fetching /\ Fetch(q)
  /\ UNCHANGED <<down, host, streams, listening, lastSeq, told, listens>>
  /\ UNCHANGED <<hubVars, hostData, asked, view, heardTo, cancels, known>>

\* Fault: an error is not entered into the record.
FetchedFault(m) ==
  IF rec.fetch # {m.id} THEN rec
  ELSE IF m.kind = "ok" THEN [status |-> "success", data |-> m.val, fetch |-> {}]
  ELSE [rec EXCEPT !.fetch = {}]

\* The settled fetch: an error leaves the old data visible.
Fetched(m) ==
  IF rec.fetch # {m.id} THEN rec
  ELSE IF m.kind = "ok" THEN [status |-> "success", data |-> m.val, fetch |-> {}]
  ELSE [rec EXCEPT !.status = "error", !.fetch = {}]

-----------------------------------------------------------------------------
(* The task view                                                            *)

Fold(m) ==
  LET v == [view EXCEPT !.from = @ \cup {m.id}]
  IN CASE m.kind = "chunk" -> [v EXCEPT !.done = @ \/ Last(m.val).kind = "done"]
       [] m.kind = "end"   -> [v EXCEPT !.done = TRUE]
       [] OTHER            -> [v EXCEPT !.done = TRUE, !.error = TRUE]

\* Another task is shown: the effect of the old one is cleaned up, which
\* cancels its handle, and the new one's effect opens a stream.
Select(t, i) ==
  /\ row[t] # "new" /\ view.task # {t}
  /\ OpenStream(i, SetToSeq(view.handle))
  /\ asked' = [asked EXCEPT ![i] = {t}]
  /\ view' = [Empty EXCEPT !.task = {t}, !.handle = {i}]
  /\ UNCHANGED <<hubVars, hostData, cacheVars, heardTo, cancels>>

-----------------------------------------------------------------------------
(* Steps                                                                    *)

elsewhere == <<hubVars, hostData, asked, cacheVars, view, heardTo>>

RunCommand(c, aborted) ==
  /\ c \in Command /\ (aborted => cancels < MaxCancels)
  /\ Dispatch(c, aborted)
  /\ cancels' = IF aborted THEN cancels + 1 ELSE cancels
  /\ UNCHANGED elsewhere

AbortCall(i) ==
  /\ i \in Call /\ cancels < MaxCancels /\ Cancel(i)
  /\ cancels' = cancels + 1 /\ UNCHANGED elsewhere

HostRefuses(i) == Refuse(i, IF i \in Stream THEN <<>> ELSE 0) /\ UNCHANGED <<elsewhere, cancels>>

\* A call's handler starts; the query's, when it does not await, is done.
HostStarts(i) ==
  /\ i \in Call
  /\ IF i \in Query /\ ~Async THEN StartAndAnswer(i, data) ELSE Start(i)
  /\ UNCHANGED <<elsewhere, cancels>>

HostStreams(i) ==
  /\ i \in Stream /\ Start(i)
  /\ \E t \in asked[i] : Subscribe(i, t)
  /\ UNCHANGED <<hostData, asked, cacheVars, view, heardTo, cancels>>

HostStops(i) == HostCancel(i, 0) /\ UNCHANGED <<elsewhere, cancels>>
HostTimesOut(i) == Timeout(i, 0) /\ UNCHANGED <<elsewhere, cancels>>
HostListens(e) == (HostSubscribe(e) \/ HostUnsubscribe(e)) /\ UNCHANGED <<elsewhere, cancels>>

\* The handler changes the data, or reads them.
HandlerActs(i) ==
  /\ i \in Call \ acted /\ handler[i] = "running"
  /\ acted' = acted \cup {i}
  /\ IF i \in Command THEN data' = data + 1 /\ UNCHANGED seen
     ELSE seen' = [seen EXCEPT ![i] = data] /\ UNCHANGED data
  /\ UNCHANGED <<busVars, hubVars, announced, asked, cacheVars, view, heardTo, cancels>>

\* It returns, or throws before or after that.
HandlerReturns(i, kind) ==
  /\ i \in Call /\ kind \in {"ok", "error"} /\ (kind = "ok" => i \in acted)
  /\ LET val == IF i \in Query THEN seen[i] ELSE data
     IN Settle(i, kind, val, "cache.invalidate")
  /\ announced' = IF i \in Command /\ kind = "ok" /\ inflight[i] = "live" THEN data ELSE announced
  /\ UNCHANGED <<hubVars, data, acted, seen, asked, cacheVars, view, heardTo, cancels>>

HubGives(i) ==
  /\ inflight[i] = "live" /\ HasNext(i)
  /\ StreamTurn(i, "chunk", NextChunk(i)) /\ Give(i)
  /\ UNCHANGED <<hostData, asked, cacheVars, view, heardTo, cancels>>

HubEnds(i) ==
  /\ Ended(i) \/ inflight[i] # "live"
  /\ StreamTurn(i, "end", <<>>) /\ Drop(i)
  /\ UNCHANGED <<hostData, asked, cacheVars, view, heardTo, cancels>>

\* A task publishes; the last chunk comes with a change of its row, which is
\* also published as an event.
TaskSteps(t) ==
  /\ \/ \E kind \in {"text", "step"} : TaskActs(t, kind)
     \/ TaskStarts(t)
     \/ Forget(t)
  /\ UNCHANGED <<busVars, hostData, asked, cacheVars, view, heardTo, cancels>>

TaskEnds(t) ==
  /\ TaskRests(t)
  /\ IF eventSeq["task.changed"] < MaxEvents THEN PublishEvent("task.changed", 0) ELSE UNCHANGED busVars
  /\ UNCHANGED <<hostData, asked, cacheVars, view, heardTo, cancels>>

TakeAnswer ==
  \E m \in {Head(s) : s \in {down} \ {<<>>}} :
    /\ ClientAnswer(m) /\ rec' = Fetched(m)
    /\ UNCHANGED <<hubVars, hostData, asked, known, view, heardTo, cancels>>

\* A message of a stream is folded into the view that is there, and a chunk
\* that is not text invalidates what the task may have changed.
TakeStream(q) ==
  \E m \in {Head(s) : s \in {down} \ {<<>>}} :
    /\ ClientStream(m)
    /\ view' = IF Observed(m) THEN Fold(m) ELSE view
    /\ heardTo' = IF Observed(m) /\ m.kind = "chunk" THEN [heardTo EXCEPT ![m.id] = Last(m.val).n]
                  ELSE heardTo
    /\ IF Observed(m) /\ m.kind = "chunk" /\ m.val[1].kind # "text" THEN Invalidate(q)
       ELSE Quiet /\ UNCHANGED rec
    /\ UNCHANGED <<hubVars, hostData, asked, known, cancels>>

TakeEvent(q) ==
  \E m \in {Head(s) : s \in {down} \ {<<>>}} :
    /\ ClientEvent(m)
    /\ IF Heard(m) /\ m.name = "cache.invalidate" THEN known' = m.val /\ Invalidate(q)
       ELSE Quiet /\ UNCHANGED cacheVars
    /\ UNCHANGED <<hubVars, hostData, asked, view, heardTo, cancels>>

OnOff == (Listen("task.changed") \/ Unlisten("task.changed")) /\ UNCHANGED <<elsewhere, cancels>>
Close == Detach /\ UNCHANGED <<elsewhere, cancels>>

HostSteps ==
  \/ \E i \in Id : HostRefuses(i) \/ HostStops(i) \/ HostTimesOut(i)
  \/ \E i \in Call : HostStarts(i) \/ HandlerActs(i) \/ \E k \in {"ok", "error"} : HandlerReturns(i, k)
  \/ \E i \in Stream : HostStreams(i) \/ HubGives(i) \/ HubEnds(i)
  \/ \E e \in Event : HostListens(e)

\* Ids are used in turn: they differ in nothing but their kind.
NextOf(S) == {q \in S \ used : \A p \in S \ used : p >= q}

Spare == IF NextOf(Query) = {} THEN Query ELSE NextOf(Query)

ClientSteps ==
  \/ TakeAnswer
  \/ \E q \in Spare : TakeStream(q) \/ TakeEvent(q)

Next ==
  \/ HostSteps \/ ClientSteps
  \/ \E q \in NextOf(Query) : Read(q)
  \/ \E c \in NextOf(Command), b \in BOOLEAN : RunCommand(c, b)
  \/ \E i \in Call : AbortCall(i)
  \/ \E t \in Task, i \in NextOf(Stream) : Select(t, i)
  \/ \E t \in Task : TaskSteps(t) \/ TaskEnds(t)
  \/ OnOff \/ Close

Spec == Init /\ [][Next]_vars

-----------------------------------------------------------------------------
(* Properties                                                               *)

Times(s, Test(_)) == Cardinality({k \in DOMAIN s : Test(s[k])})

\* What the client waits for is in one place only: its request is on the way,
\* its handler runs and may still answer, or its one answer - for a stream, its
\* last message - is on the way back.  What it does not wait for is in none of
\* them.  (The abort, the time-out and the handler's own end compete to answer;
\* whoever comes second must not.)
OnTheWay(i) == Times(up, LAMBDA m : m = Request(i))
EachRequestIsInOnePlace ==
  attached =>
    /\ \A i \in Call :
         OnTheWay(i) + (IF inflight[i] = "live" THEN 1 ELSE 0)
           + Times(down, LAMBDA m : m.type = "response" /\ m.id = i)
         = IF i \in pending THEN 1 ELSE 0
    /\ \A i \in Stream :
         LET last == Times(down, LAMBDA m : m.type = "stream" /\ m.id = i /\ m.kind # "chunk")
         IN /\ i \in DOMAIN streams =>
                 OnTheWay(i) + (IF handler[i] = "running" THEN 1 ELSE 0) + last = 1
            /\ i \in used \ DOMAIN streams => handler[i] # "running" /\ last = 0

\* What is still to come for a stream's observer, on the way or in the hub's
\* queue, goes on where the last chunk left off: nothing is missing, doubled
\* or out of order, whenever the subscription began and however the texts
\* were put together.
IsChunkOf(m, i) == m.type = "stream" /\ m.id = i /\ m.kind = "chunk"

\* Before the k-th message of q stands chunk n of i: the last of the message of
\* i before it or, if there is none, the one that was heard last.
Reaches(q, i, k, heard, n) ==
  /\ (\A b \in 1..(k - 1) : ~IsChunkOf(q[b], i)) => n = heard
  /\ \A b \in 1..(k - 1) :
       IsChunkOf(q[b], i) /\ (\A c \in (b + 1)..(k - 1) : ~IsChunkOf(q[c], i)) => n = Last(q[b].val).n

\* Chunks s, behind the first k - 1 messages of q, go on with them.
GoesOn(q, i, k, heard, s) ==
  s # <<>> => /\ Reaches(q, i, k, heard, s[1].n - 1)
              /\ \A j \in DOMAIN s : s[j].n = s[1].n + j - 1

ReplayThenLive ==
  \A i \in DOMAIN streams : attached =>
    /\ \A k \in DOMAIN down : IsChunkOf(down[k], i) => GoesOn(down, i, k, heardTo[i], down[k].val)
    /\ GoesOn(down, i, Len(down) + 1, heardTo[i], sub[i].queue)

\* When no handler of a query awaits, a record at rest shows at least the data
\* of the last change the window was told of.
FreshAtRest ==
  ~Async /\ rec.status = "success" /\ ~Fetching => rec.data >= known
====
