---- MODULE RendererInvariant ----
(***************************************************************************)
(* The inductive invariant of a window on the bus (Renderer): what the two *)
(* directions of its channel hold at any time, and how that fits what host *)
(* and client remember.  What it says of the messages on the way is said   *)
(* of any sequence q of them.  TLC checks the invariant on small           *)
(* instances, RendererProofs proves it.                                    *)
(***************************************************************************)
EXTENDS Renderer

-----------------------------------------------------------------------------
(* Types                                                                    *)

UpMessage ==
  [type : {"request", "cancel"}, id : Id] \cup [type : {"subscribe", "unsubscribe"}, name : Event]

Response == [type : {"response"}, id : Call, kind : {"ok", "error", "cancelled", "timeout"}, val : Nat]
StreamMessage ==
  [type : {"stream"}, id : Stream, seq : Nat, kind : {"chunk", "end", "error", "cancelled"}, val : Seq(Chunk)]
Notification == [type : {"event"}, name : Event, seq : Nat, val : Nat]
DownMessage == Response \cup StreamMessage \cup Notification

IsAnswerOf(m, i)  == m.type = "response" /\ m.id = i
IsOf(m, i)        == m.type = "stream" /\ m.id = i
IsLastOf(m, i)    == IsOf(m, i) /\ m.kind # "chunk"
IsInvalidation(m) == m.type = "event" /\ m.name = "cache.invalidate"
IsReading(m)      == m.type = "response" /\ m.id \in Query /\ m.kind = "ok"

\* A window that is closed has nothing on the way.
WiresTyped ==
  /\ up \in Seq(UpMessage) /\ down \in Seq(DownMessage) /\ attached \in BOOLEAN
  /\ ~attached => up = <<>> /\ down = <<>>

\* A stream's loop sees an abort later, a call's at once.
HostTyped ==
  /\ subscribed \subseteq Event
  /\ inflight \in [Id -> {"no", "live", "aborted"}] /\ handler \in [Id -> {"none", "running", "done"}]
  /\ \A i \in Id : inflight[i] # "no" => handler[i] = "running"
  /\ \A i \in Call : inflight[i] # "aborted"
  /\ emitted \in [Stream -> Nat] /\ eventSeq \in [Event -> Nat]

Outcome == {"ok", "error", "cancelled", "timeout", "chunk", "end", "order"}

ClientTyped ==
  /\ listening \subseteq Event /\ lastSeq \in [Event -> Nat] /\ listens \in 0..MaxListens
  /\ pending \subseteq Call /\ DOMAIN streams \subseteq Stream /\ streams \in [DOMAIN streams -> Nat]
  /\ used \subseteq Id /\ deaf \subseteq used /\ pending \subseteq used /\ DOMAIN streams \subseteq used
  /\ told \in [Id -> Seq(Outcome)]

ViewTyped ==
  /\ view \in [task : SUBSET Task, handle : SUBSET Stream, done : BOOLEAN, error : BOOLEAN,
               from : SUBSET Stream]
  /\ view.handle = {} \/ \E i \in Stream : view.handle = {i}
  /\ heardTo \in [Stream -> Nat] /\ asked \in [Stream -> SUBSET Task] /\ cancels \in 0..MaxCancels

CacheTyped ==
  /\ data \in Nat /\ announced \in 0..data /\ known \in 0..announced
  /\ acted \subseteq Call /\ seen \in [Query -> 0..data]
  /\ rec \in [status : {"absent", "loading", "success", "error"}, data : 0..data, fetch : SUBSET Query]

\* No message says of the data what they have not been.
TrueIn(q, most, all) ==
  \A k \in DOMAIN q : /\ IsInvalidation(q[k]) => q[k].val <= most
                      /\ IsReading(q[k]) => q[k].val <= all

Typed ==
  /\ WiresTyped /\ HostTyped /\ ClientTyped /\ HubTypeOK /\ ViewTyped /\ CacheTyped
  /\ TrueIn(down, announced, data)

-----------------------------------------------------------------------------
(* Requests and their answers                                               *)

\* How many messages of a kind are on the way.
Count(q, M) == Cardinality({k \in DOMAIN q : q[k] \in M})

Requests(i) == {Request(i)}
Answers(i)  == {m \in DownMessage : IsAnswerOf(m, i)}
Lasts(i)    == {m \in DownMessage : IsLastOf(m, i)}

\* A call that is waited for is in one place, any other in none.
CallIsPlaced(i) ==
  Count(up, Requests(i)) + (IF inflight[i] = "live" THEN 1 ELSE 0) + Count(down, Answers(i))
    = IF i \in pending THEN 1 ELSE 0

\* So is a stream.
StreamIsPlaced(i) ==
  Count(up, Requests(i)) + (IF handler[i] = "running" THEN 1 ELSE 0) + Count(down, Lasts(i))
    = IF i \in DOMAIN streams THEN 1 ELSE 0

Placed == attached => (\A i \in Call : CallIsPlaced(i)) /\ \A i \in Stream : StreamIsPlaced(i)

-----------------------------------------------------------------------------
(* A stream's messages                                                      *)

\* Number n is due at the k-th place of q: the next after the message of i
\* before it or, if there is none, the one that is due first.
Leads(q, i, k, first, n) ==
  /\ (\A b \in 1..(k - 1) : ~IsOf(q[b], i)) => n = first
  /\ \A b \in 1..(k - 1) :
       IsOf(q[b], i) /\ (\A c \in (b + 1)..(k - 1) : ~IsOf(q[c], i)) => n = q[b].seq + 1

NumberedIn(q, i, first) == \A k \in DOMAIN q : IsOf(q[k], i) => Leads(q, i, k, first, q[k].seq)

\* The request of a stream is on the way: it has sent nothing yet.
Asks(i)   == Count(up, Requests(i)) # 0
Speaks(i) == Asks(i) \/ handler[i] = "running"

\* Messages of an open stream come in the order of their numbers, and the next
\* one goes on with them.
Numbered(i) ==
  /\ NumberedIn(down, i, streams[i])
  /\ Speaks(i) => Leads(down, i, Len(down) + 1, streams[i], emitted[i])

NoneOf(q, i) == \A k \in DOMAIN q : ~IsOf(q[k], i)

Unheard(i) == NoneOf(down, i) /\ emitted[i] = 0 /\ heardTo[i] = 0

InOrder ==
  attached => /\ \A i \in DOMAIN streams : Numbered(i)
              /\ \A i \in Stream : i \notin used \/ Asks(i) => Unheard(i)

-----------------------------------------------------------------------------
(* Chunks                                                                   *)

\* A topic's chunks are numbered, and who listens to it, and has not been told
\* of its end, listens to an open one; nobody does before or after he runs.
TopicsAreWhole ==
  /\ \A t \in Task : /\ \A k \in DOMAIN topic[t].buffer : topic[t].buffer[k].n = k
                     /\ topic[t].is = "absent" => topic[t].buffer = <<>>
  /\ \A i \in Sub : ~sub[i].closed => \E t \in Task : sub[i].task = {t} /\ topic[t].is = "open"
  /\ \A i \in Sub : sub[i] # None => handler[i] = "running"

\* Chunks hand over something, and go on where those before them end.
ChunksIn(q, i, heard) ==
  \A k \in DOMAIN q : IsChunkOf(q[k], i) => q[k].val # <<>> /\ GoesOn(q, i, k, heard, q[k].val)

\* Whoever listens to an open topic has, or is on its way to have, all of it.
UpToDate(i) ==
  \A t \in Task : sub[i].task = {t} /\ ~sub[i].closed =>
    IF sub[i].queue = <<>> THEN Reaches(down, i, Len(down) + 1, heardTo[i], Len(topic[t].buffer))
    ELSE Last(sub[i].queue).n = Len(topic[t].buffer)

Chunked(i) ==
  /\ ChunksIn(down, i, heardTo[i])
  /\ GoesOn(down, i, Len(down) + 1, heardTo[i], sub[i].queue)
  /\ UpToDate(i)

Whole == TopicsAreWhole /\ (attached => \A i \in DOMAIN streams : Chunked(i))

-----------------------------------------------------------------------------
(* The query cache                                                          *)

\* What an answer says is no older than any invalidation before it.
FreshIn(q, least) ==
  \A k \in DOMAIN q : IsReading(q[k]) =>
    /\ q[k].val >= least
    /\ \A j \in 1..(k - 1) : IsInvalidation(q[j]) => q[j].val <= q[k].val

\* A handler that does not await reads and answers at once.
Fresh ==
  /\ ~Async => FreshIn(down, known) /\ \A i \in Query : handler[i] # "running"
  /\ FreshAtRest

RendererInv == Typed /\ Placed /\ InOrder /\ Whole /\ Fresh
====
