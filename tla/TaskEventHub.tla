---- MODULE TaskEventHub ----
(***************************************************************************)
(* TaskEventHub (packages/core/src/task-event-hub.ts) and the one method   *)
(* of the task service that opens a subscription (task-service.ts:         *)
(* stream).  A chunk is the number it has in its topic, and                *)
(* whether it is text, the final "done", or anything else.  Texts that     *)
(* wait in a subscriber's queue are handed over together.                  *)
(***************************************************************************)
EXTENDS Naturals, Sequences, SequencesExt

CONSTANTS
  Task,
  Sub,        \* subscriptions
  MaxChunks   \* bound: chunks a task makes

ASSUME ChunksAssumption == MaxChunks \in Nat

VARIABLES
  row,   \* the task's row: "new", "running", "interrupted", or "over"
  topic,   \* topics: buffer, and whether the topic is there, open or closed
  sub      \* the iterators: their task, queue, and closed flag

hubVars == <<row, topic, sub>>

Chunk == [n : Nat, kind : {"text", "step", "done"}]
Gone  == [buffer |-> <<>>, is |-> "absent"]
None  == [task |-> {}, queue |-> <<>>, closed |-> TRUE]

HubTypeOK ==
  /\ row \in [Task -> {"new", "running", "interrupted", "over"}]
  /\ topic \in [Task -> [buffer : Seq(Chunk), is : {"absent", "open", "closed"}]]
  /\ sub \in [Sub -> [task : SUBSET Task, queue : Seq(Chunk), closed : BOOLEAN]]

HubInit ==
  /\ row \in [Task -> {"new", "interrupted", "over"}]
  /\ topic = [t \in Task |-> Gone]
  /\ sub = [i \in Sub |-> None]

-----------------------------------------------------------------------------
\* publish() of some chunks to a topic: a closed one drops them.
Extended(tp, kinds) ==
  IF tp.is = "closed" THEN tp
  ELSE [buffer |-> tp.buffer \o [k \in DOMAIN kinds |-> [n |-> Len(tp.buffer) + k, kind |-> kinds[k]]],
        is |-> IF Contains(kinds, "done") THEN "closed" ELSE "open"]

\* Its listeners get the same chunks, and the end when the topic is closed.
Notified(t, kinds) ==
  LET tp == Extended(topic[t], kinds)
      new == SubSeq(tp.buffer, Len(topic[t].buffer) + 1, Len(tp.buffer))
  IN [i \in Sub |-> IF sub[i].task = {t} /\ ~sub[i].closed
                    THEN [sub[i] EXCEPT !.queue = @ \o new, !.closed = tp.is = "closed"]
                    ELSE sub[i]]

Publish(t, kinds) ==
  /\ topic' = [topic EXCEPT ![t] = Extended(@, kinds)]
  /\ sub' = Notified(t, kinds)

\* A running task publishes; a task that comes to rest publishes "done".
TaskActs(t, kind) ==
  /\ row[t] = "running" /\ Len(topic[t].buffer) < MaxChunks
  /\ Publish(t, <<kind>>)
  /\ UNCHANGED row

TaskStarts(t) ==
  /\ row[t] \in {"new", "interrupted"}   \* submit, or resume after a restart
  /\ row' = [row EXCEPT ![t] = "running"]
  /\ Publish(t, <<"step">>)

TaskRests(t) ==
  /\ row[t] = "running"
  /\ row' = [row EXCEPT ![t] = "over"]
  /\ Publish(t, <<"done">>)

\* The timer of a closed topic.
Forget(t) ==
  /\ topic[t].is = "closed"
  /\ topic' = [topic EXCEPT ![t] = Gone]
  /\ UNCHANGED <<row, sub>>

\* stream(): without a topic, the row is replayed into a new one.
Snapshot(t) ==
  IF topic[t].is # "absent" THEN topic[t]
  ELSE Extended(Gone, IF row[t] \in {"interrupted", "over"} THEN <<"step", "done">> ELSE <<"step">>)

\* Fault: a subscription to an open topic begins with what is published next.
SubscribeFault(i, t) ==
  LET tp == Snapshot(t)
  IN /\ topic' = [topic EXCEPT ![t] = tp]
     /\ sub' = [sub EXCEPT ![i] =
          [task |-> {t}, queue |-> IF tp.is = "closed" THEN tp.buffer ELSE <<>>, closed |-> tp.is = "closed"]]
     /\ UNCHANGED row

Subscribe(i, t) ==
  LET tp == Snapshot(t)
  IN /\ topic' = [topic EXCEPT ![t] = tp]
     /\ sub' = [sub EXCEPT ![i] = [task |-> {t}, queue |-> tp.buffer, closed |-> tp.is = "closed"]]
     /\ UNCHANGED row

\* next(): a chunk, or the texts at the head of the queue as one.
Burst(q) ==
  LET texts == {k \in 1..Len(q) : \A j \in 1..k : q[j].kind = "text"}
  IN SubSeq(q, 1, IF texts = {} THEN 1 ELSE Max(texts))

NextChunk(i) == Burst(sub[i].queue)
HasNext(i) == sub[i].queue # <<>>
Ended(i)   == sub[i].queue = <<>> /\ sub[i].closed

Give(i) ==
  /\ HasNext(i)
  /\ sub' = [sub EXCEPT ![i].queue = SubSeq(@, Len(NextChunk(i)) + 1, Len(@))]
  /\ UNCHANGED <<row, topic>>

\* return(): the subscription is over.
Drop(i) == sub' = [sub EXCEPT ![i] = None] /\ UNCHANGED <<row, topic>>
====
