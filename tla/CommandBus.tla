---- MODULE CommandBus ----
(***************************************************************************)
(* CommandBusHost and CommandBusClient (packages/command-bus/src/host.ts,  *)
(* client.ts) over the channel of one window (main/electron-transport.ts). *)
(*                                                                         *)
(* The channel keeps the order in each direction.  A request has an id of  *)
(* its own, never used again.  What the handlers do and what the answers   *)
(* say is left to the module that composes the bus with its users; so is   *)
(* the payload of a message (val).  Messages from frames the host does not *)
(* trust are dropped before anything else happens and are left out.        *)
(***************************************************************************)
EXTENDS Naturals, Sequences

CONSTANTS
  Command, Query, Stream,  \* request ids, by the kind of their contract
  Event,                   \* names of events
  MaxListens               \* bound: listeners put up

ASSUME KindsAssumption ==
  Command \cap Query = {} /\ Stream \cap (Command \cup Query) = {} /\ MaxListens \in Nat

VARIABLES
  up, down,     \* the two directions of the channel
  attached,     \* host: transports and issuedTokens hold the window's peer
  subscribed,   \* host: subscriptions, the events the peer gets
  inflight,     \* host: inflight, with the state of the request's controller
  handler,      \* host: what has become of the handler's promise or iterator
  emitted,      \* host: the seq of the next message of a stream
  eventSeq,     \* host: eventSeq
  pending,      \* client: pending
  streams,      \* client: streams, with expectedSeq
  listening,    \* client: listeners, the events somebody listens to
  lastSeq,      \* client: lastEventSeq
  \* History.
  used,         \* ids that were sent
  deaf,         \* ids whose signal was aborted before they were sent
  told,         \* what the client heard of a request: every outcome in turn
  listens       \* listeners put up so far

channel == <<up, down>>
host    == <<attached, subscribed, inflight, handler, emitted, eventSeq>>
client  == <<pending, streams, listening, lastSeq>>
history == <<used, deaf, told, listens>>
busVars == <<channel, host, client, history>>

Call == Command \cup Query
Id   == Call \cup Stream

BusTypeOK ==
  /\ up \in Seq([type : {"request", "cancel"}, id : Id] \cup [type : {"subscribe", "unsubscribe"}, name : Event])
  /\ attached \in BOOLEAN /\ subscribed \subseteq Event /\ listening \subseteq Event
  /\ inflight \in [Id -> {"no", "live", "aborted"}]
  /\ handler \in [Id -> {"none", "running", "done"}]
  /\ \A i \in Id : inflight[i] # "no" => handler[i] = "running"  \* no entry outlives its request
  /\ emitted \in [Stream -> Nat] /\ eventSeq \in [Event -> Nat] /\ lastSeq \in [Event -> Nat]
  /\ pending \subseteq Call
  /\ DOMAIN streams \subseteq Stream /\ \A i \in DOMAIN streams : streams[i] \in Nat
  /\ used \subseteq Id /\ deaf \subseteq used
  /\ told \in [Id -> Seq({"ok", "error", "cancelled", "timeout", "chunk", "end", "order"})]
  /\ listens \in 0..MaxListens

\* A window is attached, and its client subscribes to an event as it is made.
\* Some of what is bounded may be spent already.
BusInit(first) ==
  /\ up = <<[type |-> "subscribe", name |-> first]>> /\ down = <<>>
  /\ attached = TRUE /\ subscribed = {} /\ listening = {first}
  /\ inflight = [i \in Id |-> "no"] /\ handler = [i \in Id |-> "none"]
  /\ emitted = [i \in Stream |-> 0] /\ eventSeq = [e \in Event |-> 0]
  /\ pending = {} /\ streams = <<>> /\ lastSeq = [e \in Event |-> 0]
  /\ used \in SUBSET Id /\ deaf = {} /\ told = [i \in Id |-> <<>>] /\ listens \in 0..MaxListens

-----------------------------------------------------------------------------
(* The client sends                                                         *)

Request(i) == [type |-> "request", id |-> i]
CancelOf(i) == [type |-> "cancel", id |-> i]

\* dispatch(): with a signal that is aborted already, the cancel goes first.
Calls(i, aborted) ==
  /\ i \in Call \ used /\ attached
  /\ up' = up \o (IF aborted THEN <<CancelOf(i), Request(i)>> ELSE <<Request(i)>>)
  /\ pending' = pending \cup {i}
  /\ used' = used \cup {i} /\ deaf' = IF aborted THEN deaf \cup {i} ELSE deaf

Dispatch(i, aborted) ==
  /\ Calls(i, aborted)
  /\ UNCHANGED <<down, host, streams, listening, lastSeq, told, listens>>

\* stream(); the handles in `old` are cancelled in the same turn.
OpenStream(i, old) ==
  /\ i \in Stream \ used /\ attached
  /\ up' = up \o [k \in DOMAIN old |-> CancelOf(old[k])] \o <<Request(i)>>
  /\ streams' = [j \in DOMAIN streams \cup {i} |-> IF j = i THEN 0 ELSE streams[j]]
  /\ used' = used \cup {i}
  /\ UNCHANGED <<down, host, pending, listening, lastSeq, deaf, told, listens>>

\* The signal of a call is aborted, or a stream's handle is cancelled: the
\* message goes out whether or not the answer is there already.
Cancel(i) ==
  /\ i \in used \ deaf /\ attached
  /\ up' = Append(up, CancelOf(i))
  /\ UNCHANGED <<down, host, client, history>>

\* on() and the function it returns, of the only listener of an event.
Listen(e) ==
  /\ e \in Event \ listening /\ attached /\ listens < MaxListens
  /\ listening' = listening \cup {e} /\ listens' = listens + 1
  /\ up' = Append(up, [type |-> "subscribe", name |-> e])
  /\ UNCHANGED <<down, host, pending, streams, lastSeq, used, deaf, told>>

Unlisten(e) ==
  /\ e \in listening /\ attached
  /\ listening' = listening \ {e}
  /\ up' = Append(up, [type |-> "unsubscribe", name |-> e])
  /\ UNCHANGED <<down, host, pending, streams, lastSeq, history>>

-----------------------------------------------------------------------------
(* The host receives                                                        *)

Arrives(m) == up # <<>> /\ Head(up) = m /\ up' = Tail(up)

Answer(i, kind, val) == [type |-> "response", id |-> i, kind |-> kind, val |-> val]
Message(i, kind, val) ==
  [type |-> "stream", id |-> i, seq |-> emitted[i], kind |-> kind, val |-> val]
Send(m) == down' = IF attached THEN Append(down, m) ELSE down

\* execute(), runStream(): an unknown contract, one without a handler, or an
\* input that does not fit is refused; nothing is entered into inflight.
Refuse(i, none) ==
  /\ Arrives(Request(i))
  /\ IF i \in Call THEN Send(Answer(i, "error", none)) ELSE Send(Message(i, "error", none))
  /\ UNCHANGED <<host, client, history>>

\* The handler is called in the turn in which the request arrives.
Start(i) ==
  /\ Arrives(Request(i))
  /\ inflight' = [inflight EXCEPT ![i] = "live"]
  /\ handler' = [handler EXCEPT ![i] = "running"]
  /\ UNCHANGED <<down, attached, subscribed, emitted, eventSeq, client, history>>

\* A handler that does not wait answers in that turn.
StartAndAnswer(i, val) ==
  /\ Arrives(Request(i)) /\ i \in Call
  /\ handler' = [handler EXCEPT ![i] = "done"]
  /\ Send(Answer(i, "ok", val))
  /\ UNCHANGED <<attached, subscribed, inflight, emitted, eventSeq, client, history>>

\* Fault: a cancelled call is answered and its controller stays in inflight.
AbortFault(i, kind, none) == Send(Answer(i, kind, none)) /\ UNCHANGED inflight

\* Abort of a call's controller: the race is lost, the call is answered, and
\* the handler goes on by itself.
Abort(i, kind, none) ==
  /\ Send(Answer(i, kind, none))
  /\ inflight' = [inflight EXCEPT ![i] = "no"]

\* cancel(): a stream's loop sees the abort at its next turn.
HostCancel(i, none) ==
  /\ Arrives(CancelOf(i))
  /\ \/ inflight[i] = "live" /\ i \in Call /\ Abort(i, "cancelled", none)
     \/ inflight[i] = "live" /\ i \in Stream
        /\ inflight' = [inflight EXCEPT ![i] = "aborted"] /\ UNCHANGED down
     \/ inflight[i] # "live" /\ UNCHANGED <<inflight, down>>
  /\ UNCHANGED <<attached, subscribed, handler, emitted, eventSeq, client, history>>

Timeout(i, none) ==
  /\ i \in Call /\ inflight[i] = "live"
  /\ Abort(i, "timeout", none)
  /\ UNCHANGED <<up, attached, subscribed, handler, emitted, eventSeq, client, history>>

\* subscribe() takes the token only from the peer it was issued to.
HostSubscribe(e) ==
  /\ Arrives([type |-> "subscribe", name |-> e])
  /\ subscribed' = IF attached THEN subscribed \cup {e} ELSE subscribed
  /\ UNCHANGED <<down, attached, inflight, handler, emitted, eventSeq, client, history>>

HostUnsubscribe(e) ==
  /\ Arrives([type |-> "unsubscribe", name |-> e])
  /\ subscribed' = subscribed \ {e}
  /\ UNCHANGED <<down, attached, inflight, handler, emitted, eventSeq, client, history>>

-----------------------------------------------------------------------------
(* The host's handlers                                                      *)

SendAll(ms) == down' = IF attached THEN down \o ms ELSE down

\* publish(): the seq is counted whether or not anybody subscribed.
Notice(e, val) ==
  IF e \in subscribed THEN <<[type |-> "event", name |-> e, seq |-> eventSeq[e] + 1, val |-> val]>>
  ELSE <<>>

PublishEvent(e, val) ==
  /\ SendAll(Notice(e, val))
  /\ eventSeq' = [eventSeq EXCEPT ![e] = @ + 1]
  /\ UNCHANGED <<up, attached, subscribed, inflight, handler, emitted, client, history>>

\* Fault: the entry of an answered call stays in inflight.
SettleFault(i, kind, val, e) ==
  /\ i \in Call /\ handler[i] = "running"
  /\ handler' = [handler EXCEPT ![i] = "done"]
  /\ IF inflight[i] = "live"
     THEN LET tells == kind = "ok" /\ i \in Command
          IN /\ eventSeq' = IF tells THEN [eventSeq EXCEPT ![e] = @ + 1] ELSE eventSeq
             /\ SendAll((IF tells THEN Notice(e, val) ELSE <<>>) \o <<Answer(i, kind, val)>>)
     ELSE UNCHANGED <<eventSeq, down>>
  /\ UNCHANGED <<up, attached, subscribed, inflight, emitted, client, history>>

\* The handler's promise settles.  A command that succeeds invalidates before
\* its answer is sent; one that was aborted before has its answer already.
Settle(i, kind, val, e) ==
  /\ i \in Call /\ handler[i] = "running"
  /\ handler' = [handler EXCEPT ![i] = "done"]
  /\ IF inflight[i] = "live"
     THEN LET tells == kind = "ok" /\ i \in Command
          IN /\ inflight' = [inflight EXCEPT ![i] = "no"]
             /\ eventSeq' = IF tells THEN [eventSeq EXCEPT ![e] = @ + 1] ELSE eventSeq
             /\ SendAll((IF tells THEN Notice(e, val) ELSE <<>>)
                          \o <<Answer(i, kind, val)>>)
     ELSE UNCHANGED <<inflight, eventSeq, down>>
  /\ UNCHANGED <<up, attached, subscribed, emitted, client, history>>

\* Fault: after an abort the loop is left without a word.
StreamTurnFault(i, kind, val) ==
  /\ i \in Stream /\ handler[i] = "running" /\ kind \in {"chunk", "end", "error"}
  /\ IF inflight[i] # "live" THEN UNCHANGED <<down, emitted>>
     ELSE Send(Message(i, kind, val)) /\ emitted' = [emitted EXCEPT ![i] = @ + 1]
  /\ IF inflight[i] = "live" /\ kind = "chunk" THEN UNCHANGED <<handler, inflight>>
     ELSE /\ handler' = [handler EXCEPT ![i] = "done"]
          /\ inflight' = [inflight EXCEPT ![i] = "no"]
  /\ UNCHANGED <<up, attached, subscribed, eventSeq, client, history>>

\* One turn of runStream's loop; the iterator has produced a chunk, or ended,
\* or thrown.  After an abort nothing but the error is sent.
StreamTurn(i, kind, val) ==
  /\ i \in Stream /\ handler[i] = "running" /\ kind \in {"chunk", "end", "error"}
  /\ LET sent == IF inflight[i] = "live" THEN kind
                 ELSE IF kind = "error" THEN "error" ELSE "cancelled"
     IN /\ Send(Message(i, sent, val))
        /\ emitted' = [emitted EXCEPT ![i] = @ + 1]
        /\ IF sent = "chunk" THEN UNCHANGED <<handler, inflight>>
           ELSE /\ handler' = [handler EXCEPT ![i] = "done"]
                /\ inflight' = [inflight EXCEPT ![i] = "no"]
  /\ UNCHANGED <<up, attached, subscribed, eventSeq, client, history>>

\* The window is closed: revokePeer() aborts what the peer has in flight,
\* takes back its token, and closes its transport.
Detach ==
  /\ attached
  /\ attached' = FALSE /\ subscribed' = {}
  /\ inflight' = [i \in Id |-> IF inflight[i] = "live" /\ i \in Stream THEN "aborted" ELSE "no"]
  /\ up' = <<>> /\ down' = <<>>
  /\ UNCHANGED <<handler, emitted, eventSeq, client, history>>

-----------------------------------------------------------------------------
(* The client receives.  What its users do in that turn may include a call: *)
(* up, pending, used and deaf are left to them.                              *)

Quiet == UNCHANGED <<up, pending, used, deaf>>

\* A response; one that nobody waits for is dropped.
ClientAnswer(m) ==
  /\ down # <<>> /\ m = Head(down) /\ m.type = "response" /\ down' = Tail(down)
  /\ pending' = pending \ {m.id}
  /\ told' = IF m.id \in pending THEN [told EXCEPT ![m.id] = Append(@, m.kind)] ELSE told
  /\ UNCHANGED <<up, host, streams, listening, lastSeq, used, deaf, listens>>

\* A message of a stream the client has open; any other is dropped.
ClientStream(m) ==
  /\ down # <<>> /\ m = Head(down) /\ m.type = "stream" /\ down' = Tail(down)
  /\ IF m.id \notin DOMAIN streams THEN UNCHANGED <<streams, told>>
     ELSE LET inOrder == m.seq = streams[m.id]
          IN /\ told' = [told EXCEPT ![m.id] = Append(@, IF inOrder THEN m.kind ELSE "order")]
             /\ streams' = IF inOrder /\ m.kind = "chunk" THEN [streams EXCEPT ![m.id] = @ + 1]
                           ELSE [j \in DOMAIN streams \ {m.id} |-> streams[j]]
  /\ UNCHANGED <<host, listening, lastSeq, listens>>

\* What the stream's observer is called with, if it is called.
Observed(m) == m.id \in DOMAIN streams

ClientEvent(m) ==
  /\ down # <<>> /\ m = Head(down) /\ m.type = "event" /\ down' = Tail(down)
  /\ lastSeq' = [lastSeq EXCEPT ![m.name] = IF m.seq > @ THEN m.seq ELSE @]
  /\ UNCHANGED <<host, streams, listening, told, listens>>

Heard(m) == m.name \in listening /\ m.seq > lastSeq[m.name]
====
