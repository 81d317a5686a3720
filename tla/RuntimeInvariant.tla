---- MODULE RuntimeInvariant ----
(***************************************************************************)
(* The inductive invariant of RuntimeSupervisor: how starts number the     *)
(* records, and what the state of a record says of its process, its lease, *)
(* its proxy and timer, and of the code that still works on it.  TLC       *)
(* checks it on small instances, RuntimeProofs proves it.                  *)
(***************************************************************************)
EXTENDS RuntimeSupervisor

AtRest == {"STOPPED", "CRASHED"}

\* start() gives every record a number of its own.
Numbered ==
  /\ \A s \in Slot :
       /\ starts[s] \in 0..MaxStarts[s] /\ current[s] \in 0..starts[s]
       /\ current[s] = 0 => \A m \in InSlot(s) : launch[m] = "none" /\ ~managed[m].timer
  /\ \A p \in planning :
       /\ p.n \in 1..starts[p.slot] /\ p.n # current[p.slot]
       /\ p.existing \in 0..starts[p.slot]
       /\ \A q \in planning : q.slot = p.slot => q.existing # p.n /\ (q.n = p.n => q = p)

\* What code can be at work on a record, and what it has done before.
Working ==
  /\ \A m \in Managed :
       /\ SlotOf(m) \notin Serve =>
            launch[m] = "none" /\ exiting[m] # "backoff" /\ ~managed[m].proxy
       /\ SlotOf(m) \in Serve /\ managed[m].was => m \in answered /\ launch[m] # "lease"
       /\ launch[m] = "lease" => probing[m] # 0
  /\ \A st \in stops : st.id <= stopped /\ st.timedOut \subseteq InSlot(SlotOf(st.m))

\* A record that the code has left.
Left(m) ==
  /\ ~managed[m].child /\ managed[m].lease = 0 /\ ~managed[m].proxy /\ ~managed[m].timer
  /\ process[m] # "alive" /\ exiting[m] # "closing"

\* What the states say.
Says(m) ==
  CASE managed[m].state \in AtRest -> Left(m) /\ (exiting[m] = "backoff" => managed[m].stopping)
    [] managed[m].state = "STARTING" ->
         /\ ~managed[m].stopping /\ ~managed[m].proxy /\ exiting[m] = "none"
         /\ launch[m] = "lease" => Left(m)
         /\ launch[m] \in {"ready", "proxy"} => process[m] = "alive"
         /\ process[m] = "alive" => managed[m].child
         /\ process[m] # "alive" => Left(m)
    [] managed[m].state \in {"RUNNING", "DEGRADED"} ->
         /\ managed[m].child /\ ~managed[m].stopping /\ launch[m] # "lease"
         /\ exiting[m] \in {"none", "closing"}
         /\ exiting[m] = "closing" <=> process[m] # "alive"
    [] managed[m].state = "STOPPING" ->
         managed[m].stopping /\ process[m] # "alive" /\ launch[m] # "lease" /\ exiting[m] # "backoff"
    [] managed[m].state = "RESTARTING" ->
         /\ Left(m) /\ launch[m] # "lease"
         /\ ~managed[m].stopping => exiting[m] = "backoff"

Sound(m) ==
  /\ Says(m)
  /\ process[m] = "killed" => managed[m].stopping
  /\ ~IsCurrent(m) => managed[m].state \in AtRest
  /\ exiting[m] = "closing" => managed[m].proxy /\ process[m] = "none"
  /\ m[2] > starts[SlotOf(m)] => ~managed[m].stopping

\* A start that awaits its plan has not touched its record, and if nobody has
\* overtaken it the record it will replace is still at rest.
Awaits(p) ==
  /\ ~managed[<<p.slot, p.n>>].stopping
  /\ p.existing = current[p.slot] /\ p.existing # 0 => managed[Current(p.slot)].state \in AtRest

Ends(st) ==
  /\ managed[st.m].stopping /\ st.timedOut \subseteq {st.m}
  /\ st.at = "killing" => exiting[st.m] # "closing"

\* The registry holds the leases of the slot's records.
Registered(s) ==
  \A p \in Port :
    [port |-> p, owner |-> s] \in leased <=> \E m \in InSlot(s) : managed[m].lease = p

\* A slot where nothing ran past an await it does not check again.
Orderly(s) ==
  /\ \A m \in InSlot(s) : Sound(m)
  /\ \A p \in planning : p.slot = s => Awaits(p)
  /\ \A st \in stops : SlotOf(st.m) = s => Ends(st)
  /\ Registered(s)

BaseInv == TypeOK /\ Numbered /\ Working

SupervisorInv == BaseInv /\ \A s \in Slot \ raced : Orderly(s)
====
