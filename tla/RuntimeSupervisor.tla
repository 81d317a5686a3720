---- MODULE RuntimeSupervisor ----
(***************************************************************************)
(* RuntimeSupervisor (packages/runtime/src/supervisor.ts) and the port     *)
(* registry it leases from (ports.ts).                                     *)
(*                                                                         *)
(* A slot is a phase of a project.  Every start() makes a managed record   *)
(* and puts it into the slot; the record it replaces lives on in the       *)
(* closures of its own awaits, timers and exit handler.  What a record is  *)
(* doing is kept apart from it:                                            *)
(*   launch   launch() waits for a port, for the server to answer, or for  *)
(*            the preview proxy                                            *)
(*   exiting  onExit() waits for the proxy to close, or for the backoff    *)
(*   stops    stop() calls that wait for the process, or for the proxy     *)
(*                                                                         *)
(* Ports of the proxies (their own band), output, diagnostics, health      *)
(* counters, exit codes and the announced port are left out.  A spawn that *)
(* fails does so before anything else happens (its error event comes in    *)
(* the same turn of the event loop), and a teardown without a proxy        *)
(* awaits nothing.                                                         *)
(***************************************************************************)
EXTENDS Integers, FiniteSets, FiniteSetsExt

CONSTANTS
  Slot,
  Serve,        \* the slots whose phase is "serve"
  Port,         \* SERVE_BAND
  MaxRestarts,  \* maxAutoRestarts
  MaxStarts,    \* bound: starts of each slot
  MaxStops      \* bound: stop() calls after which the user makes no other

ASSUME ServeAssumption == Serve \subseteq Slot
ASSUME PortAssumption == Port \subseteq Nat \ {0}
ASSUME BoundAssumption == MaxRestarts \in Nat /\ MaxStarts \in [Slot -> Nat] /\ MaxStops \in Nat

VARIABLES
  current,   \* phases: the number of each slot's managed record, 0 for none
  starts,    \* start() calls so far, which number the records
  planning,  \* start() calls that await planPhase
  managed,   \* the records
  process,   \* the operating system's side of each record's child
  launch, probing,  \* launch(), and the port it probes
  exiting,
  stops,
  stopped,   \* stop() calls so far
  leased,    \* PortLeaseRegistry.leased
  \* History.
  answered,  \* records whose present child has answered
  starved,   \* records whose launch found no port
  raced      \* slots where code ran past an await it does not check again

activities == <<planning, launch, probing, exiting, stops>>
vars == <<current, starts, managed, process, activities, stopped, leased, answered, starved, raced>>

Managed == UNION {{s} \X (1..MaxStarts[s]) : s \in Slot}
States  == {"STOPPED", "STARTING", "RUNNING", "DEGRADED", "CRASHED", "RESTARTING", "STOPPING"}
Record  == [state : States,      \* info.state
            stopping : BOOLEAN,
            child : BOOLEAN,     \* child is set
            lease : Port \cup {0},
            proxy : BOOLEAN,
            timer : BOOLEAN,     \* timeoutTimer is armed
            was : BOOLEAN,       \* wasRunning
            recent : 0..MaxRestarts]  \* restartTimes within the window

\* A record before its start.
New == [state |-> "STOPPED", stopping |-> FALSE, child |-> FALSE, lease |-> 0, proxy |-> FALSE,
        timer |-> FALSE, was |-> FALSE, recent |-> 0]

SlotOf(m)  == m[1]
Current(s) == <<s, current[s]>>
IsCurrent(m) == m = Current(SlotOf(m))
InSlot(s)  == {m \in Managed : SlotOf(m) = s}

TypeOK ==
  /\ current \in [Slot -> Nat] /\ starts \in [Slot -> Nat]
  /\ planning \subseteq [slot : Slot, n : Nat, existing : Nat]
  /\ managed \in [Managed -> Record]
  /\ process \in [Managed -> {"none", "alive", "killed"}]
  /\ launch \in [Managed -> {"none", "lease", "ready", "proxy"}]
  /\ probing \in [Managed -> Port \cup {0}]
  /\ exiting \in [Managed -> {"none", "closing", "backoff"}]
  /\ stops \subseteq [id : Nat, m : Managed, at : {"killing", "closing"}, timedOut : SUBSET Managed]
  /\ stopped \in Nat
  /\ leased \subseteq [port : Port, owner : Slot]
  /\ answered \subseteq Managed /\ starved \subseteq Managed /\ raced \subseteq Slot

Init ==
  /\ current = [s \in Slot |-> 0] /\ starts = [s \in Slot |-> 0]
  /\ planning = {}
  /\ managed = [m \in Managed |-> New]
  /\ process = [m \in Managed |-> "none"]
  /\ launch = [m \in Managed |-> "none"] /\ probing = [m \in Managed |-> 0]
  /\ exiting = [m \in Managed |-> "none"]
  /\ stops = {} /\ stopped = 0
  /\ leased = {}
  /\ answered = {} /\ starved = {} /\ raced = {}

-----------------------------------------------------------------------------
(* Ports                                                                    *)

Unleased(after) == {p \in Port : p > after /\ \A l \in leased : l.port # p}

\* lease(): probes the first port after the given one that is not leased, and
\* throws when there is none, which ends launch().
SearchPort(m, after) ==
  IF Unleased(after) # {}
  THEN /\ launch' = [launch EXCEPT ![m] = "lease"]
       /\ probing' = [probing EXCEPT ![m] = Min(Unleased(after))]
       /\ UNCHANGED starved
  ELSE /\ launch' = [launch EXCEPT ![m] = "none"]
       /\ probing' = [probing EXCEPT ![m] = 0]
       /\ starved' = starved \cup {m}

\* The probed port is entered without another look at the registry.
Taken(m, p) ==
  {l \in leased : l.port # p} \cup {[port |-> p, owner |-> SlotOf(m)]}

\* Fault: teardown forgets the lease.
ReleasedFault(m) == leased

\* release(): of a port somebody else has taken since, nothing.
Released(m) ==
  leased \ {[port |-> managed[m].lease, owner |-> SlotOf(m)]}

-----------------------------------------------------------------------------
(* Helpers                                                                  *)

\* teardown(): what is left of a record.
TornDown(m) ==
  [managed[m] EXCEPT !.child = FALSE, !.lease = 0, !.proxy = FALSE, !.timer = FALSE]

\* The end of stop(); a record whose timer called it is CRASHED.
FinishStop(m, timedOut) ==
  LET ended == [managed EXCEPT ![m] = [TornDown(m) EXCEPT !.state = "STOPPED", !.stopping = TRUE]]
  IN /\ managed' = [k \in Managed |->
                      IF k \in timedOut THEN [ended[k] EXCEPT !.state = "CRASHED", !.timer = FALSE]
                      ELSE ended[k]]
     /\ leased' = Released(m)

\* Fault: an exit during the stop is taken for a crash.
BeginStopFault(m, timedOut) ==
  LET await(at) ==
        /\ managed' = [k \in Managed |->
             CASE k = m -> [managed[k] EXCEPT !.state = "STOPPING", !.timer = FALSE]
               [] k \in timedOut /\ k # m -> [managed[k] EXCEPT !.timer = FALSE]
               [] OTHER -> managed[k]]
        /\ stops' = stops \cup {[id |-> stopped + 1, m |-> m, at |-> at, timedOut |-> timedOut]}
        /\ UNCHANGED leased
  IN /\ stopped' = stopped + 1
     /\ IF managed[m].child /\ process[m] # "none"
        THEN /\ process' = [process EXCEPT ![m] = "killed"]
             /\ await("killing")
        ELSE /\ IF managed[m].proxy THEN await("closing")
                ELSE FinishStop(m, timedOut) /\ UNCHANGED stops
             /\ UNCHANGED process

\* stop(), up to its first await: it signals the process, waits for the proxy,
\* or is done at once.
BeginStop(m, timedOut) ==
  LET await(at) ==
        /\ managed' = [k \in Managed |->
             CASE k = m -> [managed[k] EXCEPT !.state = "STOPPING", !.stopping = TRUE, !.timer = FALSE]
               [] k \in timedOut /\ k # m -> [managed[k] EXCEPT !.timer = FALSE]
               [] OTHER -> managed[k]]
        /\ stops' = stops \cup {[id |-> stopped + 1, m |-> m, at |-> at, timedOut |-> timedOut]}
        /\ UNCHANGED leased
  IN /\ stopped' = stopped + 1
     /\ IF managed[m].child /\ process[m] # "none"
        THEN /\ process' = [process EXCEPT ![m] = "killed"]
             /\ await("killing")
        ELSE /\ IF managed[m].proxy THEN await("closing")
                ELSE FinishStop(m, timedOut) /\ UNCHANGED stops
             /\ UNCHANGED process

\* launch() from the spawn on, with the record and the leases it found.  A
\* phase other than "serve" runs at once; a server has yet to answer.  The
\* readiness loop ends at once when the record was stopped meanwhile, but the
\* child is there.
Spawn(m, record, leases) ==
  \/ /\ process' = [process EXCEPT ![m] = "alive"]
     /\ answered' = answered \ {m}
     /\ LET born == [record EXCEPT !.child = TRUE, !.timer = TRUE]
        IN IF SlotOf(m) \in Serve
           THEN /\ managed' = [managed EXCEPT ![m] = born]
                /\ launch' = [launch EXCEPT ![m] = IF record.state = "STARTING" THEN "ready" ELSE "none"]
           ELSE /\ managed' = [managed EXCEPT ![m] = [born EXCEPT !.state = "RUNNING", !.was = TRUE]]
                /\ UNCHANGED launch
     /\ leased' = leases
  \/ \* fail()
     /\ managed' = [managed EXCEPT ![m] =
          [record EXCEPT !.state = "CRASHED", !.child = FALSE, !.lease = 0, !.timer = FALSE]]
     /\ leased' = leases \ {[port |-> record.lease, owner |-> SlotOf(m)]}
     /\ launch' = [launch EXCEPT ![m] = "none"]
     /\ UNCHANGED <<process, answered>>

-----------------------------------------------------------------------------
(* Starting                                                                 *)

\* start(): the slot is looked at before planPhase is awaited, not after.
Start(s) ==
  /\ current[s] # 0 => managed[Current(s)].state \in {"STOPPED", "CRASHED"}
  /\ starts[s] < MaxStarts[s]   \* bound
  /\ starts' = [starts EXCEPT ![s] = @ + 1]
  /\ planning' = planning \cup {[slot |-> s, n |-> starts[s] + 1, existing |-> current[s]]}
  /\ UNCHANGED <<current, managed, process, launch, probing, exiting, stops, stopped, leased,
                 answered, starved, raced>>

PlanFails(p) ==
  /\ p \in planning
  /\ planning' = planning \ {p}
  /\ UNCHANGED <<current, starts, managed, process, launch, probing, exiting, stops, stopped,
                 leased, answered, starved, raced>>

Planned(p) ==
  LET m == <<p.slot, p.n>>
      record == [New EXCEPT !.state = "STARTING",
                   !.recent = IF p.existing = 0 THEN 0 ELSE managed[<<p.slot, p.existing>>].recent]
  IN /\ p \in planning
     /\ planning' = planning \ {p}
     /\ current' = [current EXCEPT ![p.slot] = p.n]
     /\ raced' = IF current[p.slot] = p.existing THEN raced ELSE raced \cup {p.slot}
     /\ IF p.slot \in Serve
        THEN /\ managed' = [managed EXCEPT ![m] = record]
             /\ SearchPort(m, 0)
             /\ UNCHANGED <<process, leased, answered>>
        ELSE Spawn(m, record, leased) /\ UNCHANGED <<probing, starved>>
     /\ UNCHANGED <<starts, exiting, stops, stopped>>

\* Somebody listens on the probed port.
PortBusy(m) ==
  /\ launch[m] = "lease"
  /\ SearchPort(m, probing[m])
  /\ UNCHANGED <<current, starts, planning, managed, process, exiting, stops, stopped, leased,
                 answered, raced>>

PortFree(m) ==
  LET p == probing[m]
  IN /\ launch[m] = "lease"
     /\ Spawn(m, [managed[m] EXCEPT !.lease = p], Taken(m, p))
     /\ probing' = [probing EXCEPT ![m] = 0]
     /\ raced' = raced \cup {l.owner : l \in {k \in leased : k.port = p}}
                       \cup IF managed[m].state = "STARTING" /\ \A l \in leased : l.port # p
                            THEN {} ELSE {SlotOf(m)}
     /\ UNCHANGED <<current, starts, planning, exiting, stops, stopped, starved>>

\* The readiness loop: the server answers, or the loop ends without an answer.
Answers(m) ==
  /\ launch[m] = "ready" /\ managed[m].state = "STARTING"
  /\ launch' = [launch EXCEPT ![m] = "proxy"]
  /\ UNCHANGED <<current, starts, planning, managed, process, probing, exiting, stops, stopped,
                 leased, answered, starved, raced>>

LoopEnds(m) ==
  /\ launch[m] = "ready"
  /\ launch' = [launch EXCEPT ![m] = "none"]
  /\ UNCHANGED <<current, starts, planning, managed, process, probing, exiting, stops, stopped,
                 leased, answered, starved, raced>>

\* The proxy listens: the phase is RUNNING, whatever happened meanwhile.
ProxyListens(m) ==
  /\ launch[m] = "proxy"
  /\ launch' = [launch EXCEPT ![m] = "none"]
  /\ managed' = [managed EXCEPT ![m] =
       [@ EXCEPT !.proxy = TRUE, !.was = TRUE, !.timer = FALSE, !.state = "RUNNING"]]
  /\ answered' = answered \cup {m}
  /\ raced' = IF managed[m].state = "STARTING" THEN raced ELSE raced \cup {SlotOf(m)}
  /\ UNCHANGED <<current, starts, planning, process, probing, exiting, stops, stopped, leased,
                 starved>>

\* start() rejects; the record stays STARTING until its timer fires.
ProxyFails(m) ==
  /\ launch[m] = "proxy"
  /\ launch' = [launch EXCEPT ![m] = "none"]
  /\ UNCHANGED <<current, starts, planning, managed, process, probing, exiting, stops, stopped,
                 leased, answered, starved, raced>>

\* The health loop, after enough failures or after a success.
HealthChanges(m) ==
  /\ SlotOf(m) \in Serve
  /\ \/ managed[m].state = "RUNNING" /\ managed' = [managed EXCEPT ![m].state = "DEGRADED"]
     \/ managed[m].state = "DEGRADED" /\ managed' = [managed EXCEPT ![m].state = "RUNNING"]
  /\ UNCHANGED <<current, starts, process, activities, stopped, leased, answered, starved, raced>>

-----------------------------------------------------------------------------
(* Stopping                                                                 *)

Stop(s) ==
  /\ current[s] # 0 /\ managed[Current(s)].state # "STOPPED"
  /\ stopped < MaxStops   \* bound
  /\ BeginStop(Current(s), {})
  /\ UNCHANGED <<current, starts, planning, launch, probing, exiting, answered, starved, raced>>

\* The phase's timeout stops whatever is in the slot and marks its own record.
TimerFires(m) ==
  LET c == Current(SlotOf(m))
      late == \/ managed[m].state = "STARTING"
              \/ SlotOf(m) \notin Serve /\ managed[m].state = "RUNNING"
  IN /\ managed[m].timer
     /\ \/ /\ ~late
           /\ managed' = [managed EXCEPT ![m].timer = FALSE]
           /\ UNCHANGED <<process, stops, stopped, leased>>
        \/ /\ late /\ managed[c].state = "STOPPED"
           /\ managed' = [managed EXCEPT ![m] = [@ EXCEPT !.timer = FALSE, !.state = "CRASHED"]]
           /\ UNCHANGED <<process, stops, stopped, leased>>
        \/ /\ late /\ managed[c].state # "STOPPED"
           /\ BeginStop(c, {m})
     /\ UNCHANGED <<current, starts, planning, launch, probing, exiting, answered, starved, raced>>

\* Fault: the grace has no end.
KillReturnsFault(st) ==
  /\ st \in stops /\ st.at = "killing" /\ process[st.m] = "none"
  /\ IF managed[st.m].proxy
     THEN /\ stops' = (stops \ {st}) \cup {[st EXCEPT !.at = "closing"]}
          /\ UNCHANGED <<managed, leased>>
     ELSE /\ stops' = stops \ {st}
          /\ FinishStop(st.m, st.timedOut)
  /\ UNCHANGED <<current, starts, planning, process, launch, probing, exiting, stopped, answered,
                 starved, raced>>

\* killTree returns: the process has exited, or SIGTERM and SIGKILL were sent
\* and their grace is over.
KillReturns(st) ==
  /\ st \in stops /\ st.at = "killing"
  /\ IF managed[st.m].proxy
     THEN /\ stops' = (stops \ {st}) \cup {[st EXCEPT !.at = "closing"]}
          /\ UNCHANGED <<managed, leased>>
     ELSE /\ stops' = stops \ {st}
          /\ FinishStop(st.m, st.timedOut)
  /\ UNCHANGED <<current, starts, planning, process, launch, probing, exiting, stopped, answered,
                 starved, raced>>

\* The proxy's close calls back in the order of the calls.
CloseReturns(st) ==
  /\ st \in stops /\ st.at = "closing" /\ exiting[st.m] # "closing"
  /\ stops' = stops \ {st}
  /\ FinishStop(st.m, st.timedOut)
  /\ UNCHANGED <<current, starts, planning, process, launch, probing, exiting, stopped, answered,
                 starved, raced>>

-----------------------------------------------------------------------------
(* Exits                                                                    *)

\* Fault: one restart too many.
ExitSettlesFault(m) ==
  /\ leased' = Released(m)
  /\ IF SlotOf(m) \notin Serve
     THEN /\ \E end \in {"STOPPED", "CRASHED"} :
               managed' = [managed EXCEPT ![m] = [TornDown(m) EXCEPT !.state = end]]
          /\ exiting' = [exiting EXCEPT ![m] = "none"]
     ELSE \E kept \in 0..managed[m].recent :
            IF managed[m].was /\ kept <= MaxRestarts
            THEN /\ managed' = [managed EXCEPT ![m] =
                      [TornDown(m) EXCEPT !.state = "RESTARTING", !.recent = kept + 1]]
                 /\ exiting' = [exiting EXCEPT ![m] = "backoff"]
            ELSE /\ managed' = [managed EXCEPT ![m] =
                      [TornDown(m) EXCEPT !.state = "CRASHED", !.recent = kept]]
                 /\ exiting' = [exiting EXCEPT ![m] = "none"]

\* onExit after the teardown.  Restarts older than the window are forgotten.
ExitSettles(m) ==
  /\ leased' = Released(m)
  /\ IF SlotOf(m) \notin Serve
     THEN /\ \E end \in {"STOPPED", "CRASHED"} :
               managed' = [managed EXCEPT ![m] = [TornDown(m) EXCEPT !.state = end]]
          /\ exiting' = [exiting EXCEPT ![m] = "none"]
     ELSE \E kept \in 0..managed[m].recent :
            IF managed[m].was /\ kept < MaxRestarts
            THEN /\ managed' = [managed EXCEPT ![m] =
                      [TornDown(m) EXCEPT !.state = "RESTARTING", !.recent = kept + 1]]
                 /\ exiting' = [exiting EXCEPT ![m] = "backoff"]
            ELSE /\ managed' = [managed EXCEPT ![m] =
                      [TornDown(m) EXCEPT !.state = "CRASHED", !.recent = kept]]
                 /\ exiting' = [exiting EXCEPT ![m] = "none"]

\* The process exits by itself or because it was killed; stop() reports the
\* end of one it has killed.
Exits(m) ==
  /\ process[m] # "none"
  /\ process' = [process EXCEPT ![m] = "none"]
  /\ \/ managed[m].stopping /\ UNCHANGED <<managed, exiting, leased>>
     \/ /\ ~managed[m].stopping /\ managed[m].proxy
        /\ managed' = [managed EXCEPT ![m].timer = FALSE]
        /\ exiting' = [exiting EXCEPT ![m] = "closing"]
        /\ UNCHANGED leased
     \/ ~managed[m].stopping /\ ~managed[m].proxy /\ ExitSettles(m)
  /\ UNCHANGED <<current, starts, planning, launch, probing, stops, stopped, answered, starved,
                 raced>>

ProxyCloses(m) ==
  /\ exiting[m] = "closing"
  /\ ExitSettles(m)
  /\ UNCHANGED <<current, starts, planning, process, launch, probing, stops, stopped, answered,
                 starved, raced>>

\* Fault: stop() is not noticed during the backoff.
BackoffEndsFault(m) ==
  /\ exiting[m] = "backoff"
  /\ exiting' = [exiting EXCEPT ![m] = "none"]
  /\ IF ~IsCurrent(m)
     THEN UNCHANGED <<managed, launch, probing, starved>>
     ELSE /\ managed' = [managed EXCEPT ![m] = [@ EXCEPT !.state = "STARTING", !.was = FALSE]]
          /\ SearchPort(m, 0)
  /\ UNCHANGED <<current, starts, planning, process, stops, stopped, leased, answered, raced>>

\* Fault: the restarted process counts as one that has answered.
BackoffUnearned(m) ==
  /\ exiting[m] = "backoff"
  /\ exiting' = [exiting EXCEPT ![m] = "none"]
  /\ IF managed[m].stopping \/ ~IsCurrent(m)
     THEN UNCHANGED <<managed, launch, probing, starved>>
     ELSE /\ managed' = [managed EXCEPT ![m] = [@ EXCEPT !.state = "STARTING"]]
          /\ SearchPort(m, 0)
  /\ UNCHANGED <<current, starts, planning, process, stops, stopped, leased, answered, raced>>

\* The backoff is over: a stopped or replaced record is left alone.
BackoffEnds(m) ==
  /\ exiting[m] = "backoff"
  /\ exiting' = [exiting EXCEPT ![m] = "none"]
  /\ IF managed[m].stopping \/ ~IsCurrent(m)
     THEN UNCHANGED <<managed, launch, probing, starved>>
     ELSE /\ managed' = [managed EXCEPT ![m] = [@ EXCEPT !.state = "STARTING", !.was = FALSE]]
          /\ SearchPort(m, 0)
  /\ UNCHANGED <<current, starts, planning, process, stops, stopped, leased, answered, raced>>

-----------------------------------------------------------------------------

Launching(m) == PortBusy(m) \/ PortFree(m)
Readying(m)  == Answers(m) \/ LoopEnds(m)
Proxying(m)  == ProxyListens(m) \/ ProxyFails(m)

Next ==
  \/ \E s \in Slot : Start(s) \/ Stop(s)
  \/ \E p \in planning : PlanFails(p) \/ Planned(p)
  \/ \E m \in Managed :
       \/ Launching(m) \/ Readying(m) \/ Proxying(m)
       \/ HealthChanges(m) \/ TimerFires(m)
       \/ Exits(m) \/ ProxyCloses(m) \/ BackoffEnds(m)
  \/ \E st \in stops : KillReturns(st) \/ CloseReturns(st)

Spec == Init /\ [][Next]_vars

\* planPhase, the probes, the proxy's listen and close, the kill's grace, the
\* backoff and the phase's timer end in time.  Nothing is assumed of the user
\* nor of the processes.
Fairness ==
  /\ \A s \in Slot : \A n \in 1..MaxStarts[s] :
       WF_vars(\E p \in planning : p.slot = s /\ p.n = n /\ (PlanFails(p) \/ Planned(p)))
  /\ \A m \in Managed : /\ WF_vars(Launching(m))
                        /\ WF_vars(Proxying(m))
                        /\ WF_vars(TimerFires(m))
                        /\ WF_vars(ProxyCloses(m))
                        /\ WF_vars(BackoffEnds(m))
                        /\ WF_vars(\E st \in stops : st.m = m /\ (KillReturns(st) \/ CloseReturns(st)))

FairSpec == Spec /\ Fairness

-----------------------------------------------------------------------------
(* Properties                                                               *)
(* A slot is raced when start() was overtaken by another start(), when a    *)
(* launch went on after its record was stopped or its process had exited,   *)
(* or when two launches found the same port free: the code does not look    *)
(* again after these awaits.  Nothing else can part a process from its      *)
(* record.                                                                  *)

\* A live process is the child of the record in its slot, which says so; and a
\* record that says its phase runs has a process, or is about to find out.
Supervised ==
  \A s \in Slot \ raced : \A m \in InSlot(s) :
    /\ process[m] = "alive" =>
         IsCurrent(m) /\ managed[m].child /\ managed[m].state \in {"STARTING", "RUNNING", "DEGRADED"}
    /\ managed[m].state \in {"RUNNING", "DEGRADED"} =>
         process[m] = "alive" \/ exiting[m] = "closing"

\* The registry holds the ports the records hold, and none for a slot at rest:
\* no port is lost by any way a phase can end, and none is handed out twice.
LeasesAreHeld ==
  \A s \in Slot \ raced :
    /\ {l.port : l \in {k \in leased : k.owner = s}} =
         {managed[m].lease : m \in InSlot(s)} \ {0}
    /\ \A m \in InSlot(s) : managed[m].state \in {"STOPPED", "CRASHED", "RESTARTING"} =>
         managed[m].lease = 0

\* A start that stop() has ended stays ended: no exit, backoff, timer or probe
\* of its readiness brings it back.  Excepted are raced slots: a launch that was
\* waiting for its port spawns after the stop.
StopIsFinal ==
  [][\A m \in Managed :
       managed[m].stopping /\ managed[m].state = "STOPPED" /\ SlotOf(m) \notin raced' =>
         managed'[m].state \in {"STOPPED", "CRASHED"} /\ process'[m] # "alive"]_vars

\* Only a process that had answered is restarted: one that dies before it is
\* ready is not started over and over.
RestartsAreEarned ==
  [][\A m \in Managed : exiting'[m] = "backoff" /\ exiting[m] # "backoff" => m \in answered]_vars

\* No phase stays STARTING, STOPPING or RESTARTING: the user can always get it
\* going again.  The exception is a launch that found no port in its band.
Passes(m, state) ==
  IsCurrent(m) /\ managed[m].state = state /\ m \notin starved
    ~> ~IsCurrent(m) \/ managed[m].state # state \/ m \in starved

TransientStatesPass ==
  \A m \in Managed : /\ Passes(m, "STARTING")
                     /\ Passes(m, "STOPPING")
                     /\ Passes(m, "RESTARTING")
====
