---- MODULE RuntimeProofs ----
(***************************************************************************)
(* Proofs about RuntimeSupervisor: SupervisorInv is inductive, and with it *)
(* processes are supervised, ports are held by whom the registry says,     *)
(* stops are final and restarts are earned, for any slots, ports, restarts *)
(* and starts.                                                             *)
(*                                                                         *)
(* First what the records, types and numbers need (BaseInv, inductive by   *)
(* itself), then what a step does to a slot where nothing has raced.       *)
(***************************************************************************)
EXTENDS RuntimeInvariant, WellFoundedInduction, TLAPS

-----------------------------------------------------------------------------
(* Records and ports                                                        *)

\* A record is a slot and a number.
LEMMA Numbers ==
  /\ \A m \in Managed : /\ SlotOf(m) \in Slot /\ m[2] \in 1..MaxStarts[SlotOf(m)]
                        /\ m = <<SlotOf(m), m[2]>> /\ m \in InSlot(SlotOf(m))
  /\ \A s \in Slot : \A n \in 1..MaxStarts[s] : /\ <<s, n>> \in Managed /\ SlotOf(<<s, n>>) = s
                                               /\ <<s, n>> \in InSlot(s)
  /\ \A s \in Slot : \A m \in InSlot(s) : m \in Managed /\ SlotOf(m) = s
  BY DEF Managed, SlotOf, InSlot

\* A set of naturals that is not empty has a least element.
LEMMA MinIsIn ==
  ASSUME NEW S \in SUBSET Nat, S # {}
  PROVE  Min(S) \in S
  <1>1. \E x \in S : \A y \in S : ~(<<y, x>> \in OpToRel(<, Nat))
    BY NatLessThanWellFounded, WFMin
  <1>2. PICK x \in S : \A y \in S : ~(<<y, x>> \in OpToRel(<, Nat))
    BY <1>1
  <1>3. \A y \in S : x <= y
    <2> SUFFICES ASSUME NEW y \in S PROVE x <= y
      OBVIOUS
    <2>1. ~(y < x)
      BY <1>2 DEF OpToRel
    <2> QED BY <2>1
  <1> QED BY <1>2, <1>3 DEF Min

\* What lease() does: it goes on to a port, or ends the launch.
LEMMA Searches ==
  ASSUME TypeOK, NEW m \in Managed, NEW after, SearchPort(m, after)
  PROVE  /\ launch' \in [Managed -> {"none", "lease", "ready", "proxy"}]
         /\ probing' \in [Managed -> Port \cup {0}]
         /\ starved' \subseteq Managed
         /\ launch'[m] \in {"none", "lease"}
         /\ launch'[m] = "lease" => probing'[m] # 0
         /\ \A k \in Managed \ {m} : launch'[k] = launch[k] /\ probing'[k] = probing[k]
  <1>1. CASE Unleased(after) # {}
    <2>1. Min(Unleased(after)) \in Port /\ Min(Unleased(after)) # 0
      BY <1>1, MinIsIn, PortAssumption DEF Unleased
    <2> QED BY <1>1, <2>1 DEF SearchPort, TypeOK
  <1>2. CASE Unleased(after) = {}
    BY <1>2 DEF SearchPort, TypeOK
  <1> QED BY <1>1, <1>2

LEMMA Torn ==
  ASSUME TypeOK, NEW m \in Managed
  PROVE  /\ TornDown(m) \in Record
         /\ TornDown(m).state = managed[m].state /\ TornDown(m).stopping = managed[m].stopping
         /\ ~TornDown(m).child /\ TornDown(m).lease = 0 /\ ~TornDown(m).proxy /\ ~TornDown(m).timer
         /\ TornDown(m).was = managed[m].was /\ TornDown(m).recent = managed[m].recent
  <1>1. managed[m] \in Record
    BY DEF TypeOK
  <1>2. TornDown(m) \in Record
    BY <1>1 DEF TornDown, Record
  <1>3. TornDown(m).child = FALSE /\ TornDown(m).lease = 0 /\ TornDown(m).proxy = FALSE /\ TornDown(m).timer = FALSE
    BY <1>1 DEF TornDown, Record
  <1>4. /\ TornDown(m).state = managed[m].state /\ TornDown(m).stopping = managed[m].stopping
        /\ TornDown(m).was = managed[m].was /\ TornDown(m).recent = managed[m].recent
    BY <1>1 DEF TornDown, Record
  <1> QED BY <1>2, <1>3, <1>4

\* What is left of the records after stop().
LEMMA Finishes ==
  ASSUME TypeOK, NEW m \in Managed, NEW T \in SUBSET Managed, FinishStop(m, T)
  PROVE  /\ managed' \in [Managed -> Record]
         /\ leased' = Released(m) /\ leased' \subseteq leased
         /\ \A k \in Managed : /\ managed'[k].was = managed[k].was
                               /\ managed'[k].timer => managed[k].timer
                               /\ managed'[k].proxy => managed[k].proxy
         /\ managed'[m].state \in AtRest /\ managed'[m].stopping
         /\ ~managed'[m].child /\ managed'[m].lease = 0 /\ ~managed'[m].proxy /\ ~managed'[m].timer
         /\ \A k \in Managed \ (T \cup {m}) : managed'[k] = managed[k]
  <1> DEFINE Stopped == [TornDown(m) EXCEPT !.state = "STOPPED", !.stopping = TRUE]
             ended == [managed EXCEPT ![m] = Stopped]
  <1>1. /\ Stopped \in Record /\ Stopped.state = "STOPPED" /\ Stopped.stopping = TRUE
        /\ Stopped.child = FALSE /\ Stopped.lease = 0 /\ Stopped.proxy = FALSE /\ Stopped.timer = FALSE
        /\ Stopped.was = managed[m].was
    BY Torn DEF Record, States
  <1>2. ended \in [Managed -> Record] /\ ended[m] = Stopped /\ \A k \in Managed \ {m} : ended[k] = managed[k]
    BY <1>1 DEF TypeOK
  <1> HIDE DEF Stopped, ended
  <1>3. managed' = [k \in Managed |->
                      IF k \in T THEN [ended[k] EXCEPT !.state = "CRASHED", !.timer = FALSE] ELSE ended[k]]
    BY DEF FinishStop, ended, Stopped
  <1>4. ASSUME NEW k \in Managed
        PROVE  /\ managed'[k] \in Record
               /\ managed'[k].was = ended[k].was /\ managed'[k].child = ended[k].child
               /\ managed'[k].lease = ended[k].lease /\ managed'[k].proxy = ended[k].proxy
               /\ managed'[k].stopping = ended[k].stopping
               /\ managed'[k].timer \in {FALSE, ended[k].timer}
               /\ managed'[k].state \in {"CRASHED", ended[k].state}
               /\ k \notin T => managed'[k] = ended[k]
    <2>1. ended[k] \in Record
      BY <1>2
    <2> QED BY <1>3, <2>1 DEF Record, States
  <1>5. managed' \in [Managed -> Record]
    BY <1>3, <1>4
  <1>6. leased' = Released(m) /\ leased' \subseteq leased
    BY DEF FinishStop, Released
  <1>7. ASSUME NEW k \in Managed
        PROVE  /\ managed'[k].was = managed[k].was
               /\ managed'[k].timer => managed[k].timer
               /\ managed'[k].proxy => managed[k].proxy
    <2>1. CASE k = m
      BY <1>1, <1>2, <1>4, <2>1
    <2>2. CASE k # m
      <3>1. ended[k] = managed[k] /\ managed[k] \in Record
        BY <1>2, <2>2 DEF TypeOK
      <3> QED BY <1>4, <3>1
    <2> QED BY <2>1, <2>2
  <1>8. /\ managed'[m].state \in AtRest /\ managed'[m].stopping
        /\ ~managed'[m].child /\ managed'[m].lease = 0 /\ ~managed'[m].proxy /\ ~managed'[m].timer
    BY <1>1, <1>2, <1>4 DEF AtRest
  <1> QED BY <1>2, <1>4, <1>5, <1>6, <1>7, <1>8

\* stop() up to its first await: it is done, or it waits for a process it has
\* signalled or for the proxy.
Waits(m, T, at) ==
  /\ stops' = stops \cup {[id |-> stopped + 1, m |-> m, at |-> at, timedOut |-> T]}
  /\ leased' = leased
  /\ managed' \in [Managed -> Record]
  /\ \A k \in Managed : /\ managed'[k].was = managed[k].was
                        /\ managed'[k].proxy = managed[k].proxy
                        /\ managed'[k].lease = managed[k].lease
                        /\ managed'[k].timer => managed[k].timer
  /\ managed'[m].state = "STOPPING" /\ managed'[m].stopping
  /\ \A k \in Managed \ (T \cup {m}) : managed'[k] = managed[k]

LEMMA Begins ==
  ASSUME TypeOK, NEW m \in Managed, NEW T \in SUBSET Managed, BeginStop(m, T)
  PROVE  /\ stopped' = stopped + 1
         /\ \/ /\ managed[m].child /\ process[m] # "none" /\ Waits(m, T, "killing")
               /\ process' = [process EXCEPT ![m] = "killed"]
            \/ /\ ~(managed[m].child /\ process[m] # "none") /\ managed[m].proxy
               /\ Waits(m, T, "closing") /\ process' = process
            \/ /\ ~(managed[m].child /\ process[m] # "none") /\ ~managed[m].proxy
               /\ FinishStop(m, T) /\ stops' = stops /\ process' = process
  <1> DEFINE waiting == [k \in Managed |->
               CASE k = m -> [managed[k] EXCEPT !.state = "STOPPING", !.stopping = TRUE, !.timer = FALSE]
                 [] k \in T /\ k # m -> [managed[k] EXCEPT !.timer = FALSE]
                 [] OTHER -> managed[k]]
  <1>1. ASSUME NEW at \in {"killing", "closing"}, managed' = waiting, leased' = leased,
               stops' = stops \cup {[id |-> stopped + 1, m |-> m, at |-> at, timedOut |-> T]}
        PROVE  Waits(m, T, at)
    <2>1. ASSUME NEW k \in Managed
          PROVE  /\ waiting[k] \in Record
                 /\ waiting[k].was = managed[k].was /\ waiting[k].proxy = managed[k].proxy
                 /\ waiting[k].lease = managed[k].lease
                 /\ waiting[k].timer \in {FALSE, managed[k].timer}
                 /\ k = m => waiting[k].state = "STOPPING" /\ waiting[k].stopping = TRUE
                 /\ k \notin T \cup {m} => waiting[k] = managed[k]
      <3>1. managed[k] \in Record
        BY DEF TypeOK
      <3>2. CASE k = m
        <4>1. waiting[k] = [managed[k] EXCEPT !.state = "STOPPING", !.stopping = TRUE, !.timer = FALSE]
          BY <3>2
        <4> QED BY <3>1, <3>2, <4>1 DEF Record, States
      <3>3. CASE k # m /\ k \in T
        <4>1. waiting[k] = [managed[k] EXCEPT !.timer = FALSE]
          BY <3>3
        <4> QED BY <3>1, <3>3, <4>1 DEF Record
      <3>4. CASE k # m /\ k \notin T
        BY <3>1, <3>4
      <3> QED BY <3>2, <3>3, <3>4
    <2>2. waiting \in [Managed -> Record]
      BY <2>1
    <2> HIDE DEF waiting
    <2> QED BY <1>1, <2>1, <2>2 DEF Waits
  <1> QED BY <1>1 DEF BeginStop

LaunchStates == {"none", "lease", "ready", "proxy"}

\* launch() from the spawn on: the process runs, or the launch has failed.
LEMMA Spawns ==
  ASSUME TypeOK, NEW m \in Managed, NEW record \in Record,
         NEW leases \in SUBSET [port : Port, owner : Slot], Spawn(m, record, leases),
         SlotOf(m) \notin Serve => launch[m] = "none"
  PROVE  /\ managed' \in [Managed -> Record]
         /\ process' \in [Managed -> {"none", "alive", "killed"}]
         /\ launch' \in [Managed -> LaunchStates]
         /\ leased' \subseteq leases /\ answered' \subseteq Managed /\ answered \subseteq answered' \cup {m}
         /\ \A k \in Managed \ {m} :
              managed'[k] = managed[k] /\ process'[k] = process[k] /\ launch'[k] = launch[k]
         /\ launch'[m] \in {"ready", "none"} /\ (SlotOf(m) \notin Serve => launch'[m] = "none")
         /\ SlotOf(m) \in Serve => managed'[m].was = record.was
         /\ managed'[m].proxy = record.proxy
  <1> DEFINE born == [record EXCEPT !.child = TRUE, !.timer = TRUE]
             runs == [born EXCEPT !.state = "RUNNING", !.was = TRUE]
             failed == [record EXCEPT !.state = "CRASHED", !.child = FALSE, !.lease = 0, !.timer = FALSE]
  <1>1. /\ born \in Record /\ born.was = record.was /\ born.proxy = record.proxy
        /\ runs \in Record /\ runs.proxy = record.proxy
        /\ failed \in Record /\ failed.was = record.was /\ failed.proxy = record.proxy
    BY DEF Record, States
  <1> HIDE DEF born, runs, failed
  <1>2. CASE /\ process' = [process EXCEPT ![m] = "alive"]
             /\ answered' = answered \ {m}
             /\ IF SlotOf(m) \in Serve
                THEN /\ managed' = [managed EXCEPT ![m] = born]
                     /\ launch' = [launch EXCEPT ![m] = IF record.state = "STARTING" THEN "ready" ELSE "none"]
                ELSE managed' = [managed EXCEPT ![m] = runs] /\ UNCHANGED launch
             /\ leased' = leases
    BY <1>1, <1>2 DEF TypeOK, LaunchStates
  <1>3. CASE /\ managed' = [managed EXCEPT ![m] = failed]
             /\ leased' = leases \ {[port |-> record.lease, owner |-> SlotOf(m)]}
             /\ launch' = [launch EXCEPT ![m] = "none"]
             /\ UNCHANGED <<process, answered>>
    BY <1>1, <1>3 DEF TypeOK, LaunchStates
  <1> QED BY <1>2, <1>3 DEF Spawn, born, runs, failed

-----------------------------------------------------------------------------
(* BaseInv is inductive                                                     *)

LEMMA BaseStarts == Init => BaseInv
  <1> SUFFICES ASSUME Init PROVE BaseInv
    OBVIOUS
  <1>1. New \in Record /\ New.timer = FALSE /\ New.was = FALSE /\ New.proxy = FALSE
    BY BoundAssumption DEF New, Record, States
  <1>2. TypeOK
    BY <1>1 DEF Init, TypeOK
  <1>3. Numbered
    BY <1>1, BoundAssumption, Numbers DEF Init, Numbered
  <1>4. Working
    BY <1>1 DEF Init, Working
  <1> QED BY <1>2, <1>3, <1>4 DEF BaseInv

\* Steps that leave the numbers, the stops and what they are about alone.
LEMMA NumberedKept ==
  ASSUME BaseInv, UNCHANGED <<current, starts>>, planning' \subseteq planning,
         \A m \in Managed : current[SlotOf(m)] = 0 =>
           (launch'[m] = "none" \/ launch'[m] = launch[m]) /\ (managed'[m].timer => managed[m].timer)
  PROVE  Numbered'
  <1>1. \A s \in Slot : current[s] = 0 => \A m \in InSlot(s) : launch'[m] = "none" /\ ~managed'[m].timer
    BY Numbers DEF BaseInv, Numbered
  <1> QED BY <1>1, Numbers DEF BaseInv, Numbered, InSlot

\* ... and for the records: those that keep what Working says of them.
LEMMA WorkingKept ==
  ASSUME BaseInv, NEW m \in Managed,
         \A k \in Managed \ {m} : /\ managed'[k].was = managed[k].was
                                  /\ managed'[k].proxy => managed[k].proxy
                                  /\ launch'[k] = launch[k] /\ probing'[k] = probing[k]
                                  /\ exiting'[k] = exiting[k],
         answered \subseteq answered' \cup {m},
         SlotOf(m) \notin Serve => launch'[m] = "none" /\ exiting'[m] # "backoff" /\ ~managed'[m].proxy,
         SlotOf(m) \in Serve /\ managed'[m].was => m \in answered' /\ launch'[m] # "lease",
         launch'[m] = "lease" => probing'[m] # 0,
         \A st \in stops' : st.id <= stopped' /\ st.timedOut \subseteq InSlot(SlotOf(st.m))
  PROVE  Working'
  <1>1. ASSUME NEW k \in Managed
        PROVE  /\ SlotOf(k) \notin Serve =>
                    launch'[k] = "none" /\ exiting'[k] # "backoff" /\ ~managed'[k].proxy
               /\ SlotOf(k) \in Serve /\ managed'[k].was => k \in answered' /\ launch'[k] # "lease"
               /\ launch'[k] = "lease" => probing'[k] # 0
    BY DEF BaseInv, Working
  <1> QED BY <1>1 DEF Working, InSlot

LEMMA StartBase ==
  ASSUME BaseInv, NEW s \in Slot, Start(s)
  PROVE  BaseInv'
  <1>1. TypeOK'
    BY DEF BaseInv, TypeOK, Start
  <1>2. Numbered'
    <2>1. starts[s] + 1 \in 0..MaxStarts[s] /\ starts' = [starts EXCEPT ![s] = starts[s] + 1]
      <3>1. starts[s] \in Nat /\ MaxStarts[s] \in Nat
        BY BoundAssumption DEF BaseInv, TypeOK
      <3>2. starts[s] < MaxStarts[s] /\ starts' = [starts EXCEPT ![s] = starts[s] + 1]
        BY DEF Start
      <3> QED BY <3>1, <3>2
    <2> DEFINE new == [slot |-> s, n |-> starts[s] + 1, existing |-> current[s]]
    <2>2. /\ planning' = planning \cup {new} /\ new.existing # new.n
          /\ \A q \in planning : q.slot = s => q.n # new.n /\ q.existing # new.n /\ q.n # new.existing
      BY DEF BaseInv, TypeOK, Numbered, Start
    <2>3. \A z \in Slot : starts[z] \in Nat /\ starts'[z] \in Nat /\ starts[z] <= starts'[z]
      BY <2>1 DEF BaseInv, TypeOK
    <2>4. ASSUME NEW z \in Slot
          PROVE  /\ starts'[z] \in 0..MaxStarts[z] /\ current'[z] \in 0..starts'[z]
                 /\ current'[z] = 0 => \A m \in InSlot(z)' : launch'[m] = "none" /\ ~managed'[m].timer
      <3>1. starts'[z] \in 0..MaxStarts[z] /\ current[z] \in 0..starts[z]
        BY <2>1, BoundAssumption DEF BaseInv, TypeOK, Numbered
      <3> QED BY <3>1, <2>3 DEF BaseInv, TypeOK, Numbered, Start, InSlot
    <2>5. ASSUME NEW q \in planning'
          PROVE  /\ q.n \in 1..starts'[q.slot] /\ q.n # current'[q.slot]
                 /\ q.existing \in 0..starts'[q.slot]
                 /\ \A r \in planning' : r.slot = q.slot => r.existing # q.n /\ (r.n = q.n => r = q)
      <3>1. CASE q = new
        <4>1. q.slot = s /\ q.n = starts[s] + 1 /\ q.existing = current[s] /\ current[s] \in 0..starts[s]
              /\ starts'[s] = starts[s] + 1 /\ current' = current
          BY <3>1, <2>1 DEF BaseInv, TypeOK, Numbered, Start
        <4> QED BY <3>1, <4>1, <2>2, <2>3
      <3>2. CASE q \in planning
        <4>1. /\ q.slot \in Slot /\ q.n \in 1..starts[q.slot] /\ q.n # current[q.slot]
              /\ q.existing \in 0..starts[q.slot]
              /\ \A r \in planning : r.slot = q.slot => r.existing # q.n /\ (r.n = q.n => r = q)
          BY <3>2 DEF BaseInv, TypeOK, Numbered
        <4>2. current' = current
          BY DEF Start
        <4> QED BY <3>2, <4>1, <4>2, <2>2, <2>3
      <3> QED BY <2>2, <3>1, <3>2
    <2> HIDE DEF new
    <2> QED BY <2>4, <2>5 DEF Numbered
  <1>3. Working'
    BY DEF BaseInv, Working, Start, InSlot
  <1> QED BY <1>1, <1>2, <1>3 DEF BaseInv

LEMMA PlanFailsBase ==
  ASSUME BaseInv, NEW p \in planning, PlanFails(p)
  PROVE  BaseInv'
  <1>1. TypeOK'
    BY DEF BaseInv, TypeOK, PlanFails
  <1>2. Numbered'
    BY NumberedKept DEF PlanFails
  <1>3. Working'
    BY DEF BaseInv, Working, PlanFails, InSlot
  <1> QED BY <1>1, <1>2, <1>3 DEF BaseInv

\* What stops say, when none is added.
LEMMA StopsKept ==
  ASSUME BaseInv, stops' \subseteq stops, stopped' = stopped
  PROVE  \A st \in stops' : st.id <= stopped' /\ st.timedOut \subseteq InSlot(SlotOf(st.m))
  BY DEF BaseInv, Working

LEMMA PlannedBase ==
  ASSUME BaseInv, NEW p \in planning, Planned(p)
  PROVE  BaseInv'
  <1> DEFINE m == <<p.slot, p.n>>
             recent == IF p.existing = 0 THEN 0 ELSE managed[<<p.slot, p.existing>>].recent
             record == [New EXCEPT !.state = "STARTING", !.recent = recent]
  <1>1. /\ p.slot \in Slot /\ p.n \in 1..starts[p.slot] /\ p.existing \in 0..starts[p.slot]
        /\ starts[p.slot] \in 0..MaxStarts[p.slot] /\ p.n \in Nat \ {0} /\ p.existing \in Nat
        /\ \A q \in planning : q.slot = p.slot /\ q.n = p.n => q = p
    BY BoundAssumption DEF BaseInv, TypeOK, Numbered
  <1>2. p.n \in 1..MaxStarts[p.slot] /\ (p.existing # 0 => p.existing \in 1..MaxStarts[p.slot])
    BY <1>1, BoundAssumption
  <1>3. m \in Managed /\ SlotOf(m) = p.slot /\ m \in InSlot(p.slot)
    BY <1>1, <1>2, Numbers
  <1>4. p.existing # 0 => managed[<<p.slot, p.existing>>] \in Record
    BY <1>1, <1>2, Numbers DEF BaseInv, TypeOK
  <1>5. record \in Record /\ record.was = FALSE /\ record.proxy = FALSE /\ record.timer = FALSE
    <2>1. recent \in 0..MaxRestarts
      BY <1>4, BoundAssumption DEF Record
    <2> HIDE DEF recent
    <2> QED BY <2>1 DEF New, Record, States
  <1> HIDE DEF m, record
  <1>6. /\ current' = [current EXCEPT ![p.slot] = p.n] /\ starts' = starts
        /\ planning' = planning \ {p} /\ exiting' = exiting /\ stops' = stops /\ stopped' = stopped
        /\ raced' \subseteq raced \cup {p.slot}
    BY DEF Planned
  <1>7. /\ managed' \in [Managed -> Record]
        /\ process' \in [Managed -> {"none", "alive", "killed"}]
        /\ launch' \in [Managed -> LaunchStates] /\ probing' \in [Managed -> Port \cup {0}]
        /\ leased' \subseteq leased /\ answered' \subseteq Managed /\ answered \subseteq answered' \cup {m}
        /\ starved' \subseteq Managed
        /\ \A k \in Managed \ {m} :
             managed'[k] = managed[k] /\ launch'[k] = launch[k] /\ probing'[k] = probing[k]
        /\ SlotOf(m) \notin Serve => launch'[m] = "none"
        /\ launch'[m] = "lease" => probing'[m] # 0
        /\ SlotOf(m) \in Serve => ~managed'[m].was
        /\ ~managed'[m].proxy
    <2>1. CASE p.slot \in Serve
      <3>1. /\ managed' = [managed EXCEPT ![m] = record] /\ SearchPort(m, 0)
            /\ UNCHANGED <<process, leased, answered>>
        BY <2>1 DEF Planned, m, record, recent
      <3>2. managed' \in [Managed -> Record] /\ managed'[m] = record
            /\ \A k \in Managed \ {m} : managed'[k] = managed[k]
        BY <3>1, <1>3, <1>5 DEF BaseInv, TypeOK
      <3> QED BY <3>1, <3>2, <2>1, <1>3, <1>5, Searches DEF BaseInv, TypeOK, LaunchStates
    <2>2. CASE p.slot \notin Serve
      <3>1. Spawn(m, record, leased) /\ UNCHANGED <<probing, starved>>
        BY <2>2 DEF Planned, m, record, recent
      <3>2. launch[m] = "none" /\ leased \in SUBSET [port : Port, owner : Slot]
        BY <2>2, <1>3 DEF BaseInv, Working, TypeOK
      <3>3. TypeOK
        BY DEF BaseInv
      <3>4. /\ managed' \in [Managed -> Record]
            /\ process' \in [Managed -> {"none", "alive", "killed"}]
            /\ launch' \in [Managed -> LaunchStates]
            /\ leased' \subseteq leased /\ answered' \subseteq Managed /\ answered \subseteq answered' \cup {m}
            /\ \A k \in Managed \ {m} :
                 managed'[k] = managed[k] /\ process'[k] = process[k] /\ launch'[k] = launch[k]
            /\ launch'[m] = "none" /\ managed'[m].proxy = record.proxy
        BY <3>1, <3>2, <3>3, <1>3, <1>5, <2>2, Spawns
      <3> QED BY <3>1, <3>3, <3>4, <2>2, <1>3, <1>5 DEF TypeOK
    <2> QED BY <2>1, <2>2
  <1>8. TypeOK'
    BY <1>1, <1>3, <1>6, <1>7 DEF BaseInv, TypeOK, LaunchStates
  <1>9. Numbered'
    <2>1. ASSUME NEW z \in Slot
          PROVE  /\ starts'[z] \in 0..MaxStarts[z] /\ current'[z] \in 0..starts'[z]
                 /\ current'[z] = 0 => \A k \in InSlot(z) : launch'[k] = "none" /\ ~managed'[k].timer
      <3>1. CASE z = p.slot
        BY <3>1, <1>1, <1>6 DEF BaseInv, TypeOK
      <3>2. CASE z # p.slot
        <4>1. current'[z] = current[z]
          BY <3>2, <1>6 DEF BaseInv, TypeOK
        <4>2. \A k \in InSlot(z) : k \in Managed \ {m}
          BY <3>2, <1>3, Numbers
        <4> QED BY <4>1, <4>2, <1>6, <1>7 DEF BaseInv, Numbered
      <3> QED BY <3>1, <3>2
    <2>2. ASSUME NEW q \in planning'
          PROVE  /\ q.n \in 1..starts'[q.slot] /\ q.n # current'[q.slot]
                 /\ q.existing \in 0..starts'[q.slot]
                 /\ \A r \in planning' : r.slot = q.slot => r.existing # q.n /\ (r.n = q.n => r = q)
      <3>1. q \in planning /\ q # p /\ q.slot \in Slot
        BY <1>6 DEF BaseInv, TypeOK
      <3>2. q.slot = p.slot => q.n # p.n
        BY <3>1, <1>1
      <3>3. current'[q.slot] = IF q.slot = p.slot THEN p.n ELSE current[q.slot]
        BY <3>1, <1>6 DEF BaseInv, TypeOK
      <3> QED BY <3>1, <3>2, <3>3, <1>6 DEF BaseInv, Numbered
    <2> QED BY <2>1, <2>2 DEF Numbered, InSlot
  <1>10. Working'
    <2>1. SlotOf(m) \notin Serve => exiting'[m] # "backoff"
      BY <1>3, <1>6 DEF BaseInv, Working
    <2> QED BY <1>3, <1>6, <1>7, <2>1, StopsKept, WorkingKept
  <1> QED BY <1>8, <1>9, <1>10 DEF BaseInv

\* Only records with a current one in their slot are launched.
LEMMA LaunchedCurrent ==
  ASSUME BaseInv, NEW m \in Managed, launch[m] # "none" \/ managed[m].timer
  PROVE  current[SlotOf(m)] # 0
  BY Numbers DEF BaseInv, Numbered

LEMMA PortBusyBase ==
  ASSUME BaseInv, NEW m \in Managed, PortBusy(m)
  PROVE  BaseInv'
  <1>1. launch[m] = "lease" /\ SearchPort(m, probing[m])
    BY DEF PortBusy
  <1>2. /\ launch' \in [Managed -> {"none", "lease", "ready", "proxy"}]
        /\ probing' \in [Managed -> Port \cup {0}]
        /\ starved' \subseteq Managed
        /\ launch'[m] = "lease" => probing'[m] # 0
        /\ launch'[m] \in {"none", "lease"}
        /\ \A k \in Managed \ {m} : launch'[k] = launch[k] /\ probing'[k] = probing[k]
    BY <1>1, Searches DEF BaseInv
  <1>3. TypeOK'
    BY <1>2 DEF BaseInv, TypeOK, PortBusy
  <1>4. Numbered'
    BY <1>1, <1>2, LaunchedCurrent, NumberedKept DEF PortBusy
  <1>5. Working'
    <2>1. SlotOf(m) \in Serve /\ ~managed[m].was /\ exiting' = exiting
      BY <1>1 DEF BaseInv, Working, PortBusy
    <2> QED BY <1>2, <2>1, StopsKept, WorkingKept DEF PortBusy
  <1> QED BY <1>3, <1>4, <1>5 DEF BaseInv

LEMMA PortFreeBase ==
  ASSUME BaseInv, NEW m \in Managed, PortFree(m)
  PROVE  BaseInv'
  <1> DEFINE p == probing[m]
             record == [managed[m] EXCEPT !.lease = p]
  <1>1. launch[m] = "lease" /\ SlotOf(m) \in Serve /\ ~managed[m].was /\ p \in Port
    BY DEF PortFree, BaseInv, Working, TypeOK
  <1>2. record \in Record /\ record.was = managed[m].was /\ record.proxy = managed[m].proxy
    BY <1>1 DEF BaseInv, TypeOK, Record
  <1>3. Taken(m, p) \in SUBSET [port : Port, owner : Slot]
    BY <1>1, Numbers DEF Taken, BaseInv, TypeOK
  <1>4. Spawn(m, record, Taken(m, p))
    BY DEF PortFree
  <1> HIDE DEF p, record
  <1>5. /\ managed' \in [Managed -> Record]
        /\ process' \in [Managed -> {"none", "alive", "killed"}]
        /\ launch' \in [Managed -> LaunchStates]
        /\ leased' \subseteq Taken(m, p) /\ answered' \subseteq Managed /\ answered \subseteq answered' \cup {m}
        /\ \A k \in Managed \ {m} :
             managed'[k] = managed[k] /\ process'[k] = process[k] /\ launch'[k] = launch[k]
        /\ launch'[m] \in {"ready", "none"}
        /\ managed'[m].was = record.was
    BY <1>1, <1>2, <1>3, <1>4, Spawns DEF BaseInv
  <1>6. probing' = [probing EXCEPT ![m] = 0]
    BY DEF PortFree
  <1>7. raced' \subseteq Slot
    BY Numbers DEF PortFree, BaseInv, TypeOK
  <1>8. TypeOK'
    BY <1>3, <1>5, <1>6, <1>7 DEF BaseInv, TypeOK, PortFree, LaunchStates
  <1>9. Numbered'
    <2>1. current[SlotOf(m)] # 0
      BY <1>1, LaunchedCurrent
    <2>2. \A k \in Managed : current[SlotOf(k)] = 0 => launch'[k] = launch[k] /\ managed'[k] = managed[k]
      BY <1>5, <2>1
    <2> QED BY <2>2, NumberedKept DEF PortFree
  <1>10. Working'
    <2>1. \A k \in Managed \ {m} : probing'[k] = probing[k]
      BY <1>6 DEF BaseInv, TypeOK
    <2> QED BY <1>1, <1>2, <1>5, <2>1, StopsKept, WorkingKept DEF PortFree
  <1> QED BY <1>8, <1>9, <1>10 DEF BaseInv

\* Steps of the readiness loop and of the proxy's start that end launch() or
\* take it further, and nothing else.
LEMMA LaunchBase ==
  ASSUME BaseInv, NEW m \in Managed, Answers(m) \/ LoopEnds(m) \/ ProxyFails(m)
  PROVE  BaseInv'
  <1>1. /\ \/ launch[m] \in {"ready", "proxy"} /\ launch' = [launch EXCEPT ![m] = "none"]
           \/ launch[m] = "ready" /\ launch' = [launch EXCEPT ![m] = "proxy"]
        /\ UNCHANGED <<current, starts, planning, managed, process, probing, exiting, stops, stopped,
                       leased, answered, starved, raced>>
    BY DEF Answers, LoopEnds, ProxyFails
  <1>2. TypeOK'
    BY <1>1 DEF BaseInv, TypeOK
  <1>3. /\ launch'[m] \in {"none", "proxy"} /\ SlotOf(m) \in Serve
        /\ \A k \in Managed \ {m} : launch'[k] = launch[k]
    BY <1>1 DEF BaseInv, TypeOK, Working
  <1>4. Numbered'
    BY <1>1, <1>3, LaunchedCurrent, NumberedKept
  <1>5. Working'
    BY <1>1, <1>3, StopsKept, WorkingKept DEF BaseInv, Working
  <1> QED BY <1>2, <1>4, <1>5 DEF BaseInv

LEMMA ProxyListensBase ==
  ASSUME BaseInv, NEW m \in Managed, ProxyListens(m)
  PROVE  BaseInv'
  <1> DEFINE record == [managed[m] EXCEPT !.proxy = TRUE, !.was = TRUE, !.timer = FALSE, !.state = "RUNNING"]
  <1>1. /\ launch[m] = "proxy" /\ SlotOf(m) \in Serve
        /\ launch' = [launch EXCEPT ![m] = "none"] /\ managed' = [managed EXCEPT ![m] = record]
        /\ answered' = answered \cup {m}
    BY DEF BaseInv, Working, ProxyListens
  <1>2. managed[m] \in Record
    BY DEF BaseInv, TypeOK
  <1>8. record \in Record /\ record.timer = FALSE
    BY <1>2 DEF Record, States
  <1> HIDE DEF record
  <1>3. raced' \subseteq Slot
    BY Numbers DEF ProxyListens, BaseInv, TypeOK
  <1>4. TypeOK'
    BY <1>1, <1>8, <1>3 DEF BaseInv, TypeOK, ProxyListens
  <1>5. /\ launch'[m] = "none" /\ managed'[m] = record
        /\ \A k \in Managed \ {m} : launch'[k] = launch[k] /\ managed'[k] = managed[k]
    BY <1>1, <1>8 DEF BaseInv, TypeOK
  <1>6. Numbered'
    BY <1>1, <1>8, <1>5, NumberedKept DEF ProxyListens
  <1>7. Working'
    BY <1>1, <1>5, StopsKept, WorkingKept DEF ProxyListens
  <1> QED BY <1>4, <1>6, <1>7 DEF BaseInv

LEMMA HealthChangesBase ==
  ASSUME BaseInv, NEW m \in Managed, HealthChanges(m)
  PROVE  BaseInv'
  <1>1. PICK state \in {"RUNNING", "DEGRADED"} : managed' = [managed EXCEPT ![m].state = state]
    BY DEF HealthChanges
  <1>2. /\ managed' \in [Managed -> Record] /\ managed'[m].was = managed[m].was
        /\ managed'[m].timer = managed[m].timer /\ managed'[m].proxy = managed[m].proxy
        /\ \A k \in Managed \ {m} : managed'[k] = managed[k]
    BY <1>1 DEF BaseInv, TypeOK, Record, States
  <1>3. TypeOK'
    BY <1>2 DEF BaseInv, TypeOK, HealthChanges, activities
  <1>4. Numbered'
    BY <1>2, NumberedKept DEF HealthChanges, activities
  <1>5. Working'
    BY <1>2, StopsKept, WorkingKept DEF HealthChanges, activities, BaseInv, Working
  <1> QED BY <1>3, <1>4, <1>5 DEF BaseInv

\* stop() of the record in a slot, by the user or by a timer of the slot.
LEMMA BeginStopBase ==
  ASSUME BaseInv, NEW s \in Slot, current[s] # 0, NEW T \in SUBSET InSlot(s), BeginStop(Current(s), T),
         UNCHANGED <<current, starts, planning, launch, probing, exiting, answered, starved, raced>>
  PROVE  BaseInv'
  <1> DEFINE c == Current(s)
  <1>1. current[s] \in 1..MaxStarts[s]
    <2>1. current[s] \in 0..starts[s] /\ starts[s] \in 0..MaxStarts[s] /\ MaxStarts[s] \in Nat
      BY BoundAssumption DEF BaseInv, Numbered
    <2> QED BY <2>1
  <1>2. c \in Managed /\ SlotOf(c) = s /\ c \in InSlot(s) /\ T \in SUBSET Managed
    BY <1>1, Numbers DEF Current
  <1> HIDE DEF c
  <1>3. TypeOK /\ BeginStop(c, T)
    BY DEF BaseInv, c
  <1>4. /\ stopped' = stopped + 1
        /\ stops' = stops \/ \E at \in {"killing", "closing"} :
             stops' = stops \cup {[id |-> stopped + 1, m |-> c, at |-> at, timedOut |-> T]}
        /\ process' = process \/ process' = [process EXCEPT ![c] = "killed"]
        /\ leased' \subseteq leased
        /\ managed' \in [Managed -> Record]
        /\ \A k \in Managed : /\ managed'[k].was = managed[k].was
                              /\ managed'[k].timer => managed[k].timer
                              /\ managed'[k].proxy => managed[k].proxy
    BY <1>2, <1>3, Begins, Finishes DEF Waits
  <1>5. TypeOK'
    BY <1>2, <1>3, <1>4 DEF TypeOK
  <1>6. Numbered'
    BY <1>4, NumberedKept
  <1>7. \A st \in stops' : st.id <= stopped' /\ st.timedOut \subseteq InSlot(SlotOf(st.m))
    BY <1>2, <1>4 DEF BaseInv, TypeOK, Working
  <1>8. Working'
    <2>1. /\ SlotOf(c) \notin Serve => launch[c] = "none" /\ exiting[c] # "backoff" /\ ~managed[c].proxy
          /\ SlotOf(c) \in Serve /\ managed[c].was => c \in answered /\ launch[c] # "lease"
          /\ launch[c] = "lease" => probing[c] # 0
      BY <1>2 DEF BaseInv, Working
    <2> QED BY <1>2, <1>4, <1>7, <2>1, WorkingKept
  <1> QED BY <1>5, <1>6, <1>8 DEF BaseInv

LEMMA StopBase ==
  ASSUME BaseInv, NEW s \in Slot, Stop(s)
  PROVE  BaseInv'
  BY BeginStopBase DEF Stop

LEMMA TimerFiresBase ==
  ASSUME BaseInv, NEW m \in Managed, TimerFires(m)
  PROVE  BaseInv'
  <1>1. current[SlotOf(m)] # 0 /\ SlotOf(m) \in Slot /\ m \in InSlot(SlotOf(m))
    BY LaunchedCurrent, Numbers DEF TimerFires
  <1>2. CASE BeginStop(Current(SlotOf(m)), {m})
    BY <1>1, <1>2, BeginStopBase DEF TimerFires
  <1>3. CASE /\ \/ managed' = [managed EXCEPT ![m].timer = FALSE]
                \/ managed' = [managed EXCEPT ![m] = [@ EXCEPT !.timer = FALSE, !.state = "CRASHED"]]
             /\ UNCHANGED <<process, stops, stopped, leased>>
    <2>1. /\ managed' \in [Managed -> Record] /\ managed'[m].was = managed[m].was
          /\ managed'[m].timer = FALSE /\ managed'[m].proxy = managed[m].proxy
          /\ \A k \in Managed \ {m} : managed'[k] = managed[k]
      <3> DEFINE off == [managed[m] EXCEPT !.timer = FALSE]
                 over == [managed[m] EXCEPT !.timer = FALSE, !.state = "CRASHED"]
      <3>1. managed[m] \in Record
        BY DEF BaseInv, TypeOK
      <3>2. /\ off \in Record /\ off.timer = FALSE /\ off.was = managed[m].was /\ off.proxy = managed[m].proxy
            /\ over \in Record /\ over.timer = FALSE /\ over.was = managed[m].was
            /\ over.proxy = managed[m].proxy
        BY <3>1 DEF Record, States
      <3>3. managed' = [managed EXCEPT ![m] = off] \/ managed' = [managed EXCEPT ![m] = over]
        BY <1>3
      <3> HIDE DEF off, over
      <3> QED BY <3>2, <3>3 DEF BaseInv, TypeOK
    <2>2. TypeOK'
      BY <1>3, <2>1 DEF BaseInv, TypeOK, TimerFires
    <2>3. Numbered'
      BY <2>1, NumberedKept DEF TimerFires
    <2>4. Working'
      BY <1>3, <2>1, StopsKept, WorkingKept DEF TimerFires, BaseInv, Working
    <2> QED BY <2>2, <2>3, <2>4 DEF BaseInv
  <1> QED BY <1>2, <1>3 DEF TimerFires

\* The awaits of a stop() return.
LEMMA StopReturnsBase ==
  ASSUME BaseInv, NEW st \in stops, KillReturns(st) \/ CloseReturns(st)
  PROVE  BaseInv'
  <1>1. st.m \in Managed /\ st.timedOut \in SUBSET Managed /\ st.id \in Nat /\ st.id <= stopped
        /\ st.timedOut \subseteq InSlot(SlotOf(st.m)) /\ TypeOK
    BY DEF BaseInv, TypeOK, Working
  <1>2. UNCHANGED <<current, starts, planning, process, launch, probing, exiting, stopped, answered,
                    starved, raced>>
    BY DEF KillReturns, CloseReturns
  <1>3. /\ stops' \subseteq stops \cup {[st EXCEPT !.at = "closing"]}
        /\ UNCHANGED <<managed, leased>> \/ FinishStop(st.m, st.timedOut)
    BY DEF KillReturns, CloseReturns
  <1>4. /\ leased' \subseteq leased /\ managed' \in [Managed -> Record]
        /\ \A k \in Managed : /\ managed'[k].was = managed[k].was
                              /\ managed'[k].timer => managed[k].timer
                              /\ managed'[k].proxy => managed[k].proxy
    <2>1. CASE UNCHANGED <<managed, leased>>
      BY <1>1, <2>1 DEF TypeOK
    <2>2. CASE FinishStop(st.m, st.timedOut)
      BY <1>1, <2>2, Finishes
    <2> QED BY <1>3, <2>1, <2>2
  <1>5. TypeOK'
    <2>1. stops' \subseteq [id : Nat, m : Managed, at : {"killing", "closing"}, timedOut : SUBSET Managed]
      BY <1>1, <1>3 DEF TypeOK
    <2> QED BY <1>1, <1>2, <1>4, <2>1 DEF TypeOK
  <1>6. Numbered'
    BY <1>2, <1>4, NumberedKept
  <1>7. \A r \in stops' : r.id <= stopped' /\ r.timedOut \subseteq InSlot(SlotOf(r.m))
    <2>1. LET r == [st EXCEPT !.at = "closing"] IN r.id = st.id /\ r.timedOut = st.timedOut /\ r.m = st.m
      BY <1>1 DEF TypeOK
    <2> QED BY <1>1, <1>2, <1>3, <2>1 DEF BaseInv, TypeOK, Working
  <1>8. Working'
    <2> DEFINE m == st.m
    <2>1. /\ SlotOf(m) \notin Serve => launch[m] = "none" /\ exiting[m] # "backoff" /\ ~managed[m].proxy
          /\ SlotOf(m) \in Serve /\ managed[m].was => m \in answered /\ launch[m] # "lease"
          /\ launch[m] = "lease" => probing[m] # 0
      BY <1>1 DEF BaseInv, Working
    <2> HIDE DEF m
    <2> QED BY <1>1, <1>2, <1>4, <1>7, <2>1, WorkingKept DEF m
  <1> QED BY <1>5, <1>6, <1>8 DEF BaseInv

\* The end of onExit: the record is at rest, or it is restarted.
LEMMA Settles ==
  ASSUME TypeOK, NEW m \in Managed, ExitSettles(m)
  PROVE  /\ managed' \in [Managed -> Record] /\ leased' = Released(m)
         /\ exiting' \in [Managed -> {"none", "closing", "backoff"}]
         /\ \A k \in Managed \ {m} : managed'[k] = managed[k] /\ exiting'[k] = exiting[k]
         /\ managed'[m].stopping = managed[m].stopping /\ managed'[m].was = managed[m].was
         /\ ~managed'[m].child /\ managed'[m].lease = 0 /\ ~managed'[m].proxy /\ ~managed'[m].timer
         /\ \/ managed'[m].state \in AtRest /\ exiting'[m] = "none"
            \/ /\ managed'[m].state = "RESTARTING" /\ exiting'[m] = "backoff"
               /\ SlotOf(m) \in Serve /\ managed[m].was
  <1> DEFINE torn == TornDown(m)
  <1>1. /\ torn \in Record /\ torn.stopping = managed[m].stopping /\ torn.was = managed[m].was
        /\ torn.child = FALSE /\ torn.lease = 0 /\ torn.proxy = FALSE /\ torn.timer = FALSE
        /\ torn.recent = managed[m].recent /\ torn.recent \in 0..MaxRestarts
    BY Torn DEF Record
  <1>2. leased' = Released(m) /\ torn = TornDown(m)
    BY DEF ExitSettles
  <1> HIDE DEF torn
  <1>3. CASE SlotOf(m) \notin Serve
    <2>1. PICK end \in {"STOPPED", "CRASHED"} : managed' = [managed EXCEPT ![m] = [torn EXCEPT !.state = end]]
      BY <1>2, <1>3 DEF ExitSettles
    <2>2. exiting' = [exiting EXCEPT ![m] = "none"]
      BY <1>3 DEF ExitSettles
    <2> DEFINE left == [torn EXCEPT !.state = end]
    <2>3. /\ left \in Record /\ left.stopping = managed[m].stopping /\ left.was = managed[m].was
          /\ left.child = FALSE /\ left.lease = 0 /\ left.proxy = FALSE /\ left.timer = FALSE
          /\ left.state \in AtRest
      BY <1>1 DEF Record, States, AtRest
    <2> HIDE DEF left
    <2>4. managed' = [managed EXCEPT ![m] = left]
      BY <2>1 DEF left
    <2> QED BY <1>2, <2>2, <2>3, <2>4 DEF TypeOK
  <1>4. CASE SlotOf(m) \in Serve
    <2>1. PICK kept \in 0..managed[m].recent :
            IF managed[m].was /\ kept < MaxRestarts
            THEN /\ managed' = [managed EXCEPT ![m] = [torn EXCEPT !.state = "RESTARTING", !.recent = kept + 1]]
                 /\ exiting' = [exiting EXCEPT ![m] = "backoff"]
            ELSE /\ managed' = [managed EXCEPT ![m] = [torn EXCEPT !.state = "CRASHED", !.recent = kept]]
                 /\ exiting' = [exiting EXCEPT ![m] = "none"]
      BY <1>2, <1>4 DEF ExitSettles
    <2>2. kept \in 0..MaxRestarts /\ (kept < MaxRestarts => kept + 1 \in 0..MaxRestarts)
      BY <1>1, <2>1, BoundAssumption
    <2>3. CASE managed[m].was /\ kept < MaxRestarts
      <3> DEFINE left == [torn EXCEPT !.state = "RESTARTING", !.recent = kept + 1]
      <3>1. /\ left \in Record /\ left.stopping = managed[m].stopping /\ left.was = managed[m].was
            /\ left.child = FALSE /\ left.lease = 0 /\ left.proxy = FALSE /\ left.timer = FALSE
            /\ left.state = "RESTARTING"
        BY <1>1, <2>2, <2>3 DEF Record, States
      <3>2. managed' = [managed EXCEPT ![m] = left] /\ exiting' = [exiting EXCEPT ![m] = "backoff"]
        BY <2>1, <2>3
      <3> HIDE DEF left
      <3> QED BY <1>2, <1>4, <2>3, <3>1, <3>2 DEF TypeOK
    <2>4. CASE ~(managed[m].was /\ kept < MaxRestarts)
      <3> DEFINE left == [torn EXCEPT !.state = "CRASHED", !.recent = kept]
      <3>1. /\ left \in Record /\ left.stopping = managed[m].stopping /\ left.was = managed[m].was
            /\ left.child = FALSE /\ left.lease = 0 /\ left.proxy = FALSE /\ left.timer = FALSE
            /\ left.state \in AtRest
        BY <1>1, <2>2, <2>4 DEF Record, States, AtRest
      <3>2. managed' = [managed EXCEPT ![m] = left] /\ exiting' = [exiting EXCEPT ![m] = "none"]
        BY <2>1, <2>4
      <3> HIDE DEF left
      <3> QED BY <1>2, <3>1, <3>2 DEF TypeOK
    <2> QED BY <2>3, <2>4
  <1> QED BY <1>3, <1>4

LEMMA ExitsBase ==
  ASSUME BaseInv, NEW m \in Managed, Exits(m) \/ ProxyCloses(m)
  PROVE  BaseInv'
  <1>1. /\ UNCHANGED <<current, starts, planning, launch, probing, stops, stopped, answered, starved, raced>>
        /\ process' = process \/ process' = [process EXCEPT ![m] = "none"]
        /\ \/ UNCHANGED <<managed, exiting, leased>>
           \/ /\ managed[m].proxy /\ managed' = [managed EXCEPT ![m].timer = FALSE]
              /\ exiting' = [exiting EXCEPT ![m] = "closing"] /\ leased' = leased
           \/ ExitSettles(m)
    BY DEF Exits, ProxyCloses
  <1>2. TypeOK /\ managed[m] \in Record
    BY DEF BaseInv, TypeOK
  <1>3. /\ managed' \in [Managed -> Record] /\ leased' \subseteq leased
        /\ exiting' \in [Managed -> {"none", "closing", "backoff"}]
        /\ \A k \in Managed \ {m} : managed'[k] = managed[k] /\ exiting'[k] = exiting[k]
        /\ managed'[m].was = managed[m].was
        /\ managed'[m].timer => managed[m].timer
        /\ managed'[m].proxy => managed[m].proxy
        /\ SlotOf(m) \notin Serve => exiting'[m] # "backoff" \/ exiting'[m] = exiting[m]
    <2>1. CASE UNCHANGED <<managed, exiting, leased>>
      BY <1>2, <2>1 DEF TypeOK
    <2>2. CASE /\ managed' = [managed EXCEPT ![m].timer = FALSE]
               /\ exiting' = [exiting EXCEPT ![m] = "closing"] /\ leased' = leased
      <3> DEFINE off == [managed[m] EXCEPT !.timer = FALSE]
      <3>1. off \in Record /\ off.timer = FALSE /\ off.was = managed[m].was /\ off.proxy = managed[m].proxy
        BY <1>2 DEF Record
      <3>2. managed' = [managed EXCEPT ![m] = off]
        BY <2>2
      <3> HIDE DEF off
      <3> QED BY <1>2, <2>2, <3>1, <3>2 DEF TypeOK
    <2>3. CASE ExitSettles(m)
      BY <1>2, <2>3, Settles DEF Released
    <2> QED BY <1>1, <2>1, <2>2, <2>3
  <1>4. TypeOK'
    BY <1>1, <1>2, <1>3 DEF TypeOK
  <1>5. Numbered'
    BY <1>1, <1>3, NumberedKept
  <1>6. Working'
    <2>1. /\ SlotOf(m) \notin Serve => launch[m] = "none" /\ exiting[m] # "backoff" /\ ~managed[m].proxy
          /\ SlotOf(m) \in Serve /\ managed[m].was => m \in answered /\ launch[m] # "lease"
          /\ launch[m] = "lease" => probing[m] # 0
      BY DEF BaseInv, Working
    <2> QED BY <1>1, <1>3, <2>1, StopsKept, WorkingKept
  <1> QED BY <1>4, <1>5, <1>6 DEF BaseInv

LEMMA BackoffEndsBase ==
  ASSUME BaseInv, NEW m \in Managed, BackoffEnds(m)
  PROVE  BaseInv'
  <1>1. /\ SlotOf(m) \in Serve /\ exiting' = [exiting EXCEPT ![m] = "none"]
        /\ UNCHANGED <<current, starts, planning, process, stops, stopped, leased, answered, raced>>
    BY DEF BackoffEnds, BaseInv, Working
  <1>2. TypeOK /\ managed[m] \in Record
    BY DEF BaseInv, TypeOK
  <1>3. CASE UNCHANGED <<managed, launch, probing, starved>>
    <2>1. TypeOK'
      BY <1>1, <1>2, <1>3 DEF TypeOK
    <2>2. Numbered'
      BY <1>1, <1>3, NumberedKept
    <2>3. Working'
      <3>1. /\ SlotOf(m) \in Serve /\ managed[m].was => m \in answered /\ launch[m] # "lease"
            /\ launch[m] = "lease" => probing[m] # 0
        BY DEF BaseInv, Working
      <3>2. \A k \in Managed \ {m} : exiting'[k] = exiting[k]
        BY <1>1, <1>2 DEF TypeOK
      <3> QED BY <1>1, <1>3, <3>1, <3>2, StopsKept, WorkingKept
    <2> QED BY <2>1, <2>2, <2>3 DEF BaseInv
  <1>4. CASE /\ IsCurrent(m) /\ SearchPort(m, 0)
             /\ managed' = [managed EXCEPT ![m] = [@ EXCEPT !.state = "STARTING", !.was = FALSE]]
    <2> DEFINE again == [managed[m] EXCEPT !.state = "STARTING", !.was = FALSE]
    <2>1. again \in Record /\ again.was = FALSE /\ again.timer = managed[m].timer /\ again.proxy = managed[m].proxy
      BY <1>2 DEF Record, States
    <2>2. managed' = [managed EXCEPT ![m] = again]
      BY <1>4
    <2> HIDE DEF again
    <2>3. /\ managed' \in [Managed -> Record] /\ managed'[m] = again
          /\ \A k \in Managed \ {m} : managed'[k] = managed[k] /\ exiting'[k] = exiting[k]
      BY <1>1, <1>2, <2>1, <2>2 DEF TypeOK
    <2>4. /\ launch' \in [Managed -> {"none", "lease", "ready", "proxy"}]
          /\ probing' \in [Managed -> Port \cup {0}]
          /\ starved' \subseteq Managed
          /\ launch'[m] = "lease" => probing'[m] # 0
          /\ \A k \in Managed \ {m} : launch'[k] = launch[k] /\ probing'[k] = probing[k]
      BY <1>2, <1>4, Searches
    <2>5. TypeOK'
      BY <1>1, <1>2, <2>3, <2>4 DEF TypeOK
    <2>6. current[SlotOf(m)] # 0
      BY <1>4, Numbers DEF IsCurrent, Current
    <2>7. Numbered'
      BY <1>1, <2>3, <2>4, <2>6, NumberedKept
    <2>8. Working'
      BY <1>1, <2>1, <2>3, <2>4, StopsKept, WorkingKept
    <2> QED BY <2>5, <2>7, <2>8 DEF BaseInv
  <1> QED BY <1>3, <1>4 DEF BackoffEnds

LEMMA BaseStutters ==
  ASSUME BaseInv, UNCHANGED vars
  PROVE  BaseInv'
  BY DEF BaseInv, TypeOK, Numbered, Working, InSlot, vars, activities

LEMMA BaseStep ==
  ASSUME BaseInv, [Next]_vars
  PROVE  BaseInv'
  <1>1. CASE \E s \in Slot : Start(s) \/ Stop(s)
    BY <1>1, StartBase, StopBase
  <1>2. CASE \E p \in planning : PlanFails(p) \/ Planned(p)
    BY <1>2, PlanFailsBase, PlannedBase
  <1>3. CASE \E m \in Managed : Launching(m) \/ Readying(m) \/ Proxying(m)
    BY <1>3, PortBusyBase, PortFreeBase, LaunchBase, ProxyListensBase DEF Launching, Readying, Proxying
  <1>4. CASE \E m \in Managed : HealthChanges(m) \/ TimerFires(m)
    BY <1>4, HealthChangesBase, TimerFiresBase
  <1>5. CASE \E m \in Managed : Exits(m) \/ ProxyCloses(m) \/ BackoffEnds(m)
    BY <1>5, ExitsBase, BackoffEndsBase
  <1>6. CASE \E st \in stops : KillReturns(st) \/ CloseReturns(st)
    BY <1>6, StopReturnsBase
  <1>7. CASE UNCHANGED vars
    BY <1>7, BaseStutters
  <1> QED BY <1>1, <1>2, <1>3, <1>4, <1>5, <1>6, <1>7 DEF Next

-----------------------------------------------------------------------------
(* What a step does to a slot where nothing races                           *)

\* A step leaves a record alone.
Same(k) ==
  managed'[k] = managed[k] /\ process'[k] = process[k] /\ launch'[k] = launch[k] /\ exiting'[k] = exiting[k]

SameLeases(s) == \A p \in Port : [port |-> p, owner |-> s] \in leased' <=> [port |-> p, owner |-> s] \in leased

\* A record that stop() has brought to rest stays at rest.
Stays(s) ==
  \A m \in InSlot(s) : managed[m].stopping /\ managed[m].state \in AtRest => managed'[m].state \in AtRest

Kept == raced \subseteq raced' /\ \A s \in Slot \ raced' : Orderly(s)' /\ Stays(s)

\* The records that the slot and its planned starts are about.
LEMMA CurrentIn ==
  ASSUME BaseInv, NEW s \in Slot, current[s] # 0
  PROVE  /\ Current(s) \in InSlot(s) /\ Current(s) \in Managed /\ SlotOf(Current(s)) = s
         /\ IsCurrent(Current(s)) /\ current[s] \in Nat /\ starts[s] \in Nat /\ current[s] <= starts[s]
         /\ Current(s)[2] = current[s]
  <1>1. current[s] \in 0..starts[s] /\ starts[s] \in 0..MaxStarts[s] /\ MaxStarts[s] \in Nat
    BY BoundAssumption DEF BaseInv, Numbered
  <1>2. current[s] \in 1..MaxStarts[s]
    BY <1>1
  <1> QED BY <1>1, <1>2, Numbers DEF Current, IsCurrent

LEMMA PlannedIn ==
  ASSUME BaseInv, NEW p \in planning
  PROVE  /\ p.slot \in Slot /\ <<p.slot, p.n>> \in InSlot(p.slot) /\ <<p.slot, p.n>> \in Managed
         /\ SlotOf(<<p.slot, p.n>>) = p.slot /\ ~IsCurrent(<<p.slot, p.n>>)
  <1>1. /\ p.slot \in Slot /\ p.n \in 1..starts[p.slot] /\ p.n # current[p.slot]
        /\ starts[p.slot] \in 0..MaxStarts[p.slot] /\ MaxStarts[p.slot] \in Nat
    BY BoundAssumption DEF BaseInv, TypeOK, Numbered
  <1>2. p.n \in 1..MaxStarts[p.slot]
    BY <1>1
  <1>3. SlotOf(<<p.slot, p.n>>) = p.slot
    BY <1>1, <1>2, Numbers
  <1> QED BY <1>1, <1>2, <1>3, Numbers DEF IsCurrent, Current

\* What the state of a record says, state by state.
LEMMA AtRestSays ==
  ASSUME NEW m, Says(m), managed[m].state \in AtRest
  PROVE  Left(m) /\ (exiting[m] = "backoff" => managed[m].stopping)
  BY DEF Says, AtRest

LEMMA SameSound ==
  ASSUME NEW k \in Managed, Sound(k), Same(k),
         current'[SlotOf(k)] = current[SlotOf(k)], starts'[SlotOf(k)] = starts[SlotOf(k)]
  PROVE  Sound(k)'
  BY DEF Sound, Says, Left, IsCurrent, Current, Same, AtRest, SlotOf

\* A slot that the step is not about.
LEMMA SlotKept ==
  ASSUME BaseInv, NEW s \in Slot, Orderly(s), \A k \in InSlot(s) : Same(k),
         current'[s] = current[s], starts'[s] = starts[s],
         \A p \in planning' : p.slot = s => p \in planning,
         \A st \in stops' : SlotOf(st.m) = s => st \in stops,
         SameLeases(s)
  PROVE  Orderly(s)' /\ Stays(s)
  <1>1. \A k \in InSlot(s) : Sound(k)'
    BY SameSound, Numbers DEF Orderly
  <1>2. ASSUME NEW p \in planning', p.slot = s
        PROVE  Awaits(p)'
    <2>1. p \in planning /\ Awaits(p) /\ <<p.slot, p.n>> \in InSlot(s)
      BY <1>2, PlannedIn DEF Orderly
    <2>2. current[s] # 0 => Current(s) \in InSlot(s)
      BY CurrentIn
    <2> QED BY <1>2, <2>1, <2>2 DEF Awaits, Same, Current, AtRest
  <1>3. ASSUME NEW st \in stops', SlotOf(st.m) = s
        PROVE  Ends(st)'
    <2>1. st \in stops /\ Ends(st) /\ st.m \in InSlot(s)
      BY <1>3, Numbers DEF Orderly, BaseInv, TypeOK
    <2> QED BY <2>1 DEF Ends, Same
  <1>4. Registered(s)'
    BY DEF Orderly, Registered, SameLeases, Same, InSlot
  <1>5. Stays(s)
    BY DEF Stays, Same
  <1> QED BY <1>1, <1>2, <1>3, <1>4, <1>5 DEF Orderly, InSlot

\* The slot that the step is about, when the step touches one record of it.
LEMMA SlotTouched ==
  ASSUME BaseInv, NEW s \in Slot, Orderly(s), NEW m \in InSlot(s),
         UNCHANGED <<current, starts>>, planning' \subseteq planning,
         \A k \in InSlot(s) \ {m} : Same(k),
         Sound(m)',
         managed'[m].stopping => managed[m].stopping \/ IsCurrent(m),
         managed[m].state \in AtRest /\ (IsCurrent(m) \/ managed[m].stopping) => managed'[m].state \in AtRest,
         \A st \in stops' : SlotOf(st.m) = s => (st \in stops /\ st.m # m) \/ Ends(st)',
         Registered(s)'
  PROVE  Orderly(s)' /\ Stays(s)
  <1>1. ASSUME NEW k \in InSlot(s)
        PROVE  Sound(k)'
    <2>1. CASE k = m
      BY <2>1
    <2>2. CASE k # m
      BY <2>2, SameSound, Numbers DEF Orderly
    <2> QED BY <2>1, <2>2
  <1>2. ASSUME NEW p \in planning', p.slot = s
        PROVE  Awaits(p)'
    <2> DEFINE k == <<p.slot, p.n>>
    <2>1. p \in planning /\ Awaits(p) /\ k \in InSlot(s) /\ ~IsCurrent(k)
      BY <1>2, PlannedIn DEF Orderly
    <2>2. ~managed'[k].stopping
      BY <2>1 DEF Awaits, Same
    <2>3. ASSUME p.existing = current[s], p.existing # 0
          PROVE  managed'[Current(s)].state \in AtRest
      <3>1. Current(s) \in InSlot(s) /\ IsCurrent(Current(s)) /\ managed[Current(s)].state \in AtRest
        BY <1>2, <2>1, <2>3, CurrentIn DEF Awaits
      <3> QED BY <3>1 DEF Same
    <2> QED BY <1>2, <2>2, <2>3 DEF Awaits, Current, AtRest
  <1>3. ASSUME NEW st \in stops', SlotOf(st.m) = s
        PROVE  Ends(st)'
    <2>1. CASE st \in stops /\ st.m # m
      <3>1. Ends(st) /\ st.m \in InSlot(s)
        BY <1>3, <2>1, Numbers DEF Orderly, BaseInv, TypeOK
      <3> QED BY <2>1, <3>1 DEF Ends, Same
    <2> QED BY <1>3, <2>1
  <1>4. Stays(s)
    BY DEF Stays, Same
  <1> QED BY <1>1, <1>2, <1>3, <1>4 DEF Orderly, InSlot

\* The two together, for a step about one record.
LEMMA TouchKeeps ==
  ASSUME SupervisorInv, NEW m \in Managed,
         UNCHANGED <<current, starts>>, planning' \subseteq planning, raced \subseteq raced',
         \A k \in Managed : SlotOf(k) # SlotOf(m) => Same(k),
         \A st \in stops' : SlotOf(st.m) # SlotOf(m) => st \in stops,
         \A z \in Slot \ raced' : z # SlotOf(m) => SameLeases(z),
         SlotOf(m) \notin raced' =>
           /\ \A k \in InSlot(SlotOf(m)) \ {m} : Same(k)
           /\ Sound(m)'
           /\ managed'[m].stopping => managed[m].stopping \/ IsCurrent(m)
           /\ managed[m].state \in AtRest /\ (IsCurrent(m) \/ managed[m].stopping) =>
                managed'[m].state \in AtRest
           /\ \A st \in stops' : SlotOf(st.m) = SlotOf(m) => (st \in stops /\ st.m # m) \/ Ends(st)'
           /\ Registered(SlotOf(m))'
  PROVE  Kept
  <1>1. ASSUME NEW z \in Slot \ raced'
        PROVE  Orderly(z)' /\ Stays(z)
    <2>1. BaseInv /\ Orderly(z)
      BY <1>1 DEF SupervisorInv
    <2>2. CASE z = SlotOf(m)
      <3>1. m \in InSlot(z)
        BY <2>2, Numbers
      <3> QED BY <1>1, <2>1, <2>2, <3>1, SlotTouched
    <2>3. CASE z # SlotOf(m)
      <3>1. /\ \A k \in InSlot(z) : Same(k)
            /\ \A st \in stops' : SlotOf(st.m) = z => st \in stops
            /\ SameLeases(z)
        BY <1>1, <2>3, Numbers
      <3> QED BY <1>1, <2>1, <3>1, SlotKept
    <2> QED BY <2>2, <2>3
  <1> QED BY <1>1 DEF Kept

\* A record that is not at rest is the slot's own, and no other holds a port.
LEMMA OnlyCurrent ==
  ASSUME NEW s \in Slot, Orderly(s), NEW m \in InSlot(s), managed[m].state \notin AtRest
  PROVE  IsCurrent(m) /\ \A k \in InSlot(s) \ {m} : managed[k].state \in AtRest /\ managed[k].lease = 0
  <1>1. IsCurrent(m)
    BY DEF Orderly, Sound
  <1>2. \A k \in InSlot(s) \ {m} : managed[k].state \in AtRest
    BY <1>1 DEF Orderly, Sound, IsCurrent, Current, InSlot
  <1>3. ASSUME NEW k \in InSlot(s) \ {m}
        PROVE  managed[k].lease = 0
    <2>1. Says(k) /\ managed[k].state \in AtRest
      BY <1>2 DEF Orderly, Sound
    <2> QED BY <2>1, AtRestSays DEF Left
  <1> QED BY <1>1, <1>2, <1>3

\* The registry follows a record that keeps its port, and one that gives it back.
LEMMA HeldOn ==
  ASSUME NEW s \in Slot, Orderly(s), leased' = leased,
         \A k \in InSlot(s) : managed'[k].lease = managed[k].lease
  PROVE  Registered(s)'
  BY DEF Orderly, Registered, InSlot

LEMMA GivenBack ==
  ASSUME NEW s \in Slot, Orderly(s), NEW m \in InSlot(s), leased' = Released(m), managed'[m].lease = 0,
         \A k \in InSlot(s) \ {m} : managed'[k].lease = managed[k].lease
  PROVE  Registered(s)'
  <1>1. SlotOf(m) = s
    BY Numbers
  <1>2. ASSUME NEW p \in Port
        PROVE  [port |-> p, owner |-> s] \in leased' <=> \E k \in InSlot(s) : managed'[k].lease = p
    <2>1. p # 0
      BY PortAssumption
    <2>2. [port |-> p, owner |-> s] \in leased' <=>
            [port |-> p, owner |-> s] \in leased /\ p # managed[m].lease
      BY <1>1 DEF Released
    <2>3. [port |-> p, owner |-> s] \in leased <=> \E k \in InSlot(s) : managed[k].lease = p
      BY DEF Orderly, Registered
    <2>4. CASE managed[m].lease = p
      <3>1. managed[m].state \notin AtRest
        BY <2>1, <2>4, AtRestSays DEF Orderly, Sound, Left
      <3>2. \A k \in InSlot(s) \ {m} : managed[k].lease = 0
        BY <3>1, OnlyCurrent
      <3> QED BY <2>1, <2>2, <2>4, <3>2
    <2>5. CASE managed[m].lease # p
      BY <2>1, <2>2, <2>3, <2>5
    <2> QED BY <2>4, <2>5
  <1> QED BY <1>2 DEF Registered, InSlot

LEMMA OthersHold ==
  ASSUME NEW m \in Managed, leased' = leased \/ leased' = Released(m), NEW z \in Slot, z # SlotOf(m)
  PROVE  SameLeases(z)
  BY DEF SameLeases, Released

-----------------------------------------------------------------------------
(* Each action keeps what it does not race with                             *)

LEMMA LaunchKeeps ==
  ASSUME SupervisorInv, NEW m \in Managed, PortBusy(m) \/ Answers(m) \/ LoopEnds(m) \/ ProxyFails(m)
  PROVE  Kept
  <1> DEFINE s == SlotOf(m)
  <1>1. /\ UNCHANGED <<current, starts, planning, managed, process, exiting, stops, leased, raced>>
        /\ \/ launch[m] = "lease" /\ SearchPort(m, probing[m])
           \/ launch' = [launch EXCEPT ![m] = "none"]
           \/ launch[m] = "ready" /\ launch' = [launch EXCEPT ![m] = "proxy"]
    BY DEF PortBusy, Answers, LoopEnds, ProxyFails
  <1>2. TypeOK
    BY DEF SupervisorInv, BaseInv
  <1>3. /\ \A k \in Managed \ {m} : launch'[k] = launch[k]
        /\ \/ launch'[m] = "none"
           \/ launch[m] = "lease" /\ launch'[m] = "lease"
           \/ launch[m] = "ready" /\ launch'[m] = "proxy"
    <2>1. CASE launch[m] = "lease" /\ SearchPort(m, probing[m])
      BY <1>2, <2>1, Searches
    <2>2. CASE \/ launch' = [launch EXCEPT ![m] = "none"]
               \/ launch[m] = "ready" /\ launch' = [launch EXCEPT ![m] = "proxy"]
      BY <1>2, <2>2 DEF TypeOK
    <2> QED BY <1>1, <2>1, <2>2
  <1>4. \A k \in Managed \ {m} : Same(k)
    BY <1>1, <1>3 DEF Same
  <1>5. s \in Slot /\ m \in InSlot(s) /\ InSlot(s) \subseteq Managed
    BY Numbers DEF InSlot
  <1>6. ASSUME s \notin raced'
        PROVE  /\ Sound(m)' /\ Registered(s)'
               /\ \A st \in stops' : SlotOf(st.m) = s => Ends(st)'
    <2>1. Orderly(s) /\ Sound(m)
      BY <1>1, <1>5, <1>6 DEF SupervisorInv, Orderly
    <2>5. managed[m].state \in States
      BY <1>2 DEF TypeOK, Record
    <2>2. Sound(m)'
      BY <1>1, <1>3, <2>1, <2>5 DEF Sound, Says, Left, IsCurrent, Current, AtRest, States
    <2>3. Registered(s)'
      BY <1>1, <1>5, <2>1, HeldOn
    <2>4. \A st \in stops' : SlotOf(st.m) = s => Ends(st)'
      BY <1>1, <2>1 DEF Orderly, Ends
    <2> QED BY <2>2, <2>3, <2>4
  <1>7. \A z \in Slot : SameLeases(z)
    BY <1>1 DEF SameLeases
  <1> QED BY <1>1, <1>4, <1>5, <1>6, <1>7, TouchKeeps

\* What a spawned or failed child makes of its record.
LEMMA SpawnsTo ==
  ASSUME TypeOK, NEW m \in Managed, NEW record \in Record, NEW leases, Spawn(m, record, leases)
  PROVE  /\ managed'[m].stopping = record.stopping /\ managed'[m].proxy = record.proxy
         /\ \/ /\ process'[m] = "alive" /\ managed'[m].child /\ managed'[m].lease = record.lease
               /\ leased' = leases
               /\ SlotOf(m) \in Serve => /\ managed'[m].state = record.state
                                         /\ record.state = "STARTING" => launch'[m] = "ready"
               /\ SlotOf(m) \notin Serve => managed'[m].state = "RUNNING" /\ launch'[m] = launch[m]
            \/ /\ process'[m] = process[m] /\ launch'[m] = "none" /\ managed'[m].state = "CRASHED"
               /\ ~managed'[m].child /\ managed'[m].lease = 0 /\ ~managed'[m].timer
               /\ leased' = leases \ {[port |-> record.lease, owner |-> SlotOf(m)]}
  <1> DEFINE born == [record EXCEPT !.child = TRUE, !.timer = TRUE]
             runs == [born EXCEPT !.state = "RUNNING", !.was = TRUE]
             failed == [record EXCEPT !.state = "CRASHED", !.child = FALSE, !.lease = 0, !.timer = FALSE]
  <1>1. /\ born.stopping = record.stopping /\ born.proxy = record.proxy /\ born.lease = record.lease
        /\ born.child = TRUE /\ born.state = record.state
        /\ runs.stopping = record.stopping /\ runs.proxy = record.proxy /\ runs.lease = record.lease
        /\ runs.child = TRUE /\ runs.state = "RUNNING"
        /\ failed.stopping = record.stopping /\ failed.proxy = record.proxy /\ failed.lease = 0
        /\ failed.child = FALSE /\ failed.timer = FALSE /\ failed.state = "CRASHED"
    BY DEF Record
  <1> HIDE DEF born, runs, failed
  <1>2. CASE /\ process' = [process EXCEPT ![m] = "alive"]
             /\ IF SlotOf(m) \in Serve
                THEN /\ managed' = [managed EXCEPT ![m] = born]
                     /\ launch' = [launch EXCEPT ![m] = IF record.state = "STARTING" THEN "ready" ELSE "none"]
                ELSE managed' = [managed EXCEPT ![m] = runs] /\ UNCHANGED launch
             /\ leased' = leases
    BY <1>1, <1>2 DEF TypeOK
  <1>3. CASE /\ managed' = [managed EXCEPT ![m] = failed]
             /\ leased' = leases \ {[port |-> record.lease, owner |-> SlotOf(m)]}
             /\ launch' = [launch EXCEPT ![m] = "none"]
             /\ UNCHANGED process
    BY <1>1, <1>3 DEF TypeOK
  <1> QED BY <1>2, <1>3 DEF Spawn, born, runs, failed

LEMMA PortFreeKeeps ==
  ASSUME SupervisorInv, NEW m \in Managed, PortFree(m)
  PROVE  Kept
  <1> DEFINE s == SlotOf(m)
             p == probing[m]
             record == [managed[m] EXCEPT !.lease = p]
  <1>1. s \in Slot /\ m \in InSlot(s) /\ InSlot(s) \subseteq Managed
    BY Numbers DEF InSlot
  <1>2. launch[m] = "lease" /\ s \in Serve /\ p \in Port /\ TypeOK /\ managed[m] \in Record
    BY DEF PortFree, SupervisorInv, BaseInv, Working, TypeOK
  <1>3. /\ record \in Record /\ record.state = managed[m].state /\ record.stopping = managed[m].stopping
        /\ record.proxy = managed[m].proxy /\ record.lease = p
    BY <1>2 DEF Record
  <1>4. /\ Spawn(m, record, Taken(m, p)) /\ UNCHANGED <<current, starts, planning, exiting, stops>>
        /\ raced \subseteq raced' /\ {l.owner : l \in {k \in leased : k.port = p}} \subseteq raced'
        /\ s \notin raced' => managed[m].state = "STARTING" /\ \A l \in leased : l.port # p
    BY DEF PortFree
  <1>5. Taken(m, p) \in SUBSET [port : Port, owner : Slot]
    BY <1>1, <1>2 DEF Taken, TypeOK
  <1> HIDE DEF p, record
  <1>6. \A k \in Managed \ {m} : Same(k)
    <2>1. \A k \in Managed \ {m} :
            managed'[k] = managed[k] /\ process'[k] = process[k] /\ launch'[k] = launch[k]
      BY <1>2, <1>3, <1>4, <1>5, Spawns
    <2> QED BY <1>4, <2>1 DEF Same
  <1>7. leased' = Taken(m, p) \/ leased' = Taken(m, p) \ {[port |-> p, owner |-> s]}
    BY <1>3, <1>4 DEF Spawn
  <1>8. ASSUME NEW z \in Slot \ raced', z # s
        PROVE  SameLeases(z)
    <2>1. [port |-> p, owner |-> z] \notin leased
      BY <1>4, <1>8
    <2>2. \A q \in Port : [port |-> q, owner |-> z] \in leased' <=> [port |-> q, owner |-> z] \in leased /\ q # p
      BY <1>7, <1>8 DEF Taken
    <2> QED BY <2>1, <2>2 DEF SameLeases
  <1>9. ASSUME s \notin raced'
        PROVE  /\ Sound(m)' /\ Registered(s)' /\ ~managed'[m].stopping
               /\ managed[m].state \notin AtRest
               /\ \A st \in stops' : SlotOf(st.m) = s => st \in stops /\ st.m # m
    <2>1. Orderly(s) /\ Sound(m) /\ managed[m].state = "STARTING" /\ \A l \in leased : l.port # p
      BY <1>1, <1>4, <1>9 DEF SupervisorInv, Orderly
    <2>2. /\ Left(m) /\ ~managed[m].stopping /\ exiting[m] = "none" /\ process[m] # "killed" /\ IsCurrent(m)
      BY <1>2, <2>1 DEF Sound, Says, AtRest
    <2>3. /\ ~managed'[m].stopping /\ ~managed'[m].proxy
          /\ \/ /\ process'[m] = "alive" /\ managed'[m].child /\ managed'[m].lease = p
                /\ leased' = Taken(m, p)
                /\ managed'[m].state = "STARTING" /\ launch'[m] = "ready"
             \/ /\ process'[m] = process[m] /\ launch'[m] = "none" /\ managed'[m].state = "CRASHED"
                /\ ~managed'[m].child /\ managed'[m].lease = 0 /\ ~managed'[m].timer
                /\ leased' = Taken(m, p) \ {[port |-> p, owner |-> s]}
      BY <1>2, <1>3, <1>4, <2>1, <2>2, SpawnsTo DEF Left
    <2>4. Sound(m)'
      BY <1>4, <2>1, <2>2, <2>3 DEF Sound, Says, Left, AtRest, IsCurrent, Current
    <2>5. \A k \in InSlot(s) : managed[k].lease = 0
      BY <1>1, <2>1, <2>2, OnlyCurrent DEF Left, AtRest
    <2>6. \A q \in Port : [port |-> q, owner |-> s] \notin leased
      BY <2>1, <2>5, PortAssumption DEF Orderly, Registered
    <2>7. ASSUME NEW q \in Port
          PROVE  [port |-> q, owner |-> s] \in leased' <=> q = managed'[m].lease
      <3>1. [port |-> q, owner |-> s] \in Taken(m, p) <=> q = p
        BY <2>6 DEF Taken
      <3>2. q # 0
        BY PortAssumption
      <3>3. CASE managed'[m].lease = p /\ leased' = Taken(m, p)
        BY <3>1, <3>3
      <3>4. CASE managed'[m].lease = 0 /\ leased' = Taken(m, p) \ {[port |-> p, owner |-> s]}
        BY <3>1, <3>2, <3>4
      <3> QED BY <2>3, <3>3, <3>4
    <2>8. \A k \in InSlot(s) \ {m} : managed'[k].lease = 0
      BY <1>1, <1>6, <2>5 DEF Same
    <2>9. Registered(s)'
      BY <1>1, <2>7, <2>8, PortAssumption DEF Registered, InSlot
    <2>10. \A st \in stops' : SlotOf(st.m) = s => st \in stops /\ st.m # m
      BY <1>4, <2>1, <2>2 DEF Orderly, Ends
    <2> QED BY <2>1, <2>2, <2>3, <2>4, <2>9, <2>10 DEF AtRest
  <1> QED BY <1>1, <1>4, <1>6, <1>8, <1>9, TouchKeeps

LEMMA ProxyListensKeeps ==
  ASSUME SupervisorInv, NEW m \in Managed, ProxyListens(m)
  PROVE  Kept
  <1> DEFINE s == SlotOf(m)
             record == [managed[m] EXCEPT !.proxy = TRUE, !.was = TRUE, !.timer = FALSE, !.state = "RUNNING"]
  <1>1. s \in Slot /\ m \in InSlot(s) /\ InSlot(s) \subseteq Managed
    BY Numbers DEF InSlot
  <1>2. TypeOK /\ managed[m] \in Record /\ launch[m] = "proxy"
    BY DEF SupervisorInv, BaseInv, TypeOK, ProxyListens
  <1>3. /\ record.state = "RUNNING" /\ record.proxy = TRUE /\ record.stopping = managed[m].stopping
        /\ record.child = managed[m].child /\ record.lease = managed[m].lease
    BY <1>2 DEF Record
  <1>4. /\ launch' = [launch EXCEPT ![m] = "none"] /\ managed' = [managed EXCEPT ![m] = record]
        /\ UNCHANGED <<current, starts, planning, process, exiting, stops, leased>>
        /\ raced \subseteq raced' /\ (s \notin raced' => managed[m].state = "STARTING")
    BY DEF ProxyListens
  <1> HIDE DEF record
  <1>5. /\ launch'[m] = "none" /\ managed'[m] = record
        /\ \A k \in Managed \ {m} : Same(k)
    BY <1>2, <1>4 DEF TypeOK, Same
  <1>6. ASSUME s \notin raced'
        PROVE  /\ Sound(m)' /\ Registered(s)' /\ managed'[m].stopping = managed[m].stopping
               /\ managed[m].state \notin AtRest
               /\ \A st \in stops' : SlotOf(st.m) = s => st \in stops /\ st.m # m
    <2>1. Orderly(s) /\ Sound(m) /\ managed[m].state = "STARTING"
      BY <1>1, <1>4, <1>6 DEF SupervisorInv, Orderly
    <2>2. /\ ~managed[m].stopping /\ exiting[m] = "none" /\ process[m] = "alive" /\ managed[m].child
          /\ IsCurrent(m)
      BY <1>2, <2>1 DEF Sound, Says, AtRest
    <2>3. Sound(m)'
      BY <1>3, <1>4, <1>5, <2>1, <2>2 DEF Sound, Says, AtRest, IsCurrent, Current
    <2>4. \A k \in InSlot(s) : managed'[k].lease = managed[k].lease
      BY <1>1, <1>3, <1>5 DEF Same
    <2>5. Registered(s)'
      BY <1>1, <1>4, <2>1, <2>4, HeldOn
    <2>6. \A st \in stops' : SlotOf(st.m) = s => st \in stops /\ st.m # m
      BY <1>4, <2>1, <2>2 DEF Orderly, Ends
    <2> QED BY <1>3, <1>5, <2>1, <2>3, <2>5, <2>6 DEF AtRest
  <1>7. \A z \in Slot : SameLeases(z)
    BY <1>4 DEF SameLeases
  <1> QED BY <1>1, <1>4, <1>5, <1>6, <1>7, TouchKeeps

LEMMA HealthChangesKeeps ==
  ASSUME SupervisorInv, NEW m \in Managed, HealthChanges(m)
  PROVE  Kept
  <1> DEFINE s == SlotOf(m)
  <1>1. s \in Slot /\ m \in InSlot(s) /\ InSlot(s) \subseteq Managed
    BY Numbers DEF InSlot
  <1>2. PICK state \in {"RUNNING", "DEGRADED"} : managed' = [managed EXCEPT ![m].state = state]
    BY DEF HealthChanges
  <1>3. /\ UNCHANGED <<current, starts, planning, process, launch, exiting, stops, leased, raced>>
        /\ managed[m].state \in {"RUNNING", "DEGRADED"}
    BY DEF HealthChanges, activities
  <1>4. managed[m] \in Record /\ TypeOK
    BY DEF SupervisorInv, BaseInv, TypeOK
  <1> DEFINE record == [managed[m] EXCEPT !.state = state]
  <1>5. /\ record.state = state /\ record.proxy = managed[m].proxy /\ record.stopping = managed[m].stopping
        /\ record.child = managed[m].child /\ record.lease = managed[m].lease
    BY <1>4 DEF Record
  <1>6. managed'[m] = record /\ \A k \in Managed \ {m} : Same(k)
    BY <1>2, <1>3, <1>4 DEF TypeOK, Same
  <1> HIDE DEF record
  <1>7. ASSUME s \notin raced'
        PROVE  /\ Sound(m)' /\ Registered(s)'
               /\ \A st \in stops' : SlotOf(st.m) = s => st \in stops /\ st.m # m
    <2>1. Orderly(s) /\ Sound(m)
      BY <1>1, <1>3, <1>7 DEF SupervisorInv, Orderly
    <2>2. Sound(m)' /\ ~managed[m].stopping
      BY <1>2, <1>3, <1>5, <1>6, <2>1 DEF Sound, Says, AtRest, IsCurrent, Current
    <2>3. \A k \in InSlot(s) : managed'[k].lease = managed[k].lease
      BY <1>1, <1>5, <1>6 DEF Same
    <2>4. Registered(s)'
      BY <1>1, <1>3, <2>1, <2>3, HeldOn
    <2>5. \A st \in stops' : SlotOf(st.m) = s => st \in stops /\ st.m # m
      BY <1>3, <2>1, <2>2 DEF Orderly, Ends
    <2> QED BY <2>2, <2>4, <2>5
  <1>8. \A z \in Slot : SameLeases(z)
    BY <1>3 DEF SameLeases
  <1>9. managed'[m].stopping = managed[m].stopping /\ managed[m].state \notin AtRest
    BY <1>3, <1>5, <1>6 DEF AtRest
  <1> QED BY <1>1, <1>3, <1>6, <1>7, <1>8, <1>9, TouchKeeps

\* A record that stop() is done with.
LEMMA FinishedSound ==
  ASSUME TypeOK, NEW m \in Managed, NEW T \in SUBSET Managed, FinishStop(m, T),
         process'[m] # "alive", exiting'[m] # "closing", process'[m] = "killed" \/ process'[m] = "none",
         ~(m[2] > starts'[SlotOf(m)])
  PROVE  Sound(m)'
  <1>1. /\ managed'[m].state \in AtRest /\ managed'[m].stopping
        /\ ~managed'[m].child /\ managed'[m].lease = 0 /\ ~managed'[m].proxy /\ ~managed'[m].timer
    BY Finishes
  <1> QED BY <1>1 DEF Sound, Says, Left, AtRest, SlotOf

LEMMA BeginStopKeeps ==
  ASSUME SupervisorInv, NEW s \in Slot, current[s] # 0, NEW T \in SUBSET InSlot(s),
         NEW c \in Managed, c = Current(s),
         s \notin raced => T \subseteq {c},
         BeginStop(c, T),
         UNCHANGED <<current, starts, planning, launch, probing, exiting, answered, starved, raced>>
  PROVE  Kept
  <1>1. /\ c \in InSlot(s) /\ SlotOf(c) = s /\ IsCurrent(c) /\ T \in SUBSET Managed
        /\ InSlot(s) \subseteq Managed
        /\ ~(c[2] > starts[s])
    BY CurrentIn, Numbers DEF SupervisorInv, InSlot
  <1>2. /\ TypeOK /\ managed[c] \in Record /\ process[c] \in {"none", "alive", "killed"}
        /\ exiting[c] \in {"none", "closing", "backoff"}
    BY <1>1 DEF SupervisorInv, BaseInv, TypeOK
  <1>3. \/ /\ managed[c].child /\ process[c] # "none" /\ Waits(c, T, "killing")
           /\ process' = [process EXCEPT ![c] = "killed"]
        \/ /\ ~(managed[c].child /\ process[c] # "none") /\ managed[c].proxy
           /\ Waits(c, T, "closing") /\ process' = process
        \/ /\ ~(managed[c].child /\ process[c] # "none") /\ ~managed[c].proxy
           /\ FinishStop(c, T) /\ stops' = stops /\ process' = process
    BY <1>1, <1>2, Begins
  <1>4. /\ \A k \in Managed \ (T \cup {c}) : managed'[k] = managed[k]
        /\ \A k \in Managed \ {c} : process'[k] = process[k]
        /\ leased' = leased \/ leased' = Released(c)
    BY <1>1, <1>2, <1>3, Finishes DEF Waits, TypeOK
  <1>5. \A k \in Managed \ (T \cup {c}) : Same(k)
    BY <1>4 DEF Same
  <1>6. \A k \in Managed : SlotOf(k) # s => Same(k)
    BY <1>1, <1>5, Numbers
  <1>7. \A st \in stops' : SlotOf(st.m) # s => st \in stops
    BY <1>1, <1>3 DEF Waits
  <1>8. \A z \in Slot : z # s => SameLeases(z)
    BY <1>1, <1>4, OthersHold
  <1>9. ASSUME s \notin raced'
        PROVE  /\ \A k \in InSlot(s) \ {c} : Same(k)
               /\ Sound(c)' /\ Registered(s)'
               /\ managed[c].state \in AtRest => managed'[c].state \in AtRest
               /\ \A st \in stops' : SlotOf(st.m) = s => (st \in stops /\ st.m # c) \/ Ends(st)'
    <2>1. Orderly(s) /\ Sound(c) /\ T \subseteq {c} /\ managed[c].state \in States
      BY <1>1, <1>2, <1>9 DEF SupervisorInv, Orderly, Record
    <2>2. \A k \in InSlot(s) \ {c} : Same(k)
      BY <1>1, <1>5, <2>1
    <2>3. CASE Waits(c, T, "killing") /\ managed[c].child /\ process[c] # "none" /\ process'[c] = "killed"
      <3>1. managed[c].state \notin AtRest /\ launch[c] # "lease" /\ exiting[c] = "none"
        BY <1>2, <2>1, <2>3 DEF Sound, Says, Left, AtRest, States
      <3>2. managed'[c].state = "STOPPING" /\ managed'[c].stopping
        BY <2>3 DEF Waits
      <3>3. Sound(c)'
        BY <1>1, <2>1, <2>3, <3>1, <3>2 DEF Sound, Says, AtRest, IsCurrent, Current
      <3>4. \A st \in stops' : SlotOf(st.m) = s => (st \in stops /\ st.m # c) \/ Ends(st)'
        <4>1. ASSUME NEW st \in stops', st \notin stops
              PROVE  Ends(st)'
          BY <2>1, <2>3, <3>1, <3>2, <4>1 DEF Waits, Ends
        <4>2. ASSUME NEW st \in stops, st.m = c
              PROVE  Ends(st)'
          BY <1>1, <2>1, <3>1, <3>2, <4>2 DEF Orderly, Ends
        <4> QED BY <4>1, <4>2
      <3>5. Registered(s)'
        BY <1>1, <2>1, <2>3, HeldOn DEF Waits
      <3> QED BY <2>2, <3>1, <3>3, <3>4, <3>5
    <2>4. CASE Waits(c, T, "closing") /\ ~(managed[c].child /\ process[c] # "none") /\ managed[c].proxy /\ process' = process
      <3>1. managed[c].state \notin AtRest /\ launch[c] # "lease" /\ exiting[c] # "backoff" /\ process[c] # "alive"
        BY <1>2, <2>1, <2>4 DEF Sound, Says, Left, AtRest, States
      <3>2. managed'[c].state = "STOPPING" /\ managed'[c].stopping /\ managed'[c].proxy
        BY <1>1, <2>4 DEF Waits
      <3>3. Sound(c)'
        BY <1>1, <2>1, <2>4, <3>1, <3>2 DEF Sound, Says, AtRest, IsCurrent, Current
      <3>4. \A st \in stops' : SlotOf(st.m) = s => (st \in stops /\ st.m # c) \/ Ends(st)'
        <4>1. ASSUME NEW st \in stops', st \notin stops
              PROVE  Ends(st)'
          BY <2>1, <2>4, <3>1, <3>2, <4>1 DEF Waits, Ends
        <4>2. ASSUME NEW st \in stops, st.m = c
              PROVE  Ends(st)'
          BY <1>1, <2>1, <3>1, <3>2, <4>2 DEF Orderly, Ends
        <4> QED BY <4>1, <4>2
      <3>5. Registered(s)'
        BY <1>1, <2>1, <2>4, HeldOn DEF Waits
      <3> QED BY <2>2, <3>1, <3>3, <3>4, <3>5
    <2>5. CASE /\ ~(managed[c].child /\ process[c] # "none") /\ ~managed[c].proxy
               /\ FinishStop(c, T) /\ stops' = stops /\ process' = process
      <3>1. process[c] # "alive" /\ exiting[c] # "closing"
        BY <1>2, <2>1, <2>5 DEF Sound, Says, Left, AtRest, States
      <3>2. managed'[c].state \in AtRest /\ managed'[c].stopping /\ managed'[c].lease = 0 /\ leased' = Released(c)
        BY <1>1, <1>2, <2>5, Finishes
      <3>3. Sound(c)'
        BY <1>1, <1>2, <2>5, <3>1, FinishedSound
      <3>4. \A st \in stops' : SlotOf(st.m) = s => (st \in stops /\ st.m # c) \/ Ends(st)'
        BY <1>1, <2>1, <2>5, <3>2 DEF Orderly, Ends
      <3>5. Registered(s)'
        BY <1>1, <2>1, <2>2, <3>2, GivenBack DEF Same
      <3> QED BY <2>2, <3>2, <3>3, <3>4, <3>5
    <2> QED BY <1>1, <1>2, <1>3, <2>3, <2>4, <2>5 DEF TypeOK
  <1> QED BY <1>1, <1>6, <1>7, <1>8, <1>9, TouchKeeps

LEMMA StopKeeps ==
  ASSUME SupervisorInv, NEW s \in Slot, Stop(s)
  PROVE  Kept
  <1>1. current[s] # 0 /\ BeginStop(Current(s), {})
        /\ UNCHANGED <<current, starts, planning, launch, probing, exiting, answered, starved, raced>>
    BY DEF Stop
  <1>2. Current(s) \in Managed
    BY <1>1, CurrentIn DEF SupervisorInv
  <1> QED BY <1>1, <1>2, BeginStopKeeps

\* A timer that is armed belongs to the record in the slot.
LEMMA TimerFiresKeeps ==
  ASSUME SupervisorInv, NEW m \in Managed, TimerFires(m)
  PROVE  Kept
  <1> DEFINE s == SlotOf(m)
  <1>1. s \in Slot /\ m \in InSlot(s) /\ InSlot(s) \subseteq Managed /\ current[s] # 0
    BY Numbers, LaunchedCurrent DEF InSlot, TimerFires, SupervisorInv
  <1>2. TypeOK /\ managed[m] \in Record
    BY DEF SupervisorInv, BaseInv, TypeOK
  <1>3. s \notin raced => /\ Orderly(s) /\ Sound(m) /\ managed[m].state \notin AtRest
                          /\ IsCurrent(m) /\ m = Current(s)
    <2> HAVE s \notin raced
    <2>1. Orderly(s) /\ Sound(m)
      BY <1>1 DEF SupervisorInv, Orderly
    <2>2. managed[m].state \notin AtRest
      BY <2>1, AtRestSays DEF Sound, Left, TimerFires
    <2> QED BY <2>1, <2>2 DEF Sound, IsCurrent
  <1>4. CASE BeginStop(Current(s), {m})
    <2>1. UNCHANGED <<current, starts, planning, launch, probing, exiting, answered, starved, raced>>
      BY DEF TimerFires
    <2>2. Current(s) \in Managed
      BY <1>1, CurrentIn DEF SupervisorInv
    <2>3. {m} \in SUBSET InSlot(s) /\ (s \notin raced => {m} \subseteq {Current(s)})
      BY <1>1, <1>3
    <2> HIDE DEF s
    <2>4. BeginStop(Current(s), {m}) /\ s \in Slot /\ current[s] # 0
      BY <1>1, <1>4 DEF s
    <2> QED BY <2>1, <2>2, <2>3, <2>4, BeginStopKeeps
  <1>5. CASE /\ \/ managed' = [managed EXCEPT ![m].timer = FALSE]
                \/ /\ managed[Current(s)].state = "STOPPED"
                   /\ managed' = [managed EXCEPT ![m] = [@ EXCEPT !.timer = FALSE, !.state = "CRASHED"]]
             /\ UNCHANGED <<process, stops, stopped, leased>>
    <2>1. UNCHANGED <<current, starts, planning, launch, exiting, raced>>
      BY DEF TimerFires
    <2>2. \A k \in Managed \ {m} : Same(k)
      BY <1>2, <1>5, <2>1 DEF Same, TypeOK
    <2>3. ASSUME s \notin raced'
          PROVE  /\ Sound(m)' /\ Registered(s)' /\ managed[m].state \notin AtRest
                 /\ managed'[m].stopping = managed[m].stopping
                 /\ \A st \in stops' : SlotOf(st.m) = s => Ends(st)'
      <3>1. Orderly(s) /\ Sound(m) /\ managed[m].state \notin AtRest /\ m = Current(s)
        BY <1>3, <2>1, <2>3
      <3> DEFINE off == [managed[m] EXCEPT !.timer = FALSE]
      <3>2. managed' = [managed EXCEPT ![m] = off]
        BY <1>5, <3>1 DEF AtRest
      <3>3. /\ off.state = managed[m].state /\ off.stopping = managed[m].stopping
            /\ off.child = managed[m].child /\ off.lease = managed[m].lease /\ off.proxy = managed[m].proxy
            /\ off.timer = FALSE
        BY <1>2 DEF Record
      <3> HIDE DEF off
      <3>4. managed'[m] = off
        BY <1>2, <3>2 DEF TypeOK
      <3>5. managed[m].state \in States
        BY <1>2 DEF Record
      <3>6. Sound(m)'
        BY <1>5, <2>1, <3>1, <3>3, <3>4, <3>5 DEF Sound, Says, Left, AtRest, States, IsCurrent, Current
      <3>7. Registered(s)'
        <4>1. \A k \in InSlot(s) : managed'[k].lease = managed[k].lease
          BY <1>1, <2>2, <3>3, <3>4 DEF Same
        <4> QED BY <1>1, <1>5, <3>1, <4>1, HeldOn
      <3>8. ASSUME NEW st \in stops', SlotOf(st.m) = s
            PROVE  Ends(st)'
        <4>1. Ends(st) /\ st.m \in Managed
          BY <1>2, <1>5, <3>1, <3>8 DEF Orderly, TypeOK
        <4> QED BY <2>1, <2>2, <3>3, <3>4, <4>1 DEF Ends, Same
      <3> QED BY <3>1, <3>3, <3>4, <3>6, <3>7, <3>8
    <2>4. \A z \in Slot : SameLeases(z)
      BY <1>5 DEF SameLeases
    <2> QED BY <1>1, <1>5, <2>1, <2>2, <2>3, <2>4, TouchKeeps
  <1> QED BY <1>4, <1>5 DEF TimerFires

LEMMA StopReturnsKeeps ==
  ASSUME SupervisorInv, NEW st \in stops, KillReturns(st) \/ CloseReturns(st)
  PROVE  Kept
  <1> DEFINE m == st.m
             s == SlotOf(m)
  <1>1. /\ m \in Managed /\ st.timedOut \in SUBSET Managed /\ TypeOK /\ st.timedOut \subseteq InSlot(s)
        /\ st.at \in {"killing", "closing"}
        /\ managed[m].state \in States /\ process[m] \in {"none", "alive", "killed"}
    BY DEF SupervisorInv, BaseInv, TypeOK, Working, Record
  <1>2. s \in Slot /\ m \in InSlot(s) /\ InSlot(s) \subseteq Managed
    BY <1>1, Numbers DEF InSlot
  <1>3. /\ UNCHANGED <<current, starts, planning, process, launch, exiting, raced>>
        /\ \/ /\ stops' = (stops \ {st}) \cup {[st EXCEPT !.at = "closing"]}
              /\ UNCHANGED <<managed, leased>>
           \/ /\ stops' = stops \ {st} /\ FinishStop(m, st.timedOut)
              /\ st.at = "killing" \/ exiting[m] # "closing"
    BY DEF KillReturns, CloseReturns
  <1>4. LET r == [st EXCEPT !.at = "closing"] IN r.m = m /\ r.timedOut = st.timedOut /\ r.at = "closing"
    BY <1>1 DEF SupervisorInv, BaseInv, TypeOK
  <1> HIDE DEF m
  <1>5. CASE /\ stops' = (stops \ {st}) \cup {[st EXCEPT !.at = "closing"]}
             /\ UNCHANGED <<managed, leased>>
    <2>1. \A k \in Managed : Same(k)
      BY <1>3, <1>5 DEF Same
    <2>2. ASSUME s \notin raced'
          PROVE  /\ Sound(m)' /\ Registered(s)'
                 /\ \A r \in stops' : SlotOf(r.m) = s => Ends(r)'
      <3>1. Orderly(s) /\ Sound(m)
        BY <1>2, <1>3, <2>2 DEF SupervisorInv, Orderly
      <3>2. Sound(m)'
        BY <1>1, <1>3, <2>1, <3>1, SameSound
      <3>3. Registered(s)'
        BY <1>2, <1>5, <3>1, HeldOn
      <3>4. \A r \in stops' : SlotOf(r.m) = s => Ends(r)'
        BY <1>3, <1>4, <1>5, <3>1 DEF Orderly, Ends, m
      <3> QED BY <3>2, <3>3, <3>4
    <2>3. \A z \in Slot : SameLeases(z)
      BY <1>5 DEF SameLeases
    <2> QED BY <1>1, <1>2, <1>3, <1>4, <1>5, <2>1, <2>2, <2>3, TouchKeeps
  <1>6. CASE /\ stops' = stops \ {st} /\ FinishStop(m, st.timedOut)
             /\ st.at = "killing" \/ exiting[m] # "closing"
    <2>1. /\ managed'[m].state \in AtRest /\ managed'[m].stopping /\ managed'[m].lease = 0
          /\ leased' = Released(m)
          /\ \A k \in Managed \ (st.timedOut \cup {m}) : managed'[k] = managed[k]
      BY <1>1, <1>6, Finishes
    <2>2. \A k \in Managed \ (st.timedOut \cup {m}) : Same(k)
      BY <1>3, <2>1 DEF Same
    <2>3. \A k \in Managed : SlotOf(k) # s => Same(k)
      BY <1>1, <1>2, <2>2, Numbers
    <2>4. ASSUME s \notin raced'
          PROVE  /\ \A k \in InSlot(s) \ {m} : Same(k)
                 /\ Sound(m)' /\ Registered(s)' /\ managed[m].stopping
                 /\ \A r \in stops' : SlotOf(r.m) = s => (r \in stops /\ r.m # m) \/ Ends(r)'
      <3>1. Orderly(s) /\ Sound(m) /\ Ends(st)
        BY <1>2, <1>3, <2>4 DEF SupervisorInv, Orderly, m
      <3>2. managed[m].stopping /\ st.timedOut \subseteq {m} /\ exiting[m] # "closing"
        BY <1>6, <3>1 DEF Ends, m
      <3>3. process[m] # "alive" /\ ~(m[2] > starts[s])
        BY <1>1, <3>1, <3>2 DEF Sound, Says, Left, AtRest, States
      <3>4. Sound(m)'
        BY <1>1, <1>3, <1>6, <3>2, <3>3, FinishedSound
      <3>5. \A k \in InSlot(s) \ {m} : Same(k)
        BY <1>2, <2>2, <3>2
      <3>6. Registered(s)'
        BY <1>2, <2>1, <3>1, <3>5, GivenBack DEF Same
      <3>7. \A r \in stops' : SlotOf(r.m) = s => (r \in stops /\ r.m # m) \/ Ends(r)'
        BY <1>3, <1>6, <2>1, <3>1 DEF Orderly, Ends
      <3> QED BY <3>2, <3>4, <3>5, <3>6, <3>7
    <2>5. \A z \in Slot : z # s => SameLeases(z)
      BY <1>1, <2>1, OthersHold
    <2> QED BY <1>1, <1>2, <1>3, <1>6, <2>1, <2>3, <2>4, <2>5, TouchKeeps
  <1> QED BY <1>3, <1>5, <1>6

LEMMA ExitsKeeps ==
  ASSUME SupervisorInv, NEW m \in Managed, Exits(m) \/ ProxyCloses(m)
  PROVE  Kept
  <1> DEFINE s == SlotOf(m)
  <1>1. s \in Slot /\ m \in InSlot(s) /\ InSlot(s) \subseteq Managed
    BY Numbers DEF InSlot
  <1>2. /\ TypeOK /\ managed[m] \in Record /\ managed[m].state \in States
        /\ process[m] \in {"none", "alive", "killed"} /\ exiting[m] \in {"none", "closing", "backoff"}
    BY DEF SupervisorInv, BaseInv, TypeOK, Record
  <1>3. /\ UNCHANGED <<current, starts, planning, launch, stops, raced>>
        /\ \/ process' = [process EXCEPT ![m] = "none"] /\ process[m] # "none"
           \/ process' = process /\ exiting[m] = "closing"
    BY DEF Exits, ProxyCloses
  <1>4. /\ process'[m] = "none" \/ (process' = process /\ exiting[m] = "closing")
        /\ \A k \in Managed \ {m} : process'[k] = process[k]
    BY <1>2, <1>3 DEF TypeOK
  <1>5. CASE /\ managed[m].stopping /\ UNCHANGED <<managed, exiting, leased>>
             /\ process'[m] = "none" /\ process[m] # "none"
    <2>1. \A k \in Managed \ {m} : Same(k)
      BY <1>3, <1>4, <1>5 DEF Same
    <2>2. ASSUME s \notin raced'
          PROVE  /\ Sound(m)' /\ Registered(s)'
                 /\ \A st \in stops' : SlotOf(st.m) = s => Ends(st)'
      <3>1. Orderly(s) /\ Sound(m)
        BY <1>1, <1>3, <2>2 DEF SupervisorInv, Orderly
      <3>2. Sound(m)'
        BY <1>2, <1>3, <1>5, <3>1 DEF Sound, Says, Left, AtRest, States, IsCurrent, Current
      <3>3. Registered(s)'
        BY <1>1, <1>5, <3>1, HeldOn
      <3>4. \A st \in stops' : SlotOf(st.m) = s => Ends(st)'
        BY <1>3, <1>5, <3>1 DEF Orderly, Ends
      <3> QED BY <3>2, <3>3, <3>4
    <2>3. \A z \in Slot : SameLeases(z)
      BY <1>5 DEF SameLeases
    <2> QED BY <1>1, <1>3, <1>5, <2>1, <2>2, <2>3, TouchKeeps
  <1>6. CASE /\ ~managed[m].stopping /\ managed[m].proxy
             /\ managed' = [managed EXCEPT ![m].timer = FALSE]
             /\ exiting' = [exiting EXCEPT ![m] = "closing"] /\ leased' = leased
             /\ process'[m] = "none" /\ process[m] # "none"
    <2> DEFINE off == [managed[m] EXCEPT !.timer = FALSE]
    <2>1. /\ off.state = managed[m].state /\ off.stopping = managed[m].stopping
          /\ off.child = managed[m].child /\ off.lease = managed[m].lease /\ off.proxy = managed[m].proxy
          /\ off.timer = FALSE
      BY <1>2 DEF Record
    <2>2. managed' = [managed EXCEPT ![m] = off]
      BY <1>6
    <2> HIDE DEF off
    <2>3. /\ managed'[m] = off /\ exiting'[m] = "closing"
          /\ \A k \in Managed \ {m} : Same(k)
      BY <1>2, <1>3, <1>4, <1>6, <2>2 DEF TypeOK, Same
    <2>4. ASSUME s \notin raced'
          PROVE  /\ Sound(m)' /\ Registered(s)' /\ managed[m].state \notin AtRest
                 /\ \A st \in stops' : SlotOf(st.m) = s => st \in stops /\ st.m # m
      <3>1. Orderly(s) /\ Sound(m)
        BY <1>1, <1>3, <2>4 DEF SupervisorInv, Orderly
      <3>2. managed[m].state \in {"RUNNING", "DEGRADED"}
        BY <1>2, <1>6, <3>1 DEF Sound, Says, Left, AtRest, States
      <3>3. Sound(m)'
        BY <1>2, <1>3, <1>6, <2>1, <2>3, <3>1, <3>2 DEF Sound, Says, AtRest, IsCurrent, Current
      <3>4. \A k \in InSlot(s) : managed'[k].lease = managed[k].lease
        BY <1>1, <2>1, <2>3 DEF Same
      <3>5. Registered(s)'
        BY <1>1, <1>6, <3>1, <3>4, HeldOn
      <3>6. \A st \in stops' : SlotOf(st.m) = s => st \in stops /\ st.m # m
        BY <1>3, <1>6, <3>1 DEF Orderly, Ends
      <3> QED BY <3>2, <3>3, <3>5, <3>6 DEF AtRest
    <2>5. \A z \in Slot : SameLeases(z)
      BY <1>6 DEF SameLeases
    <2>6. ~managed'[m].stopping
      BY <1>6, <2>1, <2>3
    <2> QED BY <1>1, <1>3, <2>3, <2>4, <2>5, <2>6, TouchKeeps
  <1>7. CASE /\ ExitSettles(m)
             /\ \/ ~managed[m].stopping /\ ~managed[m].proxy /\ process'[m] = "none" /\ process[m] # "none"
                \/ exiting[m] = "closing" /\ process' = process
    <2>1. /\ leased' = Released(m) /\ \A k \in Managed \ {m} : managed'[k] = managed[k] /\ exiting'[k] = exiting[k]
          /\ managed'[m].stopping = managed[m].stopping
          /\ ~managed'[m].child /\ managed'[m].lease = 0 /\ ~managed'[m].proxy /\ ~managed'[m].timer
          /\ \/ managed'[m].state \in AtRest /\ exiting'[m] = "none"
             \/ managed'[m].state = "RESTARTING" /\ exiting'[m] = "backoff"
      BY <1>2, <1>7, Settles
    <2>2. \A k \in Managed \ {m} : Same(k)
      BY <1>3, <1>4, <2>1 DEF Same
    <2>3. ASSUME s \notin raced'
          PROVE  /\ Sound(m)' /\ Registered(s)' /\ managed[m].state \notin AtRest
                 /\ \A st \in stops' : SlotOf(st.m) = s => (st \in stops /\ st.m # m) \/ Ends(st)'
      <3>1. Orderly(s) /\ Sound(m)
        BY <1>1, <1>3, <2>3 DEF SupervisorInv, Orderly
      <3>2. managed[m].state \notin AtRest /\ launch[m] # "lease"
        BY <1>2, <1>7, <3>1 DEF Sound, Says, Left, AtRest, States
      <3>3. process'[m] = "none" /\ IsCurrent(m)
        BY <1>7, <3>1, <3>2 DEF Sound
      <3>4. Sound(m)'
        BY <1>3, <2>1, <3>1, <3>2, <3>3 DEF Sound, Says, Left, AtRest, IsCurrent, Current
      <3>5. Registered(s)'
        BY <1>1, <2>1, <2>2, <3>1, GivenBack DEF Same
      <3>6. \A st \in stops' : SlotOf(st.m) = s => (st \in stops /\ st.m # m) \/ Ends(st)'
        BY <1>3, <2>1, <3>1 DEF Orderly, Ends
      <3> QED BY <3>2, <3>4, <3>5, <3>6
    <2>4. \A z \in Slot : z # s => SameLeases(z)
      BY <2>1, OthersHold
    <2> QED BY <1>1, <1>3, <2>1, <2>2, <2>3, <2>4, TouchKeeps
  <1>8. CASE Exits(m)
    <2>1. process'[m] = "none" /\ process[m] # "none"
      BY <1>2, <1>8 DEF Exits, TypeOK
    <2> QED BY <1>5, <1>6, <1>7, <1>8, <2>1 DEF Exits
  <1> QED BY <1>7, <1>8 DEF ProxyCloses

LEMMA BackoffEndsKeeps ==
  ASSUME SupervisorInv, NEW m \in Managed, BackoffEnds(m)
  PROVE  Kept
  <1> DEFINE s == SlotOf(m)
  <1>1. s \in Slot /\ m \in InSlot(s) /\ InSlot(s) \subseteq Managed
    BY Numbers DEF InSlot
  <1>2. TypeOK /\ managed[m] \in Record /\ managed[m].state \in States
    BY DEF SupervisorInv, BaseInv, TypeOK, Record
  <1>3. /\ exiting[m] = "backoff" /\ exiting' = [exiting EXCEPT ![m] = "none"]
        /\ UNCHANGED <<current, starts, planning, process, stops, leased, raced>>
    BY DEF BackoffEnds
  <1>4. exiting'[m] = "none" /\ \A k \in Managed \ {m} : exiting'[k] = exiting[k]
    BY <1>2, <1>3 DEF TypeOK
  <1>5. \A z \in Slot : SameLeases(z)
    BY <1>3 DEF SameLeases
  <1>6. CASE (managed[m].stopping \/ ~IsCurrent(m)) /\ UNCHANGED <<managed, launch>>
    <2>1. \A k \in Managed \ {m} : Same(k)
      BY <1>3, <1>4, <1>6 DEF Same
    <2>2. ASSUME s \notin raced'
          PROVE  /\ Sound(m)' /\ Registered(s)'
                 /\ \A st \in stops' : SlotOf(st.m) = s => Ends(st)'
      <3>1. Orderly(s) /\ Sound(m)
        BY <1>1, <1>3, <2>2 DEF SupervisorInv, Orderly
      <3>2. Sound(m)'
        BY <1>2, <1>3, <1>4, <1>6, <3>1 DEF Sound, Says, Left, AtRest, States, IsCurrent, Current
      <3>3. Registered(s)'
        BY <1>1, <1>3, <1>6, <3>1, HeldOn
      <3>4. ASSUME NEW st \in stops', SlotOf(st.m) = s
            PROVE  Ends(st)'
        <4>1. Ends(st) /\ st.m \in Managed
          BY <1>2, <1>3, <3>1, <3>4 DEF Orderly, TypeOK
        <4> QED BY <1>4, <1>6, <4>1 DEF Ends
      <3> QED BY <3>2, <3>3, <3>4
    <2> QED BY <1>1, <1>3, <1>5, <1>6, <2>1, <2>2, TouchKeeps
  <1>7. CASE /\ ~managed[m].stopping /\ IsCurrent(m) /\ SearchPort(m, 0)
             /\ managed' = [managed EXCEPT ![m] = [@ EXCEPT !.state = "STARTING", !.was = FALSE]]
    <2> DEFINE again == [managed[m] EXCEPT !.state = "STARTING", !.was = FALSE]
    <2>1. /\ again.state = "STARTING" /\ again.stopping = managed[m].stopping
          /\ again.child = managed[m].child /\ again.lease = managed[m].lease
          /\ again.proxy = managed[m].proxy /\ again.timer = managed[m].timer
      BY <1>2 DEF Record
    <2>2. managed' = [managed EXCEPT ![m] = again]
      BY <1>7
    <2> HIDE DEF again
    <2>3. launch'[m] \in {"none", "lease"} /\ \A k \in Managed \ {m} : launch'[k] = launch[k]
      BY <1>2, <1>7, Searches
    <2>4. managed'[m] = again /\ \A k \in Managed \ {m} : Same(k)
      BY <1>2, <1>3, <1>4, <2>2, <2>3 DEF TypeOK, Same
    <2>5. ASSUME s \notin raced'
          PROVE  /\ Sound(m)' /\ Registered(s)' /\ managed[m].state \notin AtRest
                 /\ \A st \in stops' : SlotOf(st.m) = s => st \in stops /\ st.m # m
      <3>1. Orderly(s) /\ Sound(m)
        BY <1>1, <1>3, <2>5 DEF SupervisorInv, Orderly
      <3>2. managed[m].state = "RESTARTING" /\ Left(m)
        BY <1>2, <1>3, <1>7, <3>1 DEF Sound, Says, AtRest, States
      <3>3. Sound(m)'
        BY <1>3, <1>4, <1>7, <2>1, <2>3, <2>4, <3>1, <3>2 DEF Sound, Says, Left, AtRest, IsCurrent, Current
      <3>4. \A k \in InSlot(s) : managed'[k].lease = managed[k].lease
        BY <1>1, <2>1, <2>4 DEF Same
      <3>5. Registered(s)'
        BY <1>1, <1>3, <3>1, <3>4, HeldOn
      <3>6. \A st \in stops' : SlotOf(st.m) = s => st \in stops /\ st.m # m
        BY <1>3, <1>7, <3>1 DEF Orderly, Ends
      <3> QED BY <3>2, <3>3, <3>5, <3>6 DEF AtRest
    <2>6. ~managed'[m].stopping
      BY <1>7, <2>1, <2>4
    <2> QED BY <1>1, <1>3, <1>5, <2>4, <2>5, <2>6, TouchKeeps
  <1> QED BY <1>6, <1>7 DEF BackoffEnds

LEMMA StartKeeps ==
  ASSUME SupervisorInv, NEW s \in Slot, Start(s)
  PROVE  Kept
  <1> DEFINE new == [slot |-> s, n |-> starts[s] + 1, existing |-> current[s]]
  <1>1. /\ UNCHANGED <<current, managed, process, launch, exiting, stops, leased, raced>>
        /\ starts' = [starts EXCEPT ![s] = starts[s] + 1] /\ planning' = planning \cup {new}
        /\ starts[s] < MaxStarts[s] /\ starts \in [Slot -> Nat] /\ MaxStarts[s] \in Nat
        /\ current[s] # 0 => managed[Current(s)].state \in AtRest
    BY BoundAssumption DEF Start, SupervisorInv, BaseInv, TypeOK, AtRest
  <1>2. \A k \in Managed : Same(k)
    BY <1>1 DEF Same
  <1>3. \A z \in Slot : SameLeases(z)
    BY <1>1 DEF SameLeases
  <1>4. ASSUME NEW z \in Slot \ raced'
        PROVE  Orderly(z)' /\ Stays(z)
    <2>1. BaseInv /\ Orderly(z)
      BY <1>1, <1>4 DEF SupervisorInv
    <2>2. CASE z # s
      BY <1>1, <1>2, <1>3, <2>1, <2>2, Numbers, SlotKept
    <2>3. CASE z = s
      <3>1. starts'[s] = starts[s] + 1
        BY <1>1
      <3>2. ASSUME NEW k \in InSlot(s)
            PROVE  Sound(k)'
        <4>1. Sound(k) /\ SlotOf(k) = s /\ k \in Managed /\ k[2] \in 1..MaxStarts[s]
          BY <2>1, <2>3, <3>2, Numbers DEF Orderly
        <4>2. k[2] > starts'[s] => k[2] > starts[s]
          BY <1>1, <3>1, <4>1
        <4>3. managed[k].state \in States
          BY <2>1, <4>1 DEF BaseInv, TypeOK, Record
        <4> QED BY <1>1, <4>1, <4>2, <4>3 DEF Sound, Says, Left, AtRest, States, IsCurrent, Current
      <3>3. ASSUME NEW p \in planning', p.slot = s
            PROVE  Awaits(p)'
        <4>1. CASE p \in planning
          BY <1>1, <2>1, <2>3, <3>3, <4>1 DEF Orderly, Awaits, Current, AtRest
        <4>2. CASE p = new
          <5>1. starts[s] + 1 \in 1..MaxStarts[s]
            BY <1>1
          <5>2. <<s, starts[s] + 1>> \in InSlot(s) /\ SlotOf(<<s, starts[s] + 1>>) = s
            BY <5>1, Numbers
          <5>3. ~managed[<<s, starts[s] + 1>>].stopping
            BY <1>1, <2>1, <2>3, <5>2 DEF Orderly, Sound
          <5> QED BY <1>1, <4>2, <5>3 DEF Awaits, Current, AtRest
        <4> QED BY <1>1, <4>1, <4>2
      <3>4. \A st \in stops' : SlotOf(st.m) = s => Ends(st)'
        BY <1>1, <2>1, <2>3 DEF Orderly, Ends
      <3>5. Registered(s)'
        BY <1>1, <2>1, <2>3, HeldOn
      <3>6. Stays(s)
        BY <1>1 DEF Stays
      <3> QED BY <2>3, <3>2, <3>3, <3>4, <3>5, <3>6 DEF Orderly, InSlot
    <2> QED BY <2>2, <2>3
  <1> QED BY <1>1, <1>4 DEF Kept

LEMMA PlanFailsKeeps ==
  ASSUME SupervisorInv, NEW p \in planning, PlanFails(p)
  PROVE  Kept
  <1>1. /\ UNCHANGED <<current, starts, managed, process, launch, exiting, stops, leased, raced>>
        /\ planning' = planning \ {p}
    BY DEF PlanFails
  <1>2. \A k \in Managed : Same(k)
    BY <1>1 DEF Same
  <1>3. \A z \in Slot : SameLeases(z)
    BY <1>1 DEF SameLeases
  <1>4. ASSUME NEW z \in Slot \ raced'
        PROVE  Orderly(z)' /\ Stays(z)
    BY <1>1, <1>2, <1>3, Numbers, SlotKept DEF SupervisorInv
  <1> QED BY <1>1, <1>4 DEF Kept

\* The plan of a start that nobody overtook finds its slot at rest.
LEMMA PlannedKeeps ==
  ASSUME SupervisorInv, NEW p \in planning, Planned(p)
  PROVE  Kept
  <1> DEFINE s == p.slot
             m == <<p.slot, p.n>>
             recent == IF p.existing = 0 THEN 0 ELSE managed[<<p.slot, p.existing>>].recent
             record == [New EXCEPT !.state = "STARTING", !.recent = recent]
  <1>1. /\ s \in Slot /\ m \in InSlot(s) /\ m \in Managed /\ SlotOf(m) = s /\ ~IsCurrent(m)
        /\ InSlot(s) \subseteq Managed /\ p.n # current[s] /\ p.n \in 1..starts[s] /\ starts[s] \in Nat
        /\ p.existing \in 0..starts[s]
        /\ \A q \in planning : q.slot = s => q.existing # p.n /\ (q.n = p.n => q = p)
    BY PlannedIn, Numbers, BoundAssumption DEF SupervisorInv, BaseInv, Numbered, InSlot
  <1>2. TypeOK /\ BaseInv
    BY DEF SupervisorInv, BaseInv
  <1>3. /\ current' = [current EXCEPT ![s] = p.n] /\ planning' = planning \ {p}
        /\ UNCHANGED <<starts, exiting, stops>>
        /\ raced \subseteq raced' /\ (s \notin raced' => current[s] = p.existing)
        /\ \/ /\ s \in Serve /\ managed' = [managed EXCEPT ![m] = record] /\ SearchPort(m, 0)
              /\ UNCHANGED <<process, leased>>
           \/ s \notin Serve /\ Spawn(m, record, leased)
    BY DEF Planned
  <1>4. /\ record.state = "STARTING" /\ record.stopping = FALSE /\ record.child = FALSE
        /\ record.lease = 0 /\ record.proxy = FALSE /\ record.timer = FALSE /\ record \in Record
    <2>1. recent \in 0..MaxRestarts
      <3>1. CASE p.existing = 0
        BY <3>1, BoundAssumption
      <3>2. CASE p.existing # 0
        <4>1. p.existing \in 1..MaxStarts[s]
          <5>1. starts[s] \in 0..MaxStarts[s] /\ MaxStarts[s] \in Nat
            BY <1>1, <1>2, BoundAssumption DEF BaseInv, Numbered
          <5> QED BY <1>1, <3>2, <5>1
        <4>2. managed[<<s, p.existing>>] \in Record
          BY <1>1, <1>2, <4>1, Numbers DEF TypeOK
        <4> QED BY <3>2, <4>2 DEF Record
      <3> QED BY <3>1, <3>2
    <2> HIDE DEF recent
    <2> QED BY <2>1, BoundAssumption DEF New, Record, States
  <1> HIDE DEF m, record
  <1>6. /\ \A k \in Managed \ {m} : Same(k)
        /\ \/ /\ s \in Serve /\ managed'[m] = record /\ process'[m] = process[m]
              /\ launch'[m] \in {"none", "lease"}
              /\ leased' = leased
           \/ /\ s \notin Serve /\ ~managed'[m].stopping /\ ~managed'[m].proxy
              /\ managed'[m].lease = 0
              /\ \/ /\ process'[m] = "alive" /\ managed'[m].child /\ managed'[m].state = "RUNNING"
                    /\ launch'[m] = launch[m]
                 \/ /\ process'[m] = process[m] /\ launch'[m] = "none" /\ managed'[m].state = "CRASHED"
                    /\ ~managed'[m].child /\ ~managed'[m].timer
              /\ leased' = leased \/ leased' = leased \ {[port |-> 0, owner |-> s]}
    <2>1. CASE s \in Serve
      <3>1. managed'[m] = record /\ \A k \in Managed \ {m} : managed'[k] = managed[k]
        BY <1>1, <1>2, <1>3, <2>1 DEF TypeOK
      <3>2. launch'[m] \in {"none", "lease"} /\ \A k \in Managed \ {m} : launch'[k] = launch[k]
        BY <1>1, <1>2, <1>3, <2>1, Searches
      <3> QED BY <1>3, <2>1, <3>1, <3>2 DEF Same
    <2>2. CASE s \notin Serve
      <3>1. Spawn(m, record, leased) /\ leased \in SUBSET [port : Port, owner : Slot]
        BY <1>2, <1>3, <2>2 DEF TypeOK
      <3>2. launch[m] = "none"
        BY <1>1, <1>2, <2>2 DEF BaseInv, Working
      <3>3. \A k \in Managed \ {m} : managed'[k] = managed[k] /\ process'[k] = process[k] /\ launch'[k] = launch[k]
        BY <1>1, <1>2, <1>4, <3>1, <3>2, Spawns
      <3>4. /\ managed'[m].stopping = record.stopping /\ managed'[m].proxy = record.proxy
            /\ \/ /\ process'[m] = "alive" /\ managed'[m].child /\ managed'[m].lease = record.lease
                  /\ leased' = leased
                  /\ managed'[m].state = "RUNNING" /\ launch'[m] = launch[m]
               \/ /\ process'[m] = process[m] /\ launch'[m] = "none" /\ managed'[m].state = "CRASHED"
                  /\ ~managed'[m].child /\ managed'[m].lease = 0 /\ ~managed'[m].timer
                  /\ leased' = leased \ {[port |-> record.lease, owner |-> SlotOf(m)]}
        BY <1>1, <1>2, <1>4, <2>2, <3>1, SpawnsTo
      <3> QED BY <1>1, <1>3, <1>4, <2>2, <3>3, <3>4 DEF Same
    <2> QED BY <2>1, <2>2
  <1>7. \A z \in Slot : SameLeases(z)
    BY <1>6, PortAssumption DEF SameLeases
  <1>8. ASSUME NEW z \in Slot \ raced', z # s
        PROVE  Orderly(z)' /\ Stays(z)
    <2>1. Orderly(z) /\ \A k \in InSlot(z) : Same(k)
      BY <1>1, <1>3, <1>6, <1>8, Numbers DEF SupervisorInv
    <2>2. current'[z] = current[z] /\ starts'[z] = starts[z]
      BY <1>2, <1>3, <1>8 DEF TypeOK
    <2> QED BY <1>2, <1>3, <1>7, <2>1, <2>2, SlotKept
  <1>9. ASSUME s \notin raced'
        PROVE  Orderly(s)' /\ Stays(s)
    <2>1. Orderly(s) /\ current[s] = p.existing /\ current'[s] = p.n
      BY <1>1, <1>2, <1>3, <1>9 DEF SupervisorInv, TypeOK
    <2>2. Awaits(p) /\ Sound(m)
      BY <1>1, <2>1 DEF Orderly
    <2>3. \A k \in InSlot(s) : managed[k].state \in AtRest
      <3>1. p.existing # 0 => managed[Current(s)].state \in AtRest
        BY <2>1, <2>2 DEF Awaits
      <3>2. ASSUME NEW k \in InSlot(s), IsCurrent(k)
            PROVE  p.existing # 0
        <4>1. k[2] \in 1..MaxStarts[s] /\ k = Current(s)
          BY <1>1, <3>2, Numbers DEF IsCurrent
        <4> QED BY <2>1, <4>1 DEF Current
      <3>3. ASSUME NEW k \in InSlot(s)
            PROVE  managed[k].state \in AtRest
        <4>1. Sound(k) /\ SlotOf(k) = s
          BY <2>1 DEF Orderly, InSlot
        <4>2. CASE IsCurrent(k)
          BY <3>1, <3>2, <4>1, <4>2 DEF IsCurrent
        <4>3. CASE ~IsCurrent(k)
          BY <4>1, <4>3 DEF Sound
        <4> QED BY <4>2, <4>3
      <3> QED BY <3>3
    <2>4. /\ Left(m) /\ exiting[m] = "none" /\ process[m] # "killed" /\ ~managed[m].stopping
      <3>1. ~managed[m].stopping
        BY <2>2 DEF Awaits, m
      <3>2. Left(m) /\ exiting[m] # "backoff"
        BY <1>1, <2>2, <2>3, <3>1, AtRestSays DEF Sound
      <3> QED BY <1>1, <1>2, <2>2, <3>1, <3>2 DEF Sound, Left, TypeOK
    <2>5. IsCurrent(m)' /\ ~(m[2] > starts[s])
      BY <1>1, <2>1 DEF IsCurrent, Current, SlotOf, m
    <2>6. Sound(m)'
      <3>1. CASE s \in Serve
        BY <1>1, <1>3, <1>4, <1>6, <2>4, <2>5, <3>1 DEF Sound, Says, Left, AtRest
      <3>2. CASE s \notin Serve
        <4>1. launch[m] = "none"
          BY <1>1, <1>2, <3>2 DEF BaseInv, Working
        <4> QED BY <1>1, <1>3, <1>6, <2>4, <2>5, <3>2, <4>1 DEF Sound, Says, Left, AtRest
      <3> QED BY <3>1, <3>2
    <2>7. ASSUME NEW k \in InSlot(s) \ {m}
          PROVE  Sound(k)'
      <3>1. Sound(k) /\ Same(k) /\ managed[k].state \in AtRest /\ SlotOf(k) = s /\ k \in Managed
        BY <1>1, <1>6, <2>1, <2>3, <2>7 DEF Orderly, InSlot
      <3>2. Says(k)'
        BY <3>1 DEF Sound, Says, Left, AtRest, Same
      <3> QED BY <1>3, <3>1, <3>2 DEF Sound, Same, AtRest, SlotOf
    <2>8. ASSUME NEW q \in planning', q.slot = s
          PROVE  Awaits(q)'
      <3>1. q \in planning /\ q # p /\ q.n # p.n /\ q.existing # p.n
        BY <1>1, <1>3, <2>8
      <3>2. Awaits(q) /\ <<s, q.n>> \in Managed \ {m}
        BY <2>1, <2>8, <3>1, PlannedIn, <1>2 DEF Orderly, m
      <3>3. ~managed'[<<s, q.n>>].stopping
        BY <1>6, <2>8, <3>2 DEF Awaits, Same
      <3> QED BY <2>1, <2>8, <3>1, <3>3 DEF Awaits
    <2>9. ASSUME NEW st \in stops', SlotOf(st.m) = s
          PROVE  Ends(st)'
      <3>1. Ends(st) /\ st.m \in Managed
        BY <1>2, <1>3, <2>1, <2>9 DEF Orderly, TypeOK
      <3>2. st.m # m
        BY <2>4, <3>1 DEF Ends
      <3> QED BY <1>6, <3>1, <3>2 DEF Ends, Same
    <2>10. Registered(s)'
      <3>1. \A k \in InSlot(s) : managed[k].lease = 0
        BY <2>1, <2>3, AtRestSays DEF Orderly, Sound, Left
      <3>2. \A k \in InSlot(s) : managed'[k].lease = 0
        BY <1>1, <1>4, <1>6, <3>1 DEF Same
      <3> QED BY <1>1, <1>7, <2>1, <3>1, <3>2, PortAssumption DEF Orderly, Registered, SameLeases, InSlot
    <2>11. Stays(s)
      <3>1. \A k \in InSlot(s) \ {m} : managed'[k] = managed[k]
        BY <1>1, <1>6 DEF Same
      <3> QED BY <2>4, <3>1 DEF Stays
    <2> QED BY <2>6, <2>7, <2>8, <2>9, <2>10, <2>11 DEF Orderly, InSlot
  <1> QED BY <1>1, <1>3, <1>8, <1>9 DEF Kept

-----------------------------------------------------------------------------
(* The theorems                                                             *)

LEMMA StepKeeps ==
  ASSUME SupervisorInv, Next
  PROVE  Kept
  <1>1. CASE \E s \in Slot : Start(s) \/ Stop(s)
    BY <1>1, StartKeeps, StopKeeps
  <1>2. CASE \E p \in planning : PlanFails(p) \/ Planned(p)
    BY <1>2, PlanFailsKeeps, PlannedKeeps
  <1>3. CASE \E m \in Managed : Launching(m) \/ Readying(m) \/ Proxying(m)
    BY <1>3, LaunchKeeps, PortFreeKeeps, ProxyListensKeeps DEF Launching, Readying, Proxying
  <1>4. CASE \E m \in Managed : HealthChanges(m) \/ TimerFires(m)
    BY <1>4, HealthChangesKeeps, TimerFiresKeeps
  <1>5. CASE \E m \in Managed : Exits(m) \/ ProxyCloses(m) \/ BackoffEnds(m)
    BY <1>5, ExitsKeeps, BackoffEndsKeeps
  <1>6. CASE \E st \in stops : KillReturns(st) \/ CloseReturns(st)
    BY <1>6, StopReturnsKeeps
  <1> QED BY <1>1, <1>2, <1>3, <1>4, <1>5, <1>6 DEF Next

LEMMA InvStarts == Init => SupervisorInv
  <1> SUFFICES ASSUME Init PROVE SupervisorInv
    OBVIOUS
  <1>1. New.state = "STOPPED" /\ ~New.stopping /\ ~New.child /\ New.lease = 0 /\ ~New.proxy /\ ~New.timer
    BY DEF New
  <1>2. \A m \in Managed : /\ managed[m] = New /\ process[m] = "none" /\ launch[m] = "none"
                           /\ exiting[m] = "none"
    BY DEF Init
  <1>3. \A m \in Managed : Sound(m)
    BY <1>1, <1>2 DEF Sound, Says, Left, AtRest
  <1>4. \A s \in Slot : Orderly(s)
    BY <1>1, <1>2, <1>3, PortAssumption, Numbers DEF Orderly, Registered, Init
  <1> QED BY <1>4, BaseStarts DEF SupervisorInv

LEMMA InvStep == SupervisorInv /\ [Next]_vars => SupervisorInv'
  <1> SUFFICES ASSUME SupervisorInv, [Next]_vars PROVE SupervisorInv'
    OBVIOUS
  <1>1. BaseInv'
    BY BaseStep DEF SupervisorInv
  <1>2. CASE Next
    <2>1. \A s \in Slot \ raced' : Orderly(s)'
      BY <1>2, StepKeeps DEF Kept
    <2> QED BY <1>1, <2>1 DEF SupervisorInv
  <1>3. CASE UNCHANGED vars
    <2>1. ASSUME NEW s \in Slot \ raced'
          PROVE  Orderly(s)'
      <3>1. BaseInv /\ Orderly(s) /\ \A k \in InSlot(s) : Same(k)
        BY <1>3 DEF SupervisorInv, vars, activities, Same
      <3> QED BY <1>3, <3>1, SlotKept DEF vars, activities, SameLeases
    <2> QED BY <1>1, <2>1 DEF SupervisorInv
  <1> QED BY <1>2, <1>3

\* The invariant of the supervisor holds: records are numbered apart, and in a
\* slot where nothing raced every record's state is true of its process, its
\* port and the code that works on it (supervisor.ts).
THEOREM SupervisorInvHolds == Spec => []SupervisorInv
  <1>1. Init => SupervisorInv
    BY InvStarts
  <1>2. SupervisorInv /\ [Next]_vars => SupervisorInv'
    BY InvStep
  <1> QED BY <1>1, <1>2, PTL DEF Spec

\* Every variable has its type, whatever races with whatever.
THEOREM TypeOKHolds == Spec => []TypeOK
  <1>1. SupervisorInv => TypeOK
    BY DEF SupervisorInv, BaseInv
  <1> QED BY <1>1, SupervisorInvHolds, PTL

\* A live process belongs to the record in its slot, which says that it runs,
\* and a record that says so has one (launch, stop, onExit).
THEOREM SupervisedHolds == Spec => []Supervised
  <1>1. ASSUME SupervisorInv
        PROVE  Supervised
    <2> SUFFICES ASSUME NEW s \in Slot \ raced, NEW m \in InSlot(s)
                 PROVE  /\ process[m] = "alive" =>
                             /\ IsCurrent(m) /\ managed[m].child
                             /\ managed[m].state \in {"STARTING", "RUNNING", "DEGRADED"}
                        /\ managed[m].state \in {"RUNNING", "DEGRADED"} =>
                             process[m] = "alive" \/ exiting[m] = "closing"
      BY DEF Supervised
    <2>1. Sound(m) /\ managed[m].state \in States
      BY <1>1 DEF SupervisorInv, BaseInv, TypeOK, Orderly, Record, InSlot
    <2> QED BY <2>1 DEF Sound, Says, Left, AtRest, States
  <1> QED BY <1>1, SupervisorInvHolds, PTL

\* The registry holds the ports that the records hold, and none for a phase at
\* rest (lease, teardown, fail).
THEOREM LeasesAreHeldHolds == Spec => []LeasesAreHeld
  <1>1. ASSUME SupervisorInv
        PROVE  LeasesAreHeld
    <2> SUFFICES ASSUME NEW s \in Slot \ raced
                 PROVE  /\ {l.port : l \in {k \in leased : k.owner = s}} =
                             {managed[m].lease : m \in InSlot(s)} \ {0}
                        /\ \A m \in InSlot(s) : managed[m].state \in {"STOPPED", "CRASHED", "RESTARTING"} =>
                             managed[m].lease = 0
      BY DEF LeasesAreHeld
    <2>1. Orderly(s) /\ TypeOK
      BY <1>1 DEF SupervisorInv, BaseInv
    <2>2. ASSUME NEW p
          PROVE  p \in {l.port : l \in {k \in leased : k.owner = s}} <=>
                   p \in Port /\ [port |-> p, owner |-> s] \in leased
      BY <2>1 DEF TypeOK
    <2>3. ASSUME NEW p
          PROVE  p \in {managed[m].lease : m \in InSlot(s)} \ {0} <=>
                   p \in Port /\ \E m \in InSlot(s) : managed[m].lease = p
      BY <2>1, PortAssumption DEF TypeOK, Record, InSlot
    <2>4. \A p \in Port : [port |-> p, owner |-> s] \in leased <=> \E m \in InSlot(s) : managed[m].lease = p
      BY <2>1 DEF Orderly, Registered
    <2>5. ASSUME NEW m \in InSlot(s), managed[m].state \in {"STOPPED", "CRASHED", "RESTARTING"}
          PROVE  managed[m].lease = 0
      BY <2>1, <2>5 DEF Orderly, Sound, Says, Left, AtRest
    <2> QED BY <2>2, <2>3, <2>4, <2>5
  <1> QED BY <1>1, SupervisorInvHolds, PTL

\* A start that stop() has ended stays ended, unless its launch comes back from
\* the wait for a port after the stop and spawns (the checks of stopping in
\* launch and onExit).
THEOREM StopIsFinalHolds == Spec => StopIsFinal
  <1>1. ASSUME SupervisorInv, SupervisorInv', [Next]_vars
        PROVE  [\A m \in Managed :
                  managed[m].stopping /\ managed[m].state = "STOPPED" /\ SlotOf(m) \notin raced' =>
                    managed'[m].state \in {"STOPPED", "CRASHED"} /\ process'[m] # "alive"]_vars
    <2> SUFFICES ASSUME Next, NEW m \in Managed,
                        managed[m].stopping, managed[m].state = "STOPPED", SlotOf(m) \notin raced'
                 PROVE  managed'[m].state \in {"STOPPED", "CRASHED"} /\ process'[m] # "alive"
      BY <1>1
    <2>1. m \in InSlot(SlotOf(m)) /\ SlotOf(m) \in Slot
      BY Numbers
    <2>2. Orderly(SlotOf(m))' /\ Stays(SlotOf(m))
      BY <1>1, <2>1, StepKeeps DEF Kept
    <2>3. managed'[m].state \in {"STOPPED", "CRASHED"}
      BY <2>1, <2>2 DEF Stays, AtRest
    <2>4. Sound(m)'
      BY <2>1, <2>2 DEF Orderly, InSlot
    <2> QED BY <2>3, <2>4 DEF Sound, Says, Left, AtRest
  <1> QED BY <1>1, SupervisorInvHolds, PTL DEF Spec, StopIsFinal

\* Only a process that has answered is restarted (onExit's wasRunning).
THEOREM RestartsAreEarnedHolds == Spec => RestartsAreEarned
  <1>1. ASSUME SupervisorInv, [Next]_vars
        PROVE  [\A m \in Managed : exiting'[m] = "backoff" /\ exiting[m] # "backoff" => m \in answered]_vars
    <2> SUFFICES ASSUME Next, NEW k \in Managed, exiting'[k] = "backoff", exiting[k] # "backoff"
                 PROVE  k \in answered
      BY <1>1
    <2>1. TypeOK /\ Working
      BY <1>1 DEF SupervisorInv, BaseInv
    <2>2. CASE \E m \in Managed : ExitSettles(m)
      <3>1. PICK m \in Managed : ExitSettles(m)
        BY <2>2
      <3>2. k = m /\ SlotOf(m) \in Serve /\ managed[m].was
        BY <2>1, <3>1, Settles DEF AtRest
      <3> QED BY <2>1, <3>2 DEF Working
    <2>3. CASE exiting' = exiting
      BY <2>3
    <2>4. CASE \E m \in Managed, to \in {"none", "closing"} : exiting' = [exiting EXCEPT ![m] = to]
      BY <2>1, <2>4 DEF TypeOK
    <2>5. \/ exiting' = exiting
          \/ \E m \in Managed : ExitSettles(m)
          \/ \E m \in Managed, to \in {"none", "closing"} : exiting' = [exiting EXCEPT ![m] = to]
      <3>1. \A s \in Slot : Start(s) \/ Stop(s) => exiting' = exiting
        BY DEF Start, Stop
      <3>2. \A p \in planning : PlanFails(p) \/ Planned(p) => exiting' = exiting
        BY DEF PlanFails, Planned
      <3>3. \A m \in Managed : Launching(m) \/ Readying(m) \/ Proxying(m) => exiting' = exiting
        BY DEF Launching, Readying, Proxying, PortBusy, PortFree, Answers, LoopEnds, ProxyListens, ProxyFails
      <3>4. \A m \in Managed : HealthChanges(m) \/ TimerFires(m) => exiting' = exiting
        BY DEF HealthChanges, TimerFires, activities
      <3>5. \A m \in Managed : Exits(m) =>
              ExitSettles(m) \/ exiting' = exiting \/ exiting' = [exiting EXCEPT ![m] = "closing"]
        BY DEF Exits
      <3>6. \A m \in Managed : ProxyCloses(m) => ExitSettles(m)
        BY DEF ProxyCloses
      <3>7. \A m \in Managed : BackoffEnds(m) => exiting' = [exiting EXCEPT ![m] = "none"]
        BY DEF BackoffEnds
      <3>8. \A st \in stops : KillReturns(st) \/ CloseReturns(st) => exiting' = exiting
        BY DEF KillReturns, CloseReturns
      <3> QED BY <3>1, <3>2, <3>3, <3>4, <3>5, <3>6, <3>7, <3>8 DEF Next
    <2> QED BY <2>2, <2>3, <2>4, <2>5
  <1> QED BY <1>1, SupervisorInvHolds, PTL DEF Spec, RestartsAreEarned
====
