--------------------------- MODULE ProbeScheduler ---------------------------
(***************************************************************************)
(* The probe scheduler of the prober: internal/monitor/monitor.go with the *)
(* recorders it reports to (postgres_metrics.go, prometheus_metrics.go).   *)
(*                                                                         *)
(* Run rereads services and domains and starts or cancels one goroutine a  *)
(* target.  A cancelled goroutine goes on until its select, so a target    *)
(* that comes back may have an old and a new one.  Times are left out: a   *)
(* timer may fire at any step.  Only Run touches the map of loops, so what *)
(* it does to it between two of its queries is one step.                   *)
(***************************************************************************)
EXTENDS Integers, FiniteSets, FiniteSetsExt

CONSTANTS
  Services,   \* service ids
  DomainIds,  \* ids that service_domains may give out
  Owner,      \* the service of each domain id
  Cdns,       \* hosts a service may have as its primary or backup CDN
  Registered, \* service_domains at the start
  Configured, \* the CDNs of each service at the start
  Direct,     \* the label of the probe of the domain itself
  Malformed,  \* CDN hosts that no URL can be built from
  Down,       \* CDN hosts that fail, or answer 500 and above
  Slots,      \* bound on the goroutines of one target, the cancelled included
  MaxFaults, MaxEdits,  \* bounds on failures and on control-plane edits
  NULL

ASSUME ConstantsAssumption ==
  /\ Services \subseteq Nat
  /\ Owner \in [DomainIds -> Services]
  /\ Slots \subseteq Nat
  /\ Registered \subseteq DomainIds
  /\ Configured \in [Services -> SUBSET Cdns]
  /\ Direct \notin Cdns
  /\ NULL \notin Slots

VARIABLES
  live,      \* services whose deleted_at is NULL
  domains,   \* ids of service_domains; a deleted id never returns
  unused,    \* ids not given out yet
  routes,    \* the CDNs of each service, as primary or as backup
  pc,        \* where Run is in its loop
  todo,      \* services of the round still to be read, with their CDNs
  active,    \* keys of the round
  loops,     \* Scheduler.loops: the goroutine whose cancel each key holds
  at,        \* where each goroutine is in probeLoop
  cancelled, \* goroutines whose own context is cancelled
  done,      \* the context of the process is cancelled
  failures,  \* targets with a row in probe_samples that is not ok
  faults, edits,
  gone       \* history: targets that were not wanted at some time in the round

tables == <<live, domains, unused, routes>>
run    == <<pc, todo, active, loops>>
probes == <<at, cancelled>>
vars   == <<tables, run, probes, done, failures, faults, edits, gone>>

-----------------------------------------------------------------------------
(* Targets                                                                 *)

Labels == {Direct} \cup Cdns

\* probeTarget.key: the service follows from the domain's id.
Keys == DomainIds \X Labels

Goroutines == Keys \X Slots

KeysOf(s) == {k \in Keys : Owner[k[1]] = s}

\* targetsForService: the domain itself, and each CDN a URL can be built from.
Targets(s, R) ==
  {k \in KeysOf(s) : k[1] \in domains /\ k[2] \in {Direct} \cup (R \ Malformed)}

\* The targets that the tables ask for.
Wanted == UNION {Targets(s, routes[s]) : s \in live}

\* A goroutine's context is a child of the process's.
Cancelled(g) == done \/ g \in cancelled

-----------------------------------------------------------------------------
Init ==
  /\ live = Services
  /\ domains = Registered
  /\ unused = DomainIds \ domains
  /\ routes = Configured
  /\ pc = "list"
  /\ todo = [s \in {} |-> {}]
  /\ active = {}
  /\ loops = [k \in Keys |-> NULL]
  /\ at = [g \in Goroutines |-> "none"]
  /\ cancelled = {}
  /\ done = FALSE
  /\ failures = {}
  /\ faults = 0
  /\ edits = 0
  /\ gone = {}

Fault == faults < MaxFaults /\ faults' = faults + 1

\* A query fails with the context of the process, or else by a fault.
QueryFails == (done /\ UNCHANGED faults) \/ Fault

-----------------------------------------------------------------------------
(* Run                                                                     *)

\* GetActiveServices
ListServices ==
  /\ pc = "list"
  /\ ~done
  /\ todo' = [s \in live |-> routes[s]]
  /\ active' = {}
  /\ gone' = Keys \ Wanted
  /\ pc' = "services"
  /\ UNCHANGED <<tables, loops, probes, done, failures, faults, edits>>

\* A select entered with the context done returns at once.
Pause == pc' = IF done THEN "return" ELSE "wait"

\* The loops are left as they are for a minute.
ListFails ==
  /\ pc = "list"
  /\ QueryFails
  /\ Pause
  /\ UNCHANGED <<tables, todo, active, loops, probes, done, failures, edits, gone>>

NextService(s) ==
  /\ pc = "services"
  /\ s \in DOMAIN todo
  /\ \A t \in DOMAIN todo : s <= t
  /\ todo' = [t \in DOMAIN todo \ {s} |-> todo[t]]

Free(k) == {n \in Slots : at[<<k, n>>] = "none"}

StartLoops(T) ==
  /\ \A k \in T : Free(k) # {}
  /\ loops' = [k \in Keys |-> IF k \in T THEN Min(Free(k)) ELSE loops[k]]
  /\ at' = [g \in Goroutines |->
              IF g[1] \in T /\ g[2] = Min(Free(g[1])) THEN "probe" ELSE at[g]]

\* Faulty: a loop is started for every target of the round.
EnsureAnew(T) == StartLoops(T)

\* ensureProbeLoop for each target.
EnsureLoops(T) == StartLoops({k \in T : loops[k] = NULL})

\* GetServiceDomains succeeds: its CDNs are those of the earlier query.
ProbeService(s) ==
  /\ ~done
  /\ NextService(s)
  /\ LET T == Targets(s, todo[s])
     IN  active' = active \cup T /\ EnsureLoops(T)
  /\ UNCHANGED <<tables, pc, cancelled, done, failures, faults, edits, gone>>

\* Faulty: "continue" alone.
PreserveNothing(s) == active' = active

PreserveExistingLoops(s) == active' = active \cup {k \in KeysOf(s) : loops[k] # NULL}

ReadFails(s) ==
  /\ QueryFails
  /\ NextService(s)
  /\ PreserveExistingLoops(s)
  /\ UNCHANGED <<tables, pc, loops, probes, done, failures, edits, gone>>

\* cancel() of a goroutine that has ended does nothing.
Stop(T) ==
  cancelled' = cancelled \cup
    {g \in T \X Slots : loops[g[1]] = g[2] /\ at[g] # "none"}

\* Faulty: the loops are cancelled and stay in the map.
CancelOnly(T) == Stop(T) /\ UNCHANGED loops

\* cancel() and delete, for the loops of keys T.
CancelLoops(T) ==
  /\ Stop(T)
  /\ loops' = [k \in Keys |-> IF k \in T THEN NULL ELSE loops[k]]

StopMissingLoops ==
  /\ pc = "services"
  /\ DOMAIN todo = {}
  /\ CancelLoops(Keys \ active)
  /\ Pause
  /\ active' = {}
  /\ UNCHANGED <<tables, todo, at, done, failures, faults, edits, gone>>

\* time.After, which a context that is done at the same time may lose to.
NextRound ==
  /\ pc = "wait"
  /\ pc' = "list"
  /\ UNCHANGED <<tables, todo, active, loops, probes, done, failures, faults, edits, gone>>

\* ctx.Done, and the deferred cancelAllLoops.
Return ==
  /\ pc = "return" \/ (pc = "wait" /\ done)
  /\ pc' = "returned"
  /\ CancelLoops(Keys)
  /\ UNCHANGED <<tables, todo, active, at, done, failures, faults, edits, gone>>

-----------------------------------------------------------------------------
(* probeLoop                                                               *)

Move(g, from, to) == at[g] = from /\ at' = [at EXCEPT ![g] = to]

\* The target answers, well or not.
Probe(g) ==
  /\ Move(g, "probe", IF g[1][2] \in Down THEN "failed" ELSE "ok")
  /\ UNCHANGED <<tables, run, cancelled, done, failures, faults, edits, gone>>

\* doProbe returns the error of its context, which says nothing of the target.
CutProbe(g) ==
  /\ Cancelled(g)
  /\ Move(g, "probe", "failed")
  /\ UNCHANGED <<tables, run, cancelled, done, failures, faults, edits, gone>>

\* The select after a probe: with the context done, its timer cannot have fired.
Rest(g) ==
  /\ at' = [at EXCEPT ![g] = IF Cancelled(g) THEN "none" ELSE "wait"]
  /\ cancelled' = cancelled \ {g}

\* Faulty: the sample is written with a context of its own.
InsertDetached(g, ok) == failures' = IF ok THEN failures ELSE failures \cup {g[1]}

\* InsertProbeSample: nothing is sent with a context that is done.
InsertProbeSample(g, ok) ==
  failures' = IF ok \/ Cancelled(g) THEN failures ELSE failures \cup {g[1]}

\* MultiMetrics.RecordProbe: each recorder in turn, whatever the one before said.
RecordProbe(g) ==
  /\ at[g] \in {"ok", "failed"}
  /\ \/ InsertProbeSample(g, at[g] = "ok") /\ UNCHANGED faults
     \/ Fault /\ UNCHANGED failures
  /\ Rest(g)
  /\ UNCHANGED <<tables, run, done, edits, gone>>

\* Ten seconds are over; a cancel at the same time may lose to the timer.
Elapse(g) ==
  /\ Move(g, "wait", "probe")
  /\ UNCHANGED <<tables, run, cancelled, done, failures, faults, edits, gone>>

Quit(g) ==
  /\ Cancelled(g)
  /\ Move(g, "wait", "none")
  /\ cancelled' = cancelled \ {g}
  /\ UNCHANGED <<tables, run, done, failures, faults, edits, gone>>

-----------------------------------------------------------------------------
(* The process, and the control plane                                      *)

Interrupt ==
  /\ ~done
  /\ Fault
  /\ done' = TRUE
  /\ UNCHANGED <<tables, run, probes, failures, edits, gone>>

\* main returns, or the process dies, at whatever its goroutines do; the next
\* process starts with an empty map.
Restart ==
  /\ QueryFails
  /\ done' = FALSE
  /\ pc' = "list"
  /\ todo' = [s \in {} |-> {}]
  /\ active' = {}
  /\ loops' = [k \in Keys |-> NULL]
  /\ at' = [g \in Goroutines |-> "none"]
  /\ cancelled' = {}
  /\ gone' = {}
  /\ UNCHANGED <<tables, failures, edits>>

Edit ==
  /\ edits < MaxEdits
  /\ edits' = edits + 1
  /\ gone' = gone \cup (Keys \ Wanted')
  /\ UNCHANGED <<run, probes, done, failures, faults>>

PatchCdns(s) ==
  /\ routes' \in {[routes EXCEPT ![s] = R] : R \in SUBSET Cdns}
  /\ routes' # routes
  /\ UNCHANGED <<live, domains, unused>>
  /\ Edit

AddDomain(d) ==
  /\ d \in unused
  /\ domains' = domains \cup {d}
  /\ unused' = unused \ {d}
  /\ UNCHANGED <<live, routes>>
  /\ Edit

DeleteDomain(d) ==
  /\ d \in domains
  /\ domains' = domains \ {d}
  /\ UNCHANGED <<live, unused, routes>>
  /\ Edit

DeleteService(s) ==
  /\ s \in live
  /\ live' = live \ {s}
  /\ UNCHANGED <<domains, unused, routes>>
  /\ Edit

-----------------------------------------------------------------------------
Round ==
  \/ ListServices
  \/ \E s \in Services : ProbeService(s)
  \/ StopMissingLoops
  \/ NextRound
  \/ Return

ProbeLoop(g) == Probe(g) \/ RecordProbe(g) \/ Elapse(g)

Next ==
  \/ Round
  \/ ListFails
  \/ \E s \in Services : ReadFails(s)
  \/ \E g \in Goroutines : ProbeLoop(g) \/ CutProbe(g) \/ Quit(g)
  \/ Interrupt
  \/ Restart
  \/ \E s \in Services : PatchCdns(s) \/ DeleteService(s)
  \/ \E d \in DomainIds : AddDomain(d) \/ DeleteDomain(d)

Spec == Init /\ [][Next]_vars

\* The Go scheduler runs Run and every goroutine, and a process that is
\* interrupted is started again.  Probes end in client.Timeout.  That a query
\* ends too is assumed: it has the context of the process and no deadline.
FairSpec ==
  /\ Spec
  /\ WF_vars(Round)
  /\ \A g \in Goroutines : WF_vars(ProbeLoop(g)) /\ WF_vars(Quit(g))
  /\ WF_vars(done /\ Restart)

-----------------------------------------------------------------------------
(* Properties                                                              *)

Running(g) == at[g] # "none"

\* Shapes, and: only goroutines that run are cancelled or held in the map.
TypeOK ==
  /\ live \subseteq Services
  /\ domains \subseteq DomainIds
  /\ unused \subseteq DomainIds \ domains
  /\ routes \in [Services -> SUBSET Cdns]
  /\ pc \in {"list", "services", "wait", "return", "returned"}
  /\ DOMAIN todo \subseteq Services
  /\ \A s \in DOMAIN todo : todo[s] \subseteq Cdns
  /\ active \subseteq Keys
  /\ loops \in [Keys -> Slots \cup {NULL}]
  /\ at \in [Goroutines -> {"none", "probe", "ok", "failed", "wait"}]
  /\ cancelled \subseteq {g \in Goroutines : Running(g)}
  /\ done \in BOOLEAN
  /\ failures \subseteq Keys
  /\ gone \subseteq Keys

\* While the process is not stopping, the map and the goroutines agree: one
\* that nothing has cancelled is held, so that no target is probed twice over
\* and every loop can be stopped, and one that is held runs and goes on.
OneLoopPerTarget ==
  ~done => \A g \in Goroutines :
             (Running(g) /\ g \notin cancelled) <=> loops[g[1]] = g[2]

\* "preserveExistingLoops" (monitor_test.go): failed queries stop no loop. A
\* round cancels a loop only if the tables did not ask for its target all along.
OnlyGoneAreStopped ==
  [][~done => \A g \in cancelled' \ cancelled : g[1] \in gone]_vars

\* A probe that is cut short by a cancel never counts against the target: the
\* storms are decided on samples of targets that really failed.
NoFalseFailure == \A k \in failures : k[2] \in Down

\* The goroutines that go on.
Probed == {k \in Keys : \E n \in Slots : Running(<<k, n>>) /\ ~Cancelled(<<k, n>>)}

\* The loops follow the tables, whatever failed, came back or was restarted:
\* once nothing changes any more, exactly the wanted targets are probed.
Follows == <>[](Probed = Wanted)
=============================================================================
