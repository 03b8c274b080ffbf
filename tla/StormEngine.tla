---------------------------- MODULE StormEngine ----------------------------
(***************************************************************************)
(* The storm engine (internal/storm/engine.go) of one or more prober       *)
(* processes over the shared Postgres tables services, storm_policies and  *)
(* storm_events.                                                           *)
(*                                                                         *)
(* Every database statement the engine issues is one step: Tick runs no    *)
(* transaction, so anything may happen between two statements.  The        *)
(* environment patches and deletes policies, soft-deletes services and     *)
(* lets availability and the clock change.  A fault is a statement that    *)
(* fails, a write whose reply is lost, or a crash of the prober.           *)
(***************************************************************************)
EXTENDS Naturals, Sequences, FiniteSets

CONSTANTS
  Engines,        \* prober processes, each running one storm engine
  Services,       \* service ids
  Kinds,          \* storm kinds
  Policies,       \* storm policy ids
  PolicyService,  \* the service each policy belongs to
  Settings,       \* the values a policy row may hold
  Levels,         \* availability readings
  MaxClock,       \* bound on time
  MaxFaults,      \* bound on the faults of a behaviour
  MaxEdits,       \* bound on control-plane edits
  NULL            \* SQL NULL, and "no row"

ASSUME EnginesAssumption == IsFiniteSet(Engines)

ASSUME IdsAssumption == Services \subseteq Nat /\ Policies \subseteq Nat

ASSUME PolicyServiceAssumption == PolicyService \in [Policies -> Services]

ASSUME SettingsAssumption ==
  Settings \subseteq [kind : Kinds, threshold : Nat, cooldown : Nat]

ASSUME LevelsAssumption == Levels \subseteq Nat

ASSUME BoundsAssumption ==
  MaxClock \in Nat /\ MaxFaults \in Nat /\ MaxEdits \in Nat

ASSUME NullAssumption == NULL \notin Nat

VARIABLES
  storms,  \* table storm_events; the row id is the position
  policy,  \* table storm_policies: the row of each id, or NULL
  live,    \* services whose deleted_at is NULL
  avail,   \* availability measured over each policy's window
  clock,   \* the clock the database and the probers share
  faults,  \* faults so far
  edits,   \* control-plane edits so far
  pc,      \* where each engine is in its tick
  todo,    \* services of the tick whose policies are not read yet
  batch,   \* policy rows read for one service and not evaluated yet
  row,     \* the policy row being evaluated
  level,   \* the availability read for it
  seen,    \* the active storm found, about to be resolved
  now,     \* the engine's time stamp of the evaluation
  gauge    \* the <<service, kind>> pairs whose storm_active gauge is 1

tables == <<storms, policy, live>>
world  == <<policy, live, avail, clock, edits>>
locals == <<pc, todo, batch, row, level, seen, now>>
vars   == <<storms, policy, live, avail, clock, faults, edits,
            pc, todo, batch, row, level, seen, now, gauge>>

Keys == Services \X Kinds

Storm == [service : Services, kind : Kinds, started : Nat, ended : Nat \cup {NULL}]

PolicyRow == [id : Policies, service : Services, kind : Kinds,
              threshold : Nat, cooldown : Nat]

-----------------------------------------------------------------------------
(* The queries of internal/db/queries.sql.                                 *)

StormsOf(key) == {i \in DOMAIN storms : storms[i].service = key[1] /\ storms[i].kind = key[2]}

\* Faulty variants of Active, which the runs must detect: the query without
\* "kind = $2", and without "ended_at IS NULL".
ActiveOfAnyKind(key) ==
  {i \in DOMAIN storms : storms[i].service = key[1] /\ storms[i].ended = NULL}

ActiveOrEnded(key) == StormsOf(key)

Active(key) == {i \in StormsOf(key) : storms[i].ended = NULL}

\* ORDER BY started_at DESC: any of the rows that share the latest start.
Newest(S) == {i \in S : \A j \in S : storms[j].started <= storms[i].started}

RowOf(p) == [id        |-> p,
             service   |-> PolicyService[p],
             kind      |-> policy[p].kind,
             threshold |-> policy[p].threshold,
             cooldown  |-> policy[p].cooldown]

PoliciesOf(s) == {RowOf(p) : p \in {q \in Policies : PolicyService[q] = s /\ policy[q] # NULL}}

StormKey(r) == <<r.service, r.kind>>

-----------------------------------------------------------------------------
Init ==
  /\ storms = <<>>
  /\ policy \in [Policies -> Settings]
  /\ live = Services
  /\ avail \in [Policies -> Levels]
  /\ clock = 0
  /\ faults = 0
  /\ edits = 0
  /\ pc = [e \in Engines |-> "idle"]
  /\ todo = [e \in Engines |-> {}]
  /\ batch = [e \in Engines |-> {}]
  /\ row = [e \in Engines |-> NULL]
  /\ level = [e \in Engines |-> 0]
  /\ seen = [e \in Engines |-> 0]
  /\ now = [e \in Engines |-> 0]
  /\ gauge = [e \in Engines |-> {}]

(* Tick: the live services once, then per service its policies, in id order. *)
BeginTick(e) ==
  /\ pc[e] = "idle"
  /\ pc' = [pc EXCEPT ![e] = "tick"]
  /\ todo' = [todo EXCEPT ![e] = live]
  /\ UNCHANGED <<storms, world, faults, batch, row, level, seen, now, gauge>>

NextService(e, s) ==
  /\ pc[e] = "tick"
  /\ batch[e] = {}
  /\ s \in todo[e]
  /\ \A t \in todo[e] : s <= t
  /\ todo' = [todo EXCEPT ![e] = @ \ {s}]

ReadPolicies(e) ==
  \E s \in Services :
    /\ NextService(e, s)
    /\ batch' = [batch EXCEPT ![e] = PoliciesOf(s)]
    /\ UNCHANGED <<storms, world, faults, pc, row, level, seen, now, gauge>>

EndTick(e) ==
  /\ pc[e] = "tick"
  /\ todo[e] = {}
  /\ batch[e] = {}
  /\ pc' = [pc EXCEPT ![e] = "idle"]
  /\ UNCHANGED <<storms, world, faults, todo, batch, row, level, seen, now, gauge>>

NextPolicy(e, r) ==
  /\ pc[e] = "tick"
  /\ r \in batch[e]
  /\ \A q \in batch[e] : r.id <= q.id
  /\ batch' = [batch EXCEPT ![e] = @ \ {r}]

(* evaluatePolicy *)
ReadAvailability(e) ==
  \E r \in batch[e] :
    /\ NextPolicy(e, r)
    /\ row' = [row EXCEPT ![e] = r]
    /\ level' = [level EXCEPT ![e] = avail[r.id]]
    /\ pc' = [pc EXCEPT ![e] = "active"]
    /\ UNCHANGED <<storms, world, faults, todo, seen, now, gauge>>

Breach(e) == level[e] < row[e].threshold

\* evaluatePolicy returns: Tick goes on with the next row, locals are dead.
Return(e) ==
  /\ pc' = [pc EXCEPT ![e] = "tick"]
  /\ row' = [row EXCEPT ![e] = NULL]
  /\ level' = [level EXCEPT ![e] = 0]
  /\ seen' = [seen EXCEPT ![e] = 0]
  /\ now' = [now EXCEPT ![e] = 0]

(* The four outcomes of GetActiveStormForPolicy. *)
FindOngoing(e) ==
  /\ pc[e] = "active"
  /\ Active(StormKey(row[e])) # {}
  /\ Breach(e)
  /\ gauge' = [gauge EXCEPT ![e] = @ \cup {StormKey(row[e])}]
  /\ Return(e)
  /\ UNCHANGED <<storms, world, faults, todo, batch>>

\* Faulty: resolves the newest storm, which need not be an active one.
FindRecoveredNewest(e) ==
  /\ pc[e] = "active"
  /\ ~Breach(e)
  /\ Active(StormKey(row[e])) # {}
  /\ \E i \in Newest(StormsOf(StormKey(row[e]))) : seen' = [seen EXCEPT ![e] = i]
  /\ now' = [now EXCEPT ![e] = clock]
  /\ pc' = [pc EXCEPT ![e] = "resolve"]
  /\ UNCHANGED <<storms, world, faults, todo, batch, row, level, gauge>>

\* Faulty: the time stamp is not taken.
FindRecoveredUnstamped(e) ==
  /\ pc[e] = "active"
  /\ ~Breach(e)
  /\ \E i \in Newest(Active(StormKey(row[e]))) : seen' = [seen EXCEPT ![e] = i]
  /\ pc' = [pc EXCEPT ![e] = "resolve"]
  /\ UNCHANGED <<storms, world, faults, todo, batch, row, level, now, gauge>>

FindRecovered(e) ==
  /\ pc[e] = "active"
  /\ ~Breach(e)
  /\ \E i \in Newest(Active(StormKey(row[e]))) : seen' = [seen EXCEPT ![e] = i]
  /\ now' = [now EXCEPT ![e] = clock]
  /\ pc' = [pc EXCEPT ![e] = "resolve"]
  /\ UNCHANGED <<storms, world, faults, todo, batch, row, level, gauge>>

\* Faulty: does not ask whether a storm is active.
FindBreachAnyway(e) ==
  /\ pc[e] = "active"
  /\ Breach(e)
  /\ now' = [now EXCEPT ![e] = clock]
  /\ pc' = [pc EXCEPT ![e] = "last"]
  /\ UNCHANGED <<storms, world, faults, todo, batch, row, level, seen, gauge>>

FindBreach(e) ==
  /\ pc[e] = "active"
  /\ Active(StormKey(row[e])) = {}
  /\ Breach(e)
  /\ now' = [now EXCEPT ![e] = clock]
  /\ pc' = [pc EXCEPT ![e] = "last"]
  /\ UNCHANGED <<storms, world, faults, todo, batch, row, level, seen, gauge>>

FindHealthy(e) ==
  /\ pc[e] = "active"
  /\ Active(StormKey(row[e])) = {}
  /\ ~Breach(e)
  /\ Return(e)
  /\ UNCHANGED <<storms, world, faults, todo, batch, gauge>>

-----------------------------------------------------------------------------
(* GetLastStormEvent and the cooldown. *)
\* Faulty: the cooldown counts from the start of the last storm.
ReferenceStart(i) == storms[i].started

Reference(i) == IF storms[i].ended # NULL THEN storms[i].ended ELSE storms[i].started

\* Faulty: a cooldown that has just run out still counts.
CoolingInclusive(e, i) == row[e].cooldown > 0 /\ now[e] <= Reference(i) + row[e].cooldown

\* Without "cooldown > 0" an end stamped by another prober after now would count.
Cooling(e, i) == row[e].cooldown > 0 /\ now[e] < Reference(i) + row[e].cooldown

ReadLastStorm(e) ==
  LET past == StormsOf(StormKey(row[e]))
  IN /\ pc[e] = "last"
     /\ \/ /\ \E i \in Newest(past) : Cooling(e, i)
           /\ Return(e)
        \/ /\ past = {} \/ \E i \in Newest(past) : ~Cooling(e, i)
           /\ pc' = [pc EXCEPT ![e] = "insert"]
           /\ UNCHANGED <<row, level, seen, now>>
     /\ UNCHANGED <<storms, world, faults, todo, batch, gauge>>

NewStorm(r) == [service |-> r.service, kind |-> r.kind, started |-> clock, ended |-> NULL]

WriteStart(e) ==
  /\ pc[e] = "insert"
  /\ storms' = Append(storms, NewStorm(row[e]))

\* UPDATE ... WHERE id: the row is stamped whatever its ended_at holds.
WriteEnd(e) ==
  /\ pc[e] = "resolve"
  /\ storms' = [storms EXCEPT ![seen[e]].ended = now[e]]

InsertStorm(e) ==
  /\ WriteStart(e)
  /\ gauge' = [gauge EXCEPT ![e] = @ \cup {StormKey(row[e])}]
  /\ Return(e)
  /\ UNCHANGED <<world, faults, todo, batch>>

ResolveStorm(e) ==
  /\ WriteEnd(e)
  /\ gauge' = [gauge EXCEPT ![e] = @ \ {StormKey(row[e])}]
  /\ Return(e)
  /\ UNCHANGED <<world, faults, todo, batch>>

-----------------------------------------------------------------------------
(* Faults, at most MaxFaults in a behaviour. *)
Fault == faults < MaxFaults /\ faults' = faults + 1

\* GetStormPoliciesForService fails: the service is skipped for this tick.
PoliciesReadFails(e) ==
  /\ Fault
  /\ \E s \in Services : NextService(e, s)
  /\ UNCHANGED <<storms, world, pc, batch, row, level, seen, now, gauge>>

\* Availability fails: the policy is skipped for this tick.
AvailabilityFails(e) ==
  /\ Fault
  /\ \E r \in batch[e] : NextPolicy(e, r)
  /\ UNCHANGED <<storms, world, pc, todo, row, level, seen, now, gauge>>

\* A later statement fails without effect: evaluatePolicy returns the error.
StatementFails(e) ==
  /\ Fault
  /\ pc[e] \in {"active", "last", "insert", "resolve"}
  /\ Return(e)
  /\ UNCHANGED <<storms, world, todo, batch, gauge>>

\* The write is applied and its reply is lost: an error, so no metric is set.
ReplyLost(e) ==
  /\ Fault
  /\ WriteStart(e) \/ WriteEnd(e)
  /\ Return(e)
  /\ UNCHANGED <<world, todo, batch, gauge>>

\* The process dies and is started again: its memory and its gauges are new.
Crash(e) ==
  /\ Fault
  /\ pc[e] # "idle" \/ gauge[e] # {}
  /\ pc' = [pc EXCEPT ![e] = "idle"]
  /\ todo' = [todo EXCEPT ![e] = {}]
  /\ batch' = [batch EXCEPT ![e] = {}]
  /\ row' = [row EXCEPT ![e] = NULL]
  /\ level' = [level EXCEPT ![e] = 0]
  /\ seen' = [seen EXCEPT ![e] = 0]
  /\ now' = [now EXCEPT ![e] = 0]
  /\ gauge' = [gauge EXCEPT ![e] = {}]
  /\ UNCHANGED <<storms, world>>

-----------------------------------------------------------------------------
(* The environment. *)
Edit == edits < MaxEdits /\ edits' = edits + 1

\* POST or PATCH of a storm policy.  The handler's check that the service is
\* live is a statement of its own, so it says nothing at the write.
PutPolicy(p) ==
  /\ Edit
  /\ \E x \in Settings : policy[p] # x /\ policy' = [policy EXCEPT ![p] = x]
  /\ UNCHANGED <<storms, live, avail, clock, faults, locals, gauge>>

DeletePolicy(p) ==
  /\ Edit
  /\ policy[p] # NULL
  /\ policy' = [policy EXCEPT ![p] = NULL]
  /\ UNCHANGED <<storms, live, avail, clock, faults, locals, gauge>>

SoftDelete(s) ==
  /\ Edit
  /\ s \in live
  /\ live' = live \ {s}
  /\ UNCHANGED <<storms, policy, avail, clock, faults, locals, gauge>>

HealthChange(p) ==
  /\ \E v \in Levels : v # avail[p] /\ avail' = [avail EXCEPT ![p] = v]
  /\ UNCHANGED <<storms, policy, live, clock, faults, edits, locals, gauge>>

ClockTick ==
  /\ clock < MaxClock
  /\ clock' = clock + 1
  /\ UNCHANGED <<storms, policy, live, avail, faults, edits, locals, gauge>>

-----------------------------------------------------------------------------
Step(e) ==
  \/ BeginTick(e) \/ ReadPolicies(e) \/ EndTick(e)
  \/ ReadAvailability(e)
  \/ FindOngoing(e) \/ FindRecovered(e) \/ FindBreach(e) \/ FindHealthy(e)
  \/ ReadLastStorm(e) \/ InsertStorm(e) \/ ResolveStorm(e)

FaultStep(e) ==
  \/ PoliciesReadFails(e) \/ AvailabilityFails(e)
  \/ StatementFails(e) \/ ReplyLost(e) \/ Crash(e)

Environment ==
  \/ \E p \in Policies : PutPolicy(p) \/ DeletePolicy(p) \/ HealthChange(p)
  \/ \E s \in Services : SoftDelete(s)
  \/ ClockTick

Next == (\E e \in Engines : Step(e) \/ FaultStep(e)) \/ Environment

Spec == Init /\ [][Next]_vars

\* The prober's loop calls Tick again on every firing of its ticker.  That a
\* statement of a tick ends is assumed, for its context has no deadline.
Fairness == \A e \in Engines : WF_vars(Step(e))

FairSpec == Spec /\ Fairness

-----------------------------------------------------------------------------
(* The shape of the state, and what a program point knows of the locals. *)
TypeOK ==
  /\ storms \in Seq(Storm)
  /\ policy \in [Policies -> Settings \cup {NULL}]
  /\ live \subseteq Services
  /\ avail \in [Policies -> Levels]
  /\ clock \in Nat
  /\ faults \in Nat
  /\ edits \in Nat
  /\ pc \in [Engines -> {"idle", "tick", "active", "last", "insert", "resolve"}]
  /\ todo \in [Engines -> SUBSET Services]
  /\ batch \in [Engines -> SUBSET PolicyRow]
  /\ row \in [Engines -> PolicyRow \cup {NULL}]
  /\ level \in [Engines -> Nat]
  /\ seen \in [Engines -> Nat]
  /\ now \in [Engines -> Nat]
  /\ gauge \in [Engines -> SUBSET Keys]
  /\ \A e \in Engines :
       /\ pc[e] \in {"active", "last", "insert", "resolve"} => row[e] \in PolicyRow
       /\ pc[e] = "resolve" => seen[e] \in StormsOf(StormKey(row[e]))

(* Check-then-insert (engine.go:78-109) races between probers, and nothing *)
(* in the schema stops the loser's insert.  The damage is bounded: the     *)
(* storms active for one service and kind never outnumber the probers.     *)
ActiveBounded == \A key \in Keys : Cardinality(Active(key)) <= Cardinality(Engines)

\* Probers that found no active storm of the key and may insert one.
PastCheck(key) ==
  {e \in Engines : pc[e] \in {"last", "insert"} /\ StormKey(row[e]) = key}

(* The inductive form of ActiveBounded: a prober that is past its check     *)
(* counts like the storm it may insert.                                    *)
RaceBounded ==
  \A key \in Keys :
    Cardinality(Active(key)) + Cardinality(PastCheck(key)) <= Cardinality(Engines)

(* A storm never ends before it started: the time stamp of a resolve is    *)
(* taken after the read that found the storm (engine.go:78-84), also when  *)
(* another prober resolved the same storm in between.                      *)
EndNotBeforeStart ==
  \A i \in DOMAIN storms : storms[i].ended # NULL => storms[i].started <= storms[i].ended

\* A cooldown of kind k, that a policy may ask for, passed from storm i's end to t.
Cooled(i, k, t) == \E x \in Settings : x.kind = k /\ storms[i].ended + x.cooldown <= t

(* With one prober, storms of one service and kind are sequential, and a   *)
(* cooldown one of its policies may ask for passes between them, across    *)
(* patches of the policy, lost replies and restarts (engine.go:95-114).    *)
CooldownKept ==
  \A i, j \in DOMAIN storms :
    (i < j /\ storms[i].service = storms[j].service /\ storms[i].kind = storms[j].kind) =>
      /\ storms[i].ended # NULL
      /\ Cooled(i, storms[j].kind, storms[j].started)

(* With one prober, a recorded end never changes: billing that has used a  *)
(* storm's end used its final value, although MarkStormEventResolved       *)
(* (queries.sql:145-149) does not test ended_at.                           *)
EndedIsFinal ==
  [][\A i \in DOMAIN storms : storms[i].ended # NULL => storms'[i] = storms[i]]_vars

\* Every policy that may judge the key is below, or is at or above, its threshold.
Healthy(key) ==
  /\ \E p \in Policies : policy[p] # NULL /\ <<PolicyService[p], policy[p].kind>> = key
  /\ key[1] \in live
  /\ \A p \in Policies : (policy[p] # NULL /\ <<PolicyService[p], policy[p].kind>> = key)
                            => avail[p] >= policy[p].threshold

(* When a service stays healthy and keeps a policy of the kind, every storm *)
(* of that kind is resolved, duplicates of a lost race included, although   *)
(* a tick resolves only the newest one (engine.go:117-124).                 *)
StormClears == \A key \in Keys : <>[]Healthy(key) => <>[](Active(key) = {})

Breached(p, x) == policy[p] = x /\ PolicyService[p] \in live /\ avail[p] < x.threshold

\* A storm of the key ended, or started, less than d ago.
CoolingDown(key, d) == \E i \in StormsOf(key) : clock < Reference(i) + d

(* When a policy stays breached, a storm of its kind is active again and   *)
(* again unless its cooldown is running (engine.go:87-115).                *)
StormStarts ==
  \A p \in Policies : \A x \in Settings :
    <>[]Breached(p, x) =>
      LET key == <<PolicyService[p], x.kind>>
      IN []<>(Active(key) # {} \/ CoolingDown(key, x.cooldown))

(* The storm_active gauge is the "Indicator for active storms by service   *)
(* and kind." (observability/metrics.go:59): where no storm is active, it  *)
(* does not show one for ever.                                             *)
GaugeFollowsStorms ==
  \A e \in Engines : \A key \in Keys : []<>(Active(key) # {} \/ key \notin gauge[e])
=============================================================================
