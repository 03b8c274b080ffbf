# A TLA+ model of Tranche

Tranche steers the traffic of a customer's service between a primary and a
backup CDN. A prober measures availability and records *storms*, a DNS operator
moves traffic to the backup while a storm is active, a usage ingestor collects
traffic volumes and a billing worker turns them into invoices with a credit for
storm time. The processes share nothing but a Postgres database and the Route 53
zones. This directory holds TLA+ models of these parts, the TLC runs that check
them and the TLAPS proofs about them.

`tlc -config <run>.cfg <module>.tla` checks a run (the table below names both),
`tlapm <module>Proofs.tla` checks the proofs of a module.

## Inventory

| Component | State it keeps | Operations | Interacts with | What is hard | What makes it correct |
| --- | --- | --- | --- | --- | --- |
| Storm engine `internal/storm/engine.go` | rows of `storm_events`, a gauge per process | `Tick`, `evaluatePolicy` | policies and services written by the control plane, availability, billing and planner as readers | check-then-insert without a unique constraint, a read before a write in every branch, restarts, lost replies | storms of one kind follow one another with the cooldown between, every storm ends on a healthy service, ends are final |
| Billing `internal/billing/engine.go` | `invoices`, `invoice_line_items`, `usage_snapshots.invoice_id` | `RunOnce` | usage upserts, storm writes, policies | several workers, a READ COMMITTED transaction whose reads differ, skipped locks, rounding, clamps | a snapshot is billed once, for the bytes stored, with a credit that stays right |
| `coverageRatio` (same file) | one slice | clip, sort, merge in place, sum | storms of a window | a slice that is written while it is read, an unstable sort | time is counted once, nothing outside the window |
| Planner `internal/routing/planner.go` | none | `DesiredRouting` | `storm_events` | its answer is stale at once | backup exactly while a storm is active |
| DNS operator `cmd/dns-operator` | none between two rounds | `reconcile` every 15 s | planner, domains, provider | stale weights, shared hostnames, deleted services, timeouts with a late effect | the weights follow the storms in the end |
| Route 53 provider `internal/dns/route53.go` | a zone cache | `SetWeights` | Route 53 | retries, paging, a cache that is never dropped, changes applied after a timeout | both records of a name change or neither |
| Usage ingestor `internal/usageingestor/engine.go` | `usage_snapshots` | `RunOnce` | Cloudflare, domains, billing | partial upserts, late data, row limits, re-runs over the look-back | a window's usage is counted once, a re-run never loses some |
| Per-service ingestor `internal/cdn/ingestor.go` | `usage_snapshots` | `RunOnce` | provider selector | check-then-upsert | as above; no command uses it |
| Cloudflare client `internal/cdn/cloudflare` | none | `Usage` | HTTP | an answer cut at 10000 rows | the usage of every host asked for, hour by hour |
| Probe scheduler `internal/monitor/monitor.go` | map of running loops | `Run`, `ensureProbeLoop`, `stopMissingLoops`, `probeLoop` | services, domains, the recorders | goroutines that outlive their cancel, failed queries, shutdown | one loop per wanted target, and no sample of a probe that was cut short |
| Availability metrics `internal/monitor/*_metrics.go` | a ring per target, or rows of `probe_samples` | `RecordProbe`, `Availability` | prober, storm engine | pruning, no samples at all | the share of good probes of the window |
| Control plane `internal/httpapi/server.go` | services, domains, policies | REST handlers | every other part, through the tables | read-modify-write, checks in a statement of their own | customers see and change only their rows |
| Migrations `internal/db/open.go`, `ready.go` | `schema_migrations` | `runMigrations`, `Ready` | every process at its start | several processes at once, binaries of different ages, a crash between two files, a lock that dies with its session | each file is applied once, in order, and whoever serves finds its schema |
| Observability, configuration, logging, domain types | instruments | | | | no state the program reads |

The processes interact only through tables. Outside billing every statement is a
transaction of its own, so whatever a process reads may have changed before its
next statement. This is where the hard behaviour is, and it is what the models keep:
one action per statement, with the locals a process carries from one statement to
the next as variables.

## Plan

In the order of what matters most to the system:

1. `StormEngine`: everything else reads the storms it writes.
2. `CoverageRatio` and `Billing`: the money. `Billing` takes the coverage of a window
   in one step, and the theorem `ReadsCoverage` shows that this is what the in-place
   merge of `CoverageRatio` computes. `Billing` itself implements `Ledger`, in which
   a run is one atomic step.
3. `DnsOperator`, with the planner, over the abstract provider `WeightProvider`;
   `Route53Provider`, its retry loop, zone cache and change batch, shown to implement
   that abstract provider by a refinement mapping.
4. `ControlPlane`: the requests that write what all the others read.
5. `UsageIngestor`, `ProbeScheduler` and `Migrations`.

All of these are done. What would come next: a `Failover` module that composes the
storm engine and the operator and states that a breached service ends on the backup
and a healthy one on the primary.

Runs stay below three minutes each: two actors where a race is the question, one where
a sequence is; two services, policies or snapshots where one may hide behind the
other.

## Modules

| Module | Models |
| --- | --- |
| `StormEngine.tla` | The probers' storm engines over `services`, `storm_policies` and `storm_events`. |
| `MCStormEngine.tla` | Its small instances. |
| `StormEngineProofs.tla` | Theorems about it. |
| `StormEvents.tla` | The rows of `storm_events` that billing reads, and the time they cover. |
| `CoverageRatio.tla` | The function `coverageRatio`, step by step. |
| `Ledger.tla` | What billing promises, as an abstract specification. |
| `Billing.tla` | The billing workers over `usage_snapshots`, `invoice_line_items`, `storm_events` and the policies. |
| `MCBilling.tla` | Its small instances. |
| `BillingProofs.tla` | Theorems about it and about `CoverageRatio`, the refinement of `Ledger` among them. |
| `WeightProvider.tla` | What `dns.Provider` promises, as an abstract specification. |
| `DnsOperator.tla` | The DNS operator and the planner over that provider. |
| `MCDnsOperator.tla` | Its small instance. |
| `DnsOperatorProofs.tla` | Theorems about it. |
| `Route53Provider.tla` | The Route 53 provider, mapped to the abstract one. |
| `MCRoute53Provider.tla` | Its small instances. |
| `Route53ProviderProofs.tla` | Theorems about it, the refinement among them. |
| `ControlPlane.tla` | The REST handlers as concurrent sequences of statements. |
| `MCControlPlane.tla` | Its small instance. |
| `ControlPlaneProofs.tla` | Theorems about it. |
| `UsageIngestor.tla` | The usage ingestor over the Cloudflare client. |
| `MCUsageIngestor.tla` | Its small instance. |
| `UsageIngestorProofs.tla` | Theorems about it. |
| `ProbeScheduler.tla` | The prober's loop over targets and its probing goroutines. |
| `MCProbeScheduler.tla` | Its small instance. |
| `ProbeSchedulerProofs.tla` | Theorems about it. |
| `Migrations.tla` | Processes that bring the schema up as they start. |
| `MCMigrations.tla` | Its small instance. |
| `MigrationsProofs.tla` | Theorems about it. |

Operators whose comment begins with "Faulty" are variants of the operator that
follows them, with a plausible mistake in it. No specification uses them; they
show that each property can be broken, by taking the place of the operator.

### StormEngine

`storms`, `policy` and `live` are the tables, `avail` is what the availability
source would answer now, `clock` is the one clock of the database and the probers.
For each prober, `pc` and the locals `todo` (services of the tick), `batch` (policy
rows read for one of them), `row`, `level`, `seen` and `now` hold what the Go code
holds between two statements. Each SELECT, INSERT and UPDATE of `Tick` and
`evaluatePolicy` is an action; `FindOngoing`, `FindRecovered`, `FindBreach` and
`FindHealthy` are the four ways on from the read of the active storm. A prober
calls `Tick` from one goroutine, so its ticks do not overlap; two probers stand for
two processes, for instance during a deploy. A fault is a failed read (the service
or the policy is skipped), a statement that fails without effect, a write that is
applied while its reply is lost, or a restart. The control plane's edits and the
changes of availability happen at any point. An UPDATE that is still on its way
when its process is killed behaves like that of another prober.

Availability and thresholds are a few levels, as only their comparison matters.
`started_at` is the database's clock and `ended_at` the prober's in the code; the
model uses one clock for both, and skew is not modelled.

### CoverageRatio

The state is one array, `arr`, the number of merged intervals at its front and the
index the loop reads, as `merged := intervals[:1]` shares its backing array with
`intervals`. `sort.Slice` is not stable, so `Sort` takes any order of equal starts.
A time unit `t` stands for the interval from `t` to `t + 1`; the ratio is given as
the number of covered units. `CoveredUnits` defines what is to be computed. Storms
may be inverted (end before start), which a skewed clock or a double resolve could
leave behind. `StormEvents` has what the two modules of billing share: the rows, and
`CoveredTime`, the time of a window that a set of storms covers.

### Ledger

Three variables: `row`, the snapshots with their bytes and their invoice, `lines`, the
line items, and `runs`, how many runs have committed. `Meter` is an upsert; `Bill`
takes snapshots that have no invoice and, in one step, gives each the invoice of its
customer and one line, with the bytes it has at that moment, one factor for each
service and a discount within the amount. There are no workers and no locks in it, and
no run is lost or in progress. How storm time becomes a discount is left open: that
part is `CreditIsFinal`'s and `CoverageRatio`'s.

### Billing

`row` is `usage_snapshots`, `lines` is `invoice_line_items` with the id of its
invoice (the number of the committed run and the customer), `storms` and `factor`
are what billing reads of `storm_events` and `storm_policies`. A storm write has two
steps, the stamp and the moment it lands, because `started_at` is the time the
INSERT began and `ended_at` the time the engine looked at the clock. `FOR UPDATE`
without `OF` locks the joined `services` rows as well, which stops the foreign-key
check of a storm's INSERT until billing commits; in turn an INSERT that holds the
services row makes `SKIP LOCKED` skip the service's snapshots (`Inserting`).

For each worker, `held` are the rows it has locked, `todo` the rows as it read them,
`current` the row being billed with the coverage just read, `cache` the coverage
cache and `build` the line items. The inserts and updates of the transaction take
effect for others at the commit, so they are one action, `Commit`, and `Abort` before
it stands for a failure at any of them and for the death of the worker. A lost reply
to the COMMIT leaves the tables as `Commit` does. Invoice totals are the sums of the
lines and are not kept. Metering may write a window that is still running and may
correct a window at any time. `settled` is a history field: no storm write of the
service was in flight at the read. Float products are exact fractions, rounded half
up. When a services row is locked for an instant by another statement than a storm's
INSERT, `SKIP LOCKED` skips the snapshots too; the model leaves those instants out.
Storms of a service are written by one prober here, one after another in time: what
two probers may do is `StormEngine`'s subject, and `coverageRatio` takes overlapping
storms as they come. With two, a stale resolve could still overwrite the end of a
storm that a bill has credited; `CreditIsFinal` is about one.

`Promise` maps `Billing` to `Ledger`: the tables are the same, the runs are the
batches, and the rest is hidden. An upsert is `Meter`, `Commit` is `Bill` of the
snapshots that the run has built lines for, and every other step is a stutter.

### WeightProvider

`served` gives the weights in force for a name in each hosted zone, `call` the call in
progress, `late` the change requests whose sender has gone but which may still take
effect. A call that returns nil has put its weights in force, in one zone, before it
returned; one that returns an error may have, or may leave requests behind. When
several zones have records of the name, nothing promises which of them it is. The
customer may change records at any time (`Outside`).

### DnsOperator

The variables `live`, `storming` and `domains` are what the operator reads of
`services`, `storm_events` and `service_domains`; `pc`, `todo`, `svc`, `want` and
`names` are the locals of `reconcile`, whose text the ticker's case repeats. Each
query is an action, and a provider call is `SetWeights`, what the abstract provider
does in between, and `CallEnds` or `CallFails`. Storms, domains and services change
between any two of them. A fault is a failed query or call, a request that stays on
its way, or a restart; a call for a name without records fails without one. The ids
of services order a round; those of a service's domains do not matter and are left
open. `held` and `calm` are history: what each service wanted since the round
began, and whether the round was disturbed. Records stay as they are here: that
customers create and delete them is part of `Route53Provider`. So is which zone a
call reaches: `ZoneOf` is that zone, and the records in force for a name are taken to
stand there. This is an assumption. A zone id cached before a more specific zone was
created, or a listing that lacked the zone, sends every call for the name elsewhere
until a restart, and `Converges` and `OneRoundSuffices` say nothing of such a name.
Names are distinct as Route 53 tells them apart; the operator runs once. `Registered`
gives the tables of names a behaviour may start with.

### Route53Provider

`hosted` and `records` are Route 53's zones and the weighted pairs in them, `late` the
change requests on their way, `cache` is `zoneCache`, and `pc`, `name`, `want`,
`attempt` and `zone` are where `SetWeights` stands. Each request is an action.
`AttemptFails` is what `SetWeights` does with any error of `setWeightsOnce`. The caller
is any caller that uses the provider from one goroutine, as the operator does.

`Suffixed` are the names that end in a zone's name, which is all that `HasSuffix` asks
for; `Within` are those of them that are names of the zone. `ListHostedZonesByName` is
called with the name asked for and one page of its answer is read, so which of the
candidates it has is left open: the longest of any set of them, or none, is found. The
pages of records are read as one. A customer creates and deletes zones and pairs of
records at any time, also between the read of a pair and the UPSERT that follows; a
name may have a pair in a zone and another in its parent. Zone ids are not used again.
Records are their weights. `dropped` is history: pairs that were deleted while a change
to them was about to be made, or late.

### ControlPlane

`services`, `domains` and `policies` are the tables, as sequences of rows, so that a
row's index is its id; `revoked` is what `customer_tokens` loses. Each request has a
`pc`, its locals `req` (route, token, customer, path, the columns a PATCH names and
the row it has loaded), its `status` and `shown`, the services whose rows its answer
holds. `Begin` is the router, `Authenticate` is `authMiddleware`, `LoadService` is
`requireServiceContext` and the same query in the two handlers that do it themselves,
`LoadPolicy` is the read of `handleUpdateStormPolicy`, and each route ends in one of
the actions of its last statement. No handler opens a transaction, so other requests
run between any two of these. A fault is a statement that fails, or one that is
applied while its reply is lost. `gone` and `void` (what was deleted or revoked when
a request began) and `raced` (who patches a row that another patch has written since
it was loaded) are history. The admin token comes with any customer id; that of a
customer who does not exist finds nothing. A text is one of a few values, of which
one is blank and one trims to another; a number is one of a few, of which some break
the bounds of `Validate`.

What the model shows beside the properties: `UpdateService` has no condition on
`deleted_at`, so a PATCH that loaded its service before a DELETE writes the deleted
row, and a domain or policy may be added to a service that was deleted since it was
checked. Nothing reads the rows of a deleted service, so neither does harm. A policy
deleted between the two statements of a PATCH is answered with 500 and not with 404.

### UsageIngestor

`log` is what the CDN has reported so far, byte by byte; `live` and `domains` are the
tables the run reads, `snapshots` the one it writes. `pc`, `until` (`alignedNow`),
`services`, `owner` (`hostToService`) and `pending` (the aggregates still to be
upserted) are the locals of `RunOnce`. `GetActiveServices`, the domain query, the
query of the CDN and each upsert are an action; `Return` is any of the early returns.
Neither `main`'s context nor `http.DefaultClient` has a deadline, so a run may hang at
any of them (`Hangs`), and no run begins again unless the process is killed.
The CDN reports requests of any past hour at any time, the control plane edits
domains and services, and a failure, a lost reply or a crash ends the run: the next
one begins with nothing but the tables. A map of Go is upserted in any order.
The rows of the CDN are cut at `Limit`, in hour order. `CountedOnce` is stated service
by service, as long as no domain or service is edited: a window's snapshot never holds
more than was reported for the hosts of its service.

What the properties except is what the code does: a look-back that is no multiple of
the window reads the first window in part, and its upsert replaces the whole sum by
that part; an answer cut at the limit does the same to the last hours in it; a
domain that moves to another service leaves its bytes in both services' snapshots;
a host of two services counts for the one with the higher id; a window other than an
hour ingests nothing, for the client refuses it; `backup_bytes` is always 0. An
upsert of an invoiced row keeps its invoice and changes its bytes, which `Billing`
models from the other side.

### ProbeScheduler

`live`, `domains` and `routes` are what the prober reads of the tables; `pc`, `todo`
and `active` are the locals of `Run`, and `loops` is its map from a target's key to
a `cancel`. Goroutines have a place of their own in `at`, in one of a few `Slots` of
their target, as a cancelled one runs on until its `select`; `cancelled` are those
whose own context is done, `done` is the context of the process. `Probe`, the record
of its result, the wait and the exit are actions, each of which a cancel may precede
or follow. `RecordProbe` is `MultiMetrics`: whether the row of `probe_samples` is
written depends on the context, which the INSERT takes. A query that fails keeps the
service's loops. An interrupt cancels everything; a crash or the restart drops every
goroutine. Only `Run` touches the map, so what it does to it between two of its
queries is one step. Times are left out: a timer may fire at any step. `gone` is
history: targets that the tables did not ask for at some time since the round read
the services. The Prometheus counter, which no program reads, does count a cancelled
probe as a failure; the samples in the database do not.

### Migrations

The files are numbers in the order of their names; `tables` are the files whose tables
exist and `recorded` is `schema_migrations`. `holder` is the process whose session
has the advisory lock, `pc` and `left` are where each process is in `runMigrations`.
The lock, the list of versions, the body of a file, its commit and the unlock are
actions. A body is a plain CREATE, which waits for an open transaction that creates
the same tables and fails when they exist. A process may crash anywhere, lose the
answer of its COMMIT, or lose an idle session and with it the lock, and go on without
it, as the pool opens another. `Ready` is a predicate. The `CREATE TABLE IF NOT
EXISTS` of `schema_migrations` is left out. `Existing` are files whose tables were
made by hand: after the README's `psql tranche < migrations/0001_init.sql` the first
start finds tables that no version records and fails at every attempt. `InOrder`
covers such a database, `OnlyFaultsFail` and `Starts` are about an empty one.

## Runs

| Run | Module | Checks | Bounds |
| --- | --- | --- | --- |
| `storm_single` | `MCStormEngine` | `TypeOK`, `CooldownKept`, `EndedIsFinal` | one prober, two policies of one service that share a kind or not, cooldowns 1 and 2, time to 2, one fault, one edit |
| `storm_pair` | `MCStormEngine` | `ActiveBounded`, `EndNotBeforeStart`, `StormClears`, `StormStarts` | two probers, one policy, time to 1, one fault |
| `storm_gauge` | `MCStormEngine` | `GaugeFollowsStorms` is violated | one prober, one policy, one fault |
| `coverage` | `CoverageRatio` | `CoverageTypeOK`, `MergeLosesNothing`, `CoveredIsUnion` | window 1 to 4, times 0 to 5, up to three storms |
| `billing_locks` | `MCBilling` | `BilledOnce`, `BillsStoredBytes`, `ImplementsLedger`, `InPeriodBilled` | two workers, two customers with a service each, three windows, time to 2, period 1, two upserts, one fault |
| `billing_credit` | `MCBilling` | `OneFactorPerInvoice`, `CreditIsFinal`, `InPeriodBilled` | one worker, two overlapping windows, two storms, factors 0.5 and 3, time to 2, two upserts, one fault |
| `dns_rounds` | `MCDnsOperator` | `TypeOK`, `FreshWeights`, `OneRoundSuffices`, `Converges` | two services, two names in three tables, one fault, one edit |
| `route53` | `MCRoute53Provider` | `TypeOK`, `OnlyDroppedReturn`, `Implements`, `CallReturns` | a name of two nested zones, a name of one that ends in the name of both, any records in them at the start, two attempts, two faults, two edits by the customer |
| `control_plane` | `MCControlPlane` | `TypeOK`, `TenantIsolation`, `PatchKeepsColumns` | two concurrent requests, two customers with a service, a domain and a policy each, one customer's token and the admin's, three texts, two numbers, one fault |
| `ingest` | `MCUsageIngestor` | `TypeOK`, `CountedOnce`, `RunSuffices`, `NeverShrinks`, `Settles` | two services, two hosts, windows of two units, a look-back of five, time to 6, three bytes, a limit of two rows, one fault, one edit |
| `probes` | `MCProbeScheduler` | `OneLoopPerTarget`, `NoFalseFailure`, `OnlyGoneAreStopped`, `Follows` | two services, a domain id each, a CDN that is down and one that gives no URL, two goroutines a target, one fault, two edits |
| `migrations` | `MCMigrations` | `SchemaInOrder`, `OnlyFaultsFail`, `Starts` | three processes, of which one embeds two files and two embed three, three faults |

What they show, and why the bounds suffice:

- `storm_single`: a cooldown of 1 or 2 fits the clock once with room on both sides,
  two policies are enough for one to change kind under the other, and one fault
  reaches each statement. Storms of one kind never overlap and keep their distance
  even after a lost reply or a restart, because both are decided from the table alone.
  The runs leave a cooldown of 0 out, with which storms could follow one another
  without bound while the clock stands; the theorems cover it.
- `storm_pair`: a race needs two. Duplicates do appear in it; the properties say
  that they never outnumber the probers and that every one is resolved on a service
  that stays healthy, although a tick resolves only the newest.
- `storm_gauge`: see findings.
- `coverage`: three storms are the least for an append to overwrite an interval
  behind the read index with others still to read.
- `billing_locks`: both workers can hold rows at once and each can find the other's
  rows locked; the period is shorter than the time, so a window can be lost, and the
  liveness property is about the others. An upsert and a fault can fall between any two
  steps of a run, so `ImplementsLedger` shows what the locks do for a run that reads in
  many statements: at its commit everything it read is still so.
- `billing_credit`: windows of different length share storms; every storm can be
  stamped before and land after the read of its window. The INSERT of a storm can hold
  the services row when a run selects its snapshots, so `InPeriodBilled` is here about
  the snapshots that such a lock made a run pass over.
- `dns_rounds`: two services are the least for one to be skipped, fail or be taken
  for another, and two names the least for a call to be lost among others; the three
  tables are, up to a renaming, both names of one service, one each, and one name of
  both. Storms come and go without bound; the one fault can leave a request that
  takes effect in a later round, when the other weights are right, and a weight that
  an edit left behind is put right by the next round.
- `route53`: two faults let an attempt leave its request behind and its call or its
  process end before that takes effect; two edits delete the zone in use and create
  another, set up zone and records under the provider's eyes, or delete a pair twice
  around the change that brings it back. `OnlyDroppedReturn` says what the read before
  the UPSERT is good for, as it cannot be more: records that the customer deletes while
  a change to them is on its way do come back, and nothing else comes into being.
- `control_plane`: two requests are the least for one to run between the statements
  of another, and what a third could do to a row the second can do as well. Each
  route meets every other on its own and on the other customer's rows. Two columns
  tell apart the one a PATCH names and one that it does not. The requests are
  numbered and end, so the run allows the deadlock at the end of them.
- `ingest`: a look-back of five units and windows of two leave one window in part and
  two as a whole; three bytes can share a window, a host and a unit or differ in
  each; a limit of two cuts an answer of three rows. Time stops at 6 for `Settles`,
  so that the last windows stay in the look-back. A loop that hangs
  waits to be killed, and the run allows the deadlock once its one fault is used up.
- `probes`: two slots hold a cancelled goroutine beside its successor; a third could
  start only before the first has ended twice over, and the theorems take any number.
  Two edits can take a target away and bring it back within a round, with the fault
  in the query between.
- `migrations`: two processes are the least for one to overtake the other without its
  lock, the third waits for the lock meanwhile; three faults reach a lost session, a
  lost commit and a crash in one behaviour. A process that serves does so for ever,
  so the run allows the deadlock when all of them do.

**Fairness.** `StormEngine` assumes weak fairness of each prober's steps: its loop
ticks for ever and every statement returns. `Billing` assumes the same of each
worker, and that a storm write that was sent is answered. No deadline bounds these
statements, as their contexts are those of the processes: that PostgreSQL answers them,
or that their connections break, is an assumption. `DnsOperator` assumes weak fairness of
its own step: the ticker fires for ever, and every query and provider call has a context
of five seconds; that the calls return is what `CallReturns` shows of the Route 53
provider. `Route53Provider` assumes that requests end, which those five seconds justify,
and strong fairness of the calls for each name, as the operator calls for every name in
every round. `UsageIngestor` assumes that the ticker begins a run when the one before is
over and that a run goes on after a statement or request that ended, and not that any of
them ends: `Settles` has the loop that hangs for ever as its other outcome.
`ProbeScheduler` assumes weak fairness of `Run` and of every goroutine, which the Go
scheduler runs: probes end in their timeout, and that queries end, which have none, is an
assumption again; and it assumes that a process that was interrupted is started again.
`Migrations` assumes that statements end and that a process that ended is started again,
and strong fairness of taking the lock, because PostgreSQL queues those who wait for it.
None assumes that storms, edits, metering,
reports, faults or time happen. Faults are bounded: a prober that fails for ever
resolves nothing. `InPeriodBilled` and `Settles` are stated with the clock at its
bound, which stands for a snapshot that stays in the billing period, or a window that
stays in the look-back, while the worker gets to run; nothing holds for one that
leaves it. Edits are bounded in `Follows` and `Converges`, which are about what
happens once they cease.

## Findings

- `storm_gauge`: `observability/metrics.go:59` calls `storm_active` the "Indicator
  for active storms by service and kind." When the UPDATE that ends a storm is
  applied and its reply is lost, the gauge is not reset, and no later evaluation
  resets it, as it finds no active storm: the gauge shows a storm for ever.

Two more places where text and code differ, which no run is kept for: the
repository's README says (line 178) that the coverage ratio "is capped by
`storm_policies.max_coverage_factor`", while `engine.go:86` multiplies it by the
factor and the comparison that follows has no effect; and it says (line 151) that the
operator "looks up the relevant hosted zone", while the id of a parent zone, cached
at `route53.go:157` when a domain was added before its own zone existed, is used
until a restart. `Billing` and `Route53Provider` follow the code in both.

## Proofs

All theorems hold for every value of the constants that satisfies the assumptions
named in the modules. Two theorems are about a single prober and say so.

| Theorem | States |
| --- | --- |
| `StormEngineProofs!TypeCorrect` | `[]TypeOK` |
| `StormEngineProofs!DuplicatesBounded` | `[]ActiveBounded`, for any number of probers |
| `StormEngineProofs!EndsAfterStarts` | `[]EndNotBeforeStart`, for any number of probers |
| `StormEngineProofs!CooldownAlwaysKept` | `[]CooldownKept`, with one prober |
| `StormEngineProofs!EndsAreFinal` | `EndedIsFinal`, with one prober |
| `BillingProofs!CoverageTypeCorrect` | `[]CoverageTypeOK`, with the write behind the read |
| `BillingProofs!MergeCorrect` | `[]MergeLosesNothing` |
| `BillingProofs!CoverageCorrect` | `[]CoveredIsUnion`, for any window and any storms |
| `BillingProofs!ReadsCoverage` | `coverageRatio` over the rows that the query selects returns what `Billing` takes as `Covered` |
| `BillingProofs!TypeCorrect` | `[]TypeOK` |
| `BillingProofs!NeverDoubleBills` | `[]BilledOnce`, for any number of workers |
| `BillingProofs!StoredBytesBilled` | `BillsStoredBytes`, for any number of workers |
| `BillingProofs!OneFactor` | `[]OneFactorPerInvoice`, for any policy edits |
| `BillingProofs!CreditsAreFinal` | `[]CreditIsFinal`, for any windows, storms and faults |
| `BillingProofs!ImplementsAtomicRuns` | `ImplementsLedger`: the refinement of `Ledger`, for any number of workers |
| `DnsOperatorProofs!TypeCorrect` | `[]TypeOK` |
| `DnsOperatorProofs!WeightsAreFresh` | `[]FreshWeights` |
| `DnsOperatorProofs!RoundSuffices` | `[]OneRoundSuffices`, for any services, names and assignment of names |
| `Route53ProviderProofs!TypeCorrect` | `[]TypeOK` |
| `Route53ProviderProofs!ReturnsAreRaces` | `[]OnlyDroppedReturn`, for any zones, names and listings |
| `Route53ProviderProofs!ImplementsProvider` | `Implements`: the refinement of `WeightProvider` |
| `ControlPlaneProofs!TypeCorrect` | `[]TypeOK`, with every stored row valid as a whole |
| `ControlPlaneProofs!Isolation` | `TenantIsolation`, for any number of requests |
| `ControlPlaneProofs!LostUpdatesAreRaces` | `PatchKeepsColumns`, for any number of requests |
| `UsageIngestorProofs!TypeCorrect` | `[]TypeOK`: runs upsert closed windows of services that were live |
| `UsageIngestorProofs!StoredWasReported` | `[]CountedOnce`, for any look-back, limit, faults and late reports |
| `UsageIngestorProofs!OneRunIsEnough` | `[]RunSuffices`, for any look-back and window |
| `UsageIngestorProofs!ShrinksHaveACause` | `NeverShrinks` |
| `ProbeSchedulerProofs!TypeCorrect` | `[]TypeOK` |
| `ProbeSchedulerProofs!OneLoop` | `[]OneLoopPerTarget`, for any number of goroutines of a target |
| `ProbeSchedulerProofs!FailuresAreReal` | `[]NoFalseFailure` |
| `ProbeSchedulerProofs!NothingElseIsStopped` | `OnlyGoneAreStopped` |
| `MigrationsProofs!TypeCorrect` | `[]TypeOK` |
| `MigrationsProofs!InOrder` | `[]SchemaInOrder`, whatever tables exist at the start |
| `MigrationsProofs!NobodyFailsAlone` | `[]OnlyFaultsFail`, when none do |

- *Storm engine.* `ActiveBounded` is not inductive: a prober that has found no active
  storm is about to add one. `RaceBounded` counts such a prober like the storm it may
  insert, and every step keeps that sum. `EndNotBeforeStart` needs that a prober
  about to resolve took its time after the storm it holds had started. With one
  prober, what the prober found in the table still holds when it writes, as nobody
  else writes storms; `CooldownKept` and `EndedIsFinal` follow from that.
- *Coverage ratio.* `MergeLosesNothing` is carried by the merge with the order of the
  merged and unread intervals: merged intervals are apart, the last starts no later
  than any unread one, and the write stays behind the read. The sum of intervals
  that are apart is the size of their union, by induction over the steps of the
  last loop, which the invariant carries. `ReadsCoverage` adds the query: a storm that
  `GetStormEventsForWindow` leaves out covers no unit of the window (`NotSelected`), so
  the union over the rows is the union over the table.
- *Billing.* `Locking` is the strengthening: workers hold different snapshots, a held
  snapshot is not invoiced, and each is in exactly one of `todo`, `current` and `build`
  with the bytes the table holds. Upserts respect the locks, so a step of the
  environment leaves held rows alone, and a commit adds exactly one line per
  snapshot that had none. `Priced` keeps the factors of a run with its cache: every
  line it builds uses the one its cache has for the service, and a committed
  invoice has the number of its run. `Settled` says of every settled reading, still
  carried or committed, that its window is over and that a storm write on its way
  is stamped after it; with `StormShape`, by which a write only starts a storm when
  none is active or ends the one that is, `Covered` of such a window cannot change.
- *The ledger.* Every step but an upsert and a commit leaves the three tables alone.
  At a commit, `Locking` gives that the run's snapshots are open and hold the bytes its
  lines state, `BilledOnce` that they have no line yet, `Priced` that the factor of a
  line is the one its cache has for the service (`LineBills`), and `Built` that the
  run bills something. So the commit is `Bill`.
- *DNS operator.* `Planned` says that the plan in hand is one its service wanted in
  this round, and a call's weights are that plan. For `OneRoundSuffices` the round is
  followed name by name: a name is `Visited` when the round is done with it for one
  of its services, and while nothing disturbs the round a visited name has the
  weights its services held throughout. At the end every owned name is visited.
- *Route 53 provider.* `OnlyDroppedReturn` is inductive together with the types: a
  change is awaited only after its pair was read, a pair that vanishes from a zone that
  stays is `dropped` if a change to it is awaited, and the id of a deleted zone does not
  come back, so no late change finds a new zone under it. That records stand only under
  the names of their zone needs both: an UPSERT puts them where they stand or where they
  were dropped. The mapping of the refinement is `records` itself; every change is one
  of the name and weights of its call, in one zone, and the customer's edits are
  `Outside`. Lookups and failed attempts with attempts left are stutters.
- *Control plane.* `IInv` is the type invariant with what a request carries: the row
  that a PATCH has loaded validates as a whole, and so does its merge with a body
  that validates (`ApplyPolicyValid`, `ApplyServiceValid`). `AuthInv` says of a
  request past a check what the check found and cannot be undone: a token that was
  good at the start, a service of the customer's that was not deleted then. It holds
  because no statement changes a service's customer or clears a deletion (`Kept`).
  `FreshInv` says that a loaded row is the row stored unless another patch has
  written it since, and that a policy never moves to another service.
- *Usage ingestor.* `Bounded` relates what a run is about to upsert to both sides: while
  nothing is edited it is no more than was reported, and no less than what is stored
  when the answer was not cut and the look-back holds the window as a whole. `Unedited`
  says that the run's locals are then the tables as they began, `Undisturbed` that
  while nothing failed or changed since the run began they are the tables as they are,
  and that what it has not upserted yet is right. The rest is about the query: an
  answer that fits the limit has every row (`AnswerIsWhole`), and the hosts without a
  row have no bytes (`BytesOfRows`). That a host's last owner is one of the services
  needs that a finite set of ids has a greatest element, which is shown by a least
  counterexample (`MaxIn`).
- *Probe scheduler.* `OneLoopPerTarget` is inductive together with the types. A
  failed probe is one of a target that is down or of a cancelled goroutine
  (`ReportInv`), and cancels are not undone before the goroutine reports. `RoundInv`
  follows a round: a held target wanted all along is in `active`, or its service is
  still to be read with a set of CDNs that has it.
- *Migrations.* What a loop has passed is recorded (`Passed`), and a commit takes the
  least file left, so it extends the recorded prefix, with the lock or without it.
  For `NobodyFailsAlone` the lock matters: without a fault, whoever migrates holds
  it, so what its loop has left is exactly what is not recorded (`LockInv`).

Only model-checked: liveness (`StormClears`, `StormStarts`, `InPeriodBilled`,
`Converges`, `CallReturns`, `Settles`, `Follows`, `Starts`), which is out of the
prover's reach under fairness. Every safety and action property that a run checks is
also a theorem. The violated property is a counterexample of TLC.

## Not modelled

- The per-service ingestor (`internal/cdn/ingestor.go` and its providers): no command
  builds it, and nothing in the repository says when it would run.
- The in-memory recorder of availability, which no command uses, the Prometheus
  counters and the HTTP listener for them: no program reads them. The average that
  `GetProbeAvailability` takes is any level to `StormEngine`.
- Configuration, logging and the domain type declarations: no state after start.
- HTTP, JSON and GraphQL encoding, beyond the errors they end in.
- Clock skew between the database and the processes.
