------------------------------ MODULE Billing ------------------------------
(***************************************************************************)
(* The billing workers (cmd/billing-worker, internal/billing/engine.go)    *)
(* over the tables usage_snapshots, invoice_line_items, storm_events and   *)
(* storm_policies, while metering upserts usage and a prober starts and    *)
(* resolves storms.                                                        *)
(*                                                                         *)
(* RunOnce is one READ COMMITTED transaction: its writes become visible    *)
(* together, at the commit, but each of its SELECTs reads what is          *)
(* committed when it runs.  Its first statement locks the snapshots and    *)
(* the services rows it joins (FOR UPDATE SKIP LOCKED).  Time and bytes    *)
(* are counted in whole units; rates are percentages.                      *)
(***************************************************************************)
EXTENDS StormEvents

CONSTANTS
  Workers,      \* billing workers
  Services,     \* service ids
  CustomerOf,   \* services.customer_id
  Snaps,        \* usage_snapshots ids
  Window,       \* the service, start and end of each snapshot
  Bytes,        \* byte counts metering reports
  UnitsPerGB,   \* how many units of bytes make a GB
  CentsPerGB,   \* BILLING_RATE_CENTS_PER_GB
  DiscountPct,  \* BILLING_DISCOUNT_RATE
  Period,       \* BILLING_PERIOD
  Factors,      \* max_coverage_factor values of a service's policies
  MaxClock, MaxStorms, MaxUpserts, MaxFaults  \* bounds

ASSUME WorkersAssumption == IsFiniteSet(Workers)

ASSUME CustomerAssumption == CustomerOf \in [Services -> Nat]

ASSUME WindowAssumption ==
  \A s \in Snaps :
    /\ Window[s].service \in Services
    /\ Window[s].start \in Nat /\ Window[s].end \in Nat
    /\ Window[s].start < Window[s].end

ASSUME AmountsAssumption ==
  /\ Bytes \subseteq Nat /\ Factors \subseteq Nat
  /\ UnitsPerGB \in Nat \ {0} /\ CentsPerGB \in Nat /\ DiscountPct \in Nat

ASSUME BoundsAssumption ==
  /\ Period \in Nat \ {0} /\ MaxClock \in Nat
  /\ MaxStorms \in Nat /\ MaxUpserts \in Nat /\ MaxFaults \in Nat

VARIABLES
  row,      \* usage_snapshots: bytes and invoice of each id, or NULL
  lines,    \* invoice_line_items
  batches,  \* committed billing runs
  storms,   \* storm_events of each service
  write,    \* the storm write each service's prober has in flight, or NULL
  factor,   \* MAX(max_coverage_factor) of each service
  clock, upserts, faults,
  pc,       \* where each worker is in RunOnce
  now,      \* RunOnce's argument
  held,     \* the snapshots it has locked, with their services
  todo,     \* locked snapshots not billed yet, as they were read
  current,  \* the snapshot being billed and its coverage, or NULL
  cache,    \* coverageCache: <<service, factor>> pairs
  build     \* the line items of its invoices

tables  == <<row, lines, batches, storms, factor>>
world   == <<storms, write, factor, clock, upserts>>
locals  == <<pc, now, held, todo, current, cache, build>>
vars    == <<row, lines, batches, storms, write, factor, clock, upserts, faults,
             pc, now, held, todo, current, cache, build>>

SnapRow == [primary : Bytes, backup : Bytes, invoice : (Nat \X Nat) \cup {NULL}]

ASSUME NoRowAssumption == NULL \notin Nat \X Nat /\ NULL \notin SnapRow

\* A row as a run reads it, and the snapshot it is billing.
Read == [snap : Snaps, primary : Bytes, backup : Bytes]
Reading == [row : Read, covered : Nat, settled : BOOLEAN]

\* A line item; settled is history: no storm write of its service was in
\* flight when the storms were read.
Item == [snap : Snaps, primary : Bytes, backup : Bytes, covered : Nat,
         factor : Nat, amount : Nat, discount : Nat, settled : BOOLEAN]

Customer(s) == CustomerOf[Window[s].service]

Init ==
  /\ row = [s \in Snaps |-> NULL]
  /\ lines = {}
  /\ batches = 0
  /\ storms = [v \in Services |-> {}]
  /\ write = [v \in Services |-> NULL]
  /\ factor \in [Services -> Factors]
  /\ clock = 0
  /\ upserts = 0
  /\ faults = 0
  /\ pc = [w \in Workers |-> "idle"]
  /\ now = [w \in Workers |-> 0]
  /\ held = [w \in Workers |-> {}]
  /\ todo = [w \in Workers |-> {}]
  /\ current = [w \in Workers |-> NULL]
  /\ cache = [w \in Workers |-> {}]
  /\ build = [w \in Workers |-> {}]

-----------------------------------------------------------------------------
(* Amounts and coverage.                                                   *)

\* math.Round of the non-negative fraction n / d.
Rounded(n, d) == (2 * n + d) \div (2 * d)

chargeForBytes(bytes) == Rounded(bytes * CentsPerGB, UnitsPerGB)

Least(a, b) == IF a < b THEN a ELSE b

Discount(primary, backup, covered, f, duration) ==
  Least(Rounded(chargeForBytes(backup) * DiscountPct * covered * f, 10000 * duration),
        chargeForBytes(primary) + chargeForBytes(backup))

\* What coverageRatio computes of the storms of GetStormEventsForWindow.
Covered(s) ==
  CoveredTime(storms[Window[s].service], Window[s].start, Window[s].end)

-----------------------------------------------------------------------------
(* RunOnce.                                                                *)

Begin(w) ==
  /\ pc[w] = "idle"
  /\ now' = [now EXCEPT ![w] = clock]
  /\ pc' = [pc EXCEPT ![w] = "lock"]
  /\ UNCHANGED <<tables, write, clock, upserts, faults, held, todo, current, cache, build>>

Locked(v) == \E w \in Workers : \E s \in held[w] : Window[s].service = v

\* Faulty: without window_end <= now.
UnbilledOpen(t) ==
  {s \in Snaps : /\ row[s] # NULL
                 /\ row[s].invoice = NULL
                 /\ Window[s].end > t - Period}

Unbilled(t) ==
  {s \in Snaps : /\ row[s] # NULL
                 /\ row[s].invoice = NULL
                 /\ Window[s].end <= t
                 /\ Window[s].end > t - Period}

\* Services whose row an INSERT INTO storm_events has key-share locked.
Inserting == {v \in Services : write[v] # NULL /\ write[v].ended = NULL}

AsRead(s) == [snap |-> s, primary |-> row[s].primary, backup |-> row[s].backup]

\* Faulty: SELECT without FOR UPDATE SKIP LOCKED.
ListUnbilled(w) ==
  /\ pc[w] = "lock"
  /\ todo' = [todo EXCEPT ![w] = {AsRead(s) : s \in Unbilled(now[w])}]
  /\ cache' = [cache EXCEPT ![w] = {}]
  /\ pc' = [pc EXCEPT ![w] = IF Unbilled(now[w]) = {} THEN "idle" ELSE "storms"]
  /\ UNCHANGED <<tables, write, clock, upserts, faults, now, held, current, build>>

\* A storm insert in flight may have locked its service row or not yet.
LockUnbilled(w) ==
  /\ pc[w] = "lock"
  /\ \E busy \in SUBSET Inserting :
       LET free == {s \in Unbilled(now[w]) : /\ ~Locked(Window[s].service)
                                             /\ Window[s].service \notin busy}
       IN  /\ held' = [held EXCEPT ![w] = @ \cup free]
           /\ todo' = [todo EXCEPT ![w] = {AsRead(s) : s \in free}]
           /\ pc' = [pc EXCEPT ![w] = IF free = {} THEN "idle" ELSE "storms"]
  /\ cache' = [cache EXCEPT ![w] = {}]
  /\ UNCHANGED <<tables, write, clock, upserts, faults, now, current, build>>

\* ORDER BY window_start, then GetStormEventsForWindow.
ReadStorms(w) ==
  /\ pc[w] = "storms"
  /\ \E r \in todo[w] :
       /\ \A q \in todo[w] : Window[r.snap].start <= Window[q.snap].start
       /\ todo' = [todo EXCEPT ![w] = @ \ {r}]
       /\ current' = [current EXCEPT ![w] =
            [row     |-> r,
             covered |-> Covered(r.snap),
             settled |-> write[Window[r.snap].service] = NULL]]
  /\ pc' = [pc EXCEPT ![w] = "factor"]
  /\ UNCHANGED <<tables, write, clock, upserts, faults, now, held, cache, build>>

LineItem(c, f) ==
  LET r == c.row
      duration == Window[r.snap].end - Window[r.snap].start
  IN  [snap     |-> r.snap,
       primary  |-> r.primary,
       backup   |-> r.backup,
       covered  |-> c.covered,
       factor   |-> f,
       amount   |-> chargeForBytes(r.primary) + chargeForBytes(r.backup),
       discount |-> Discount(r.primary, r.backup, c.covered, f, duration),
       settled  |-> c.settled]

\* Faulty: the factor is read anew for every snapshot.
UncachedFactor(w, v) == factor[v]

\* maxCoverageFactor: the factor cached in this run, or the one stored now.
maxCoverageFactor(w, v) ==
  IF \E f \in Factors : <<v, f>> \in cache[w]
  THEN CHOOSE f \in Factors : <<v, f>> \in cache[w]
  ELSE factor[v]

BillSnapshot(w) ==
  /\ pc[w] = "factor"
  /\ LET v == Window[current[w].row.snap].service
         f == maxCoverageFactor(w, v)
     IN  /\ cache' = [cache EXCEPT ![w] = @ \cup {<<v, f>>}]
         /\ build' = [build EXCEPT ![w] = @ \cup {LineItem(current[w], f)}]
  /\ current' = [current EXCEPT ![w] = NULL]
  /\ pc' = [pc EXCEPT ![w] = IF todo[w] = {} THEN "commit" ELSE "storms"]
  /\ UNCHANGED <<tables, write, clock, upserts, faults, now, held, todo>>

\* The id of the invoice of customer c in the n-th committed run.
InvoiceId(n, c) == <<n, c>>

Billed(w) == {item.snap : item \in build[w]}

Invoicing(w) ==
  {[invoice |-> InvoiceId(batches + 1, Customer(item.snap)), item |-> item] : item \in build[w]}

\* InsertInvoice, InsertInvoiceLineItem and MarkUsageSnapshotInvoiced for each
\* customer of the run, visible to others at tx.Commit.
Commit(w) ==
  /\ pc[w] = "commit"
  /\ batches' = batches + 1
  /\ lines' = lines \cup Invoicing(w)
  /\ row' = [s \in Snaps |->
       IF s \in Billed(w)
       THEN [row[s] EXCEPT !.invoice = InvoiceId(batches + 1, Customer(s))]
       ELSE row[s]]
  /\ held' = [held EXCEPT ![w] = {}]
  /\ build' = [build EXCEPT ![w] = {}]
  /\ pc' = [pc EXCEPT ![w] = "idle"]
  /\ UNCHANGED <<world, faults, now, todo, current, cache>>

\* Faulty: an error path that leaves the transaction open.
AbortKeepingLocks(w) ==
  /\ pc[w] # "idle"
  /\ faults < MaxFaults
  /\ faults' = faults + 1
  /\ todo' = [todo EXCEPT ![w] = {}]
  /\ current' = [current EXCEPT ![w] = NULL]
  /\ build' = [build EXCEPT ![w] = {}]
  /\ pc' = [pc EXCEPT ![w] = "idle"]
  /\ UNCHANGED <<tables, write, clock, upserts, now, held, cache>>

\* A statement fails or the worker dies: the transaction is rolled back.
Abort(w) ==
  /\ pc[w] # "idle"
  /\ faults < MaxFaults
  /\ faults' = faults + 1
  /\ held' = [held EXCEPT ![w] = {}]
  /\ todo' = [todo EXCEPT ![w] = {}]
  /\ current' = [current EXCEPT ![w] = NULL]
  /\ build' = [build EXCEPT ![w] = {}]
  /\ pc' = [pc EXCEPT ![w] = "idle"]
  /\ UNCHANGED <<tables, write, clock, upserts, now, cache>>

WorkerStep(w) ==
  Begin(w) \/ LockUnbilled(w) \/ ReadStorms(w) \/ BillSnapshot(w) \/ Commit(w)

-----------------------------------------------------------------------------
(* Metering, the prober's storm writes, policy edits and time.             *)

\* Faulty: ON CONFLICT writes all columns.
InvoiceCleared(s) == NULL

\* ON CONFLICT leaves invoice_id as it is.
InvoiceKept(s) == IF row[s] = NULL THEN NULL ELSE row[s].invoice

\* UpsertUsageSnapshot: an update waits for the row's lock, an insert for the
\* services row its foreign key names.
UpsertUsageSnapshot(s) ==
  /\ upserts < MaxUpserts
  /\ Window[s].start <= clock
  /\ IF row[s] = NULL THEN ~Locked(Window[s].service) ELSE \A w \in Workers : s \notin held[w]
  /\ \E p, b \in Bytes :
       row' = [row EXCEPT ![s] =
         [primary |-> p, backup |-> b, invoice |-> InvoiceKept(s)]]
  /\ upserts' = upserts + 1
  /\ UNCHANGED <<lines, batches, storms, write, factor, clock, faults, locals>>

ActiveStorms(v) == {st \in storms[v] : st.ended = NULL}

\* The stamp of a storm that starts, NOW() of its INSERT.  Storms of a service
\* follow one another as the clock goes on, so that time bounds their number.
StampStart(v) ==
  /\ write[v] = NULL
  /\ ActiveStorms(v) = {}
  /\ \A st \in storms[v] : st.started < clock
  /\ Cardinality(storms[v]) < MaxStorms
  /\ write' = [write EXCEPT ![v] = [started |-> clock, ended |-> NULL]]
  /\ UNCHANGED <<tables, clock, upserts, faults, locals>>

\* The stamp of a storm that is resolved, the engine's now.
StampEnd(v) ==
  /\ write[v] = NULL
  /\ \E st \in ActiveStorms(v) :
       write' = [write EXCEPT ![v] = [st EXCEPT !.ended = clock]]
  /\ UNCHANGED <<tables, clock, upserts, faults, locals>>

\* The write is applied; the insert waits for the services row it references.
LandWrite(v) ==
  /\ write[v] # NULL
  /\ v \in Inserting => ~Locked(v)
  /\ storms' = [storms EXCEPT ![v] = (@ \ ActiveStorms(v)) \cup {write[v]}]
  /\ write' = [write EXCEPT ![v] = NULL]
  /\ UNCHANGED <<row, lines, batches, factor, clock, upserts, faults, locals>>

LoseWrite(v) ==
  /\ write[v] # NULL
  /\ faults < MaxFaults
  /\ faults' = faults + 1
  /\ write' = [write EXCEPT ![v] = NULL]
  /\ UNCHANGED <<tables, clock, upserts, locals>>

\* A policy of the service is created, patched or deleted.
EditPolicy(v) ==
  /\ \E f \in Factors \ {factor[v]} : factor' = [factor EXCEPT ![v] = f]
  /\ UNCHANGED <<row, lines, batches, storms, write, clock, upserts, faults, locals>>

Advance ==
  /\ clock < MaxClock
  /\ clock' = clock + 1
  /\ UNCHANGED <<tables, write, upserts, faults, locals>>

Next ==
  \/ \E w \in Workers : WorkerStep(w) \/ Abort(w)
  \/ \E s \in Snaps : UpsertUsageSnapshot(s)
  \/ \E v \in Services : StampStart(v) \/ StampEnd(v) \/ LandWrite(v) \/ LoseWrite(v) \/ EditPolicy(v)
  \/ Advance

\* The ticker of cmd/billing-worker.  That statements end, the prober's writes
\* too, is assumed: they have the context of the process and no deadline.
Fairness ==
  /\ \A w \in Workers : WF_vars(WorkerStep(w))
  /\ \A v \in Services : WF_vars(LandWrite(v))

Spec == Init /\ [][Next]_vars

FairSpec == Spec /\ Fairness

-----------------------------------------------------------------------------
(* The shape of the state: a worker between two runs holds no lock and has *)
(* no line items left over.                                                *)
TypeOK ==
  /\ row \in [Snaps -> SnapRow \cup {NULL}]
  /\ lines \subseteq [invoice : Nat \X Nat, item : Item]
  /\ batches \in Nat
  /\ storms \in [Services -> SUBSET Storm]
  /\ write \in [Services -> Storm \cup {NULL}]
  /\ factor \in [Services -> Factors]
  /\ clock \in Nat /\ upserts \in Nat /\ faults \in Nat
  /\ pc \in [Workers -> {"idle", "lock", "storms", "factor", "commit"}]
  /\ now \in [Workers -> Nat]
  /\ held \in [Workers -> SUBSET Snaps]
  /\ todo \in [Workers -> SUBSET Read]
  /\ current \in [Workers -> Reading \cup {NULL}]
  /\ cache \in [Workers -> SUBSET (Services \X Factors)]
  /\ build \in [Workers -> SUBSET Item]
  /\ \A w \in Workers :
       /\ pc[w] \in {"idle", "lock"} => held[w] = {} /\ todo[w] = {} /\ build[w] = {}
       /\ pc[w] = "commit" => todo[w] = {}
       /\ IF pc[w] = "factor" THEN current[w] \in Reading ELSE current[w] = NULL

LinesOf(s) == {l \in lines : l.item.snap = s}

Invoiced(s) == row[s] # NULL /\ row[s].invoice # NULL

(* "the worker never double bills" (README, Billing and invoicing flow): a *)
(* snapshot that carries an invoice id has exactly one line item, on that  *)
(* invoice, and a snapshot without one has none, whatever workers overlap, *)
(* fail or die (engine.go:58-61, 133-177).                                 *)
BilledOnce ==
  \A s \in Snaps :
    IF Invoiced(s)
    THEN \E l \in lines : LinesOf(s) = {l} /\ l.invoice = row[s].invoice
    ELSE LinesOf(s) = {}

(* A line item states the bytes its snapshot holds at the moment it is     *)
(* invoiced: no upsert slips between the read of a snapshot and the commit *)
(* (engine.go:58-61, 117-126, 175).                                        *)
BillsStoredBytes ==
  [][\A l \in lines' \ lines :
       /\ row[l.item.snap] # NULL
       /\ l.item.primary = row[l.item.snap].primary
       /\ l.item.backup = row[l.item.snap].backup]_vars

(* The line items one invoice has for one service use one coverage factor, *)
(* although policies change while the run reads them (engine.go:190-204).  *)
OneFactorPerInvoice ==
  \A k, l \in lines :
    k.invoice = l.invoice /\ Window[k.item.snap].service = Window[l.item.snap].service
      => k.item.factor = l.item.factor

(* The storm time a line credits is never revised: what was read once the  *)
(* window had ended, with no storm write in flight, is what the storm      *)
(* table says of the window ever after (engine.go:58-61, 73-89).           *)
CreditIsFinal ==
  \A l \in lines : l.item.settled => l.item.covered = Covered(l.item.snap)

Promise ==
  INSTANCE Ledger WITH
    ServiceOf <- [s \in Snaps |-> Window[s].service],
    PayerOf   <- [s \in Snaps |-> Customer(s)],
    runs      <- batches

(* To whoever reads the snapshots and the line items, the overlapping,     *)
(* failing and dying runs of all workers look like runs that each bill in  *)
(* one atomic step, over tables that change while they read them           *)
(* (engine.go:49-188).                                                     *)
ImplementsLedger == Promise!LedgerSpec

(* A snapshot inside the billing period is invoiced in the end: a failed   *)
(* run, a dead worker, or a row that was skipped for another worker's lock *)
(* or that of a storm's INSERT, is made up for by a later run.             *)
(* Time stands still at the bound, which keeps the snapshot in the period  *)
(* (cmd/billing-worker/main.go:42-52).                                     *)
InPeriodBilled ==
  \A s \in Snaps :
    (clock = MaxClock /\ row[s] # NULL /\ s \in Unbilled(clock)) ~> Invoiced(s)
=============================================================================
