--------------------------- MODULE UsageIngestor ---------------------------
(***************************************************************************)
(* The usage ingestor: internal/usageingestor/engine.go over the           *)
(* Cloudflare client (internal/cdn/cloudflare/client.go), run again and    *)
(* again by the ticker of cmd/usage-ingestor.                              *)
(*                                                                         *)
(* Time is counted in units, several of them to a window, so that the      *)
(* look-back may begin inside a window.  The CDN reports requests late,    *)
(* the control plane edits domains and services, and every statement of a  *)
(* run may fail; all of it may happen between two statements of a run.     *)
(***************************************************************************)
EXTENDS Integers, FiniteSets, FiniteSetsExt

CONSTANTS
  Services,   \* service ids
  Hosts,      \* domain names, of one or of several services
  Registered, \* service_domains at the start
  Window,     \* USAGE_WINDOW
  Hour,       \* the window the CDN reports
  Lookback,   \* USAGE_LOOKBACK
  Limit,      \* rows in an answer of the CDN
  Busy,       \* units in which requests are made
  MaxClock, MaxUsage, MaxFaults, MaxEdits,  \* bounds on time and on events
  NULL

ASSUME TimesAssumption ==
  /\ Window \in Nat \ {0}
  /\ Hour \in Nat \ {0}
  /\ Lookback \in Nat
  /\ Busy \subseteq 0 .. MaxClock - 1
  /\ MaxClock \in Nat

ASSUME ServicesAssumption ==
  /\ Services \subseteq Nat /\ IsFiniteSet(Services)
  /\ Registered \subseteq Services \X Hosts

ASSUME LimitAssumption == Limit \in Nat

ASSUME NullAssumption == NULL \notin Nat

VARIABLES
  clock,      \* time.Now()
  log,        \* what the CDN has reported: <<host, unit, n>> for its n-th byte
  live,       \* services whose deleted_at is NULL
  domains,    \* service_domains: <<service, host>> pairs
  snapshots,  \* usage_snapshots: the bytes of a service in a window
  pc,         \* where the engine is in RunOnce
  until,      \* alignedNow
  services,   \* the services of the run
  owner,      \* hostToService
  pending,    \* the aggregates not upserted yet
  faults, edits,
  fresh       \* history: nothing failed or changed since the run began

world  == <<clock, log, live, domains>>
locals == <<pc, until, services, owner, pending>>
vars   == <<world, snapshots, locals, faults, edits, fresh>>

Units == 0 .. MaxClock - 1

Truncate(t) == (t \div Window) * Window

Windows == {Truncate(t) : t \in Units}

Keys == Services \X Windows

Nothing == [x \in {} |-> 0]

Init ==
  /\ clock = 0
  /\ log = {}
  /\ live = Services
  /\ domains = Registered
  /\ snapshots = [k \in Keys |-> NULL]
  /\ pc = "idle"
  /\ until = 0
  /\ services = {}
  /\ owner = Nothing
  /\ pending = Nothing
  /\ faults = 0
  /\ edits = 0
  /\ fresh = FALSE

Fault == faults < MaxFaults /\ faults' = faults + 1 /\ fresh' = FALSE

Edit == edits < MaxEdits /\ edits' = edits + 1 /\ fresh' = FALSE

-----------------------------------------------------------------------------
(* Client.Usage                                                            *)

\* Bytes of hosts H in window w from time "from" up to time "to".
Bytes(H, w, from, to) ==
  Cardinality({b \in log : b[1] \in H /\ Truncate(b[2]) = w /\ from <= b[2] /\ b[2] < to})

\* The rows <<window, host>> of a query: hosts without requests have none.
Rows(H, from, to) ==
  {<<Truncate(b[2]), b[1]>> : b \in {b \in log : b[1] \in H /\ from <= b[2] /\ b[2] < to}}

\* limit: 10000, orderBy: [datetimeHour_ASC]; the order within an hour is open.
FirstRows(R) ==
  {A \in SUBSET R :
     /\ Cardinality(A) = Min({Limit, Cardinality(R)})
     /\ \A a \in A, r \in R \ A : a[1] <= r[1]}

-----------------------------------------------------------------------------
(* RunOnce                                                                 *)

\* A run that goes no further forgets its locals.
Leave(there) ==
  /\ pc' = there
  /\ services' = {}
  /\ owner' = Nothing
  /\ pending' = Nothing

Return == Leave("idle")

\* Faulty: only the last window is looked at.
LastWindow(to) == to - Window

WindowStart(to) == to - Lookback

\* GetActiveServices, after alignedNow is taken from the clock.
ListServices ==
  /\ pc = "idle"
  /\ until' = Truncate(clock)
  /\ fresh' = TRUE
  /\ IF live = {} THEN Return
     ELSE /\ services' = live
          /\ pc' = "domains"
          /\ UNCHANGED <<owner, pending>>
  /\ UNCHANGED <<world, snapshots, faults, edits>>

\* loadDomains: the rows come by service id, and the last one of a host counts.
OwnerOf(S) ==
  LET of(h) == {s \in S : <<s, h>> \in domains}
  IN  [h \in {h \in Hosts : of(h) # {}} |-> Max(of(h))]

LoadOwners(S) ==
  /\ pc = "domains"
  /\ IF OwnerOf(S) = Nothing THEN Return
     ELSE /\ owner' = OwnerOf(S)
          /\ pc' = "query"
          /\ UNCHANGED <<services, pending>>
  /\ UNCHANGED <<world, until, snapshots, faults, edits, fresh>>

\* Faulty: domains of deleted services are kept.
LoadAllDomains == LoadOwners(Services)

LoadDomains == LoadOwners(services)

\* Hosts of service k[1] whose row for window k[2] is in the answer A.
HostsIn(A, k) == {h \in DOMAIN owner : owner[h] = k[1] /\ <<k[2], h>> \in A}

\* Faulty: agg.PrimaryBytes = u.Bytes
LastHost(A, k, from) == Bytes({CHOOSE h \in HostsIn(A, k) : TRUE}, k[2], from, until)

\* agg.PrimaryBytes += u.Bytes
Aggregate(A, k, from) == Bytes(HostsIn(A, k), k[2], from, until)

\* The client refuses any window but an hour.
QueryUsage ==
  /\ pc = "query"
  /\ Window = Hour
  /\ LET from == WindowStart(until)
     IN  \E A \in FirstRows(Rows(DOMAIN owner, from, until)) :
           IF A = {} THEN Return
           ELSE /\ pending' = [k \in {<<owner[a[2]], a[1]>> : a \in A} |-> Aggregate(A, k, from)]
                /\ pc' = "upsert"
                /\ UNCHANGED <<services, owner>>
  /\ UNCHANGED <<world, until, snapshots, faults, edits, fresh>>

\* Faulty: ON CONFLICT adds to the bytes that are stored.
UpsertAdds(k) ==
  snapshots' = [snapshots EXCEPT ![k] = IF @ = NULL THEN pending[k] ELSE @ + pending[k]]

\* UpsertUsageSnapshot: ON CONFLICT replaces the bytes, invoiced or not.
UpsertUsageSnapshot(k) == snapshots' = [snapshots EXCEPT ![k] = pending[k]]

\* The aggregates are a Go map, and come in any order.
Upsert(k) ==
  /\ pc = "upsert"
  /\ k \in DOMAIN pending
  /\ UpsertUsageSnapshot(k)
  /\ IF DOMAIN pending = {k} THEN Return
     ELSE /\ pending' = [j \in DOMAIN pending \ {k} |-> pending[j]]
          /\ UNCHANGED <<pc, services, owner>>
  /\ UNCHANGED <<world, until, faults, edits, fresh>>

\* A statement or the query fails, or the process dies: the run is over.
Fails ==
  /\ pc # "idle"
  /\ Fault
  /\ Return
  /\ UNCHANGED <<world, until, snapshots, edits>>

\* A request or a statement that never ends: neither main's context nor the
\* client has a deadline, and no run begins again until the process is killed.
Hangs ==
  /\ pc \notin {"idle", "hung"}
  /\ Leave("hung")
  /\ fresh' = FALSE
  /\ UNCHANGED <<world, until, snapshots, faults, edits>>

\* A statement that fails for its caller may have been applied.
LosesReply(k) ==
  /\ pc = "upsert"
  /\ k \in DOMAIN pending
  /\ UpsertUsageSnapshot(k)
  /\ Fault
  /\ Return
  /\ UNCHANGED <<world, until, edits>>

-----------------------------------------------------------------------------
(* The world around a run.                                                 *)

Tick ==
  /\ clock < MaxClock
  /\ clock' = clock + 1
  /\ UNCHANGED <<log, live, domains, snapshots, locals, faults, edits, fresh>>

\* Requests of any time up to now, those of the past being reported late.
Report(h, t) ==
  /\ t < clock
  /\ Cardinality(log) < MaxUsage
  /\ log' = log \cup {<<h, t, Cardinality({b \in log : b[1] = h /\ b[2] = t}) + 1>>}
  /\ fresh' = FALSE
  /\ UNCHANGED <<clock, live, domains, snapshots, locals, faults, edits>>

DeleteService(s) ==
  /\ s \in live
  /\ Edit
  /\ live' = live \ {s}
  /\ UNCHANGED <<clock, log, domains, snapshots, locals, faults>>

EditDomain(s, h) ==
  /\ Edit
  /\ s \in live
  /\ domains' \in {domains \cup {<<s, h>>}, domains \ {<<s, h>>}} \ {domains}
  /\ UNCHANGED <<clock, log, live, snapshots, locals, faults>>

Run == ListServices \/ LoadDomains \/ QueryUsage \/ (\E k \in Keys : Upsert(k))

Next ==
  \/ Run
  \/ Fails
  \/ Hangs
  \/ \E k \in Keys : LosesReply(k)
  \/ Tick
  \/ \E h \in Hosts, t \in Busy : Report(h, t)
  \/ \E s \in Services : DeleteService(s)
  \/ \E s \in Services, h \in Hosts : EditDomain(s, h)

Spec == Init /\ [][Next]_vars

\* The ticker begins a run when the one before it is over, and a run goes on
\* from each statement and request that ends.  None has to end (Hangs).
FairSpec == Spec /\ WF_vars(Run)

-----------------------------------------------------------------------------
(* Properties                                                              *)

\* Shapes, and: a run upserts only services that were live when it began, in
\* windows that begin on a multiple of the window and were over by then.
TypeOK ==
  /\ clock \in 0 .. MaxClock
  /\ log \subseteq Hosts \X Units \X Nat /\ IsFiniteSet(log)
  /\ live \subseteq Services
  /\ domains \subseteq Services \X Hosts
  /\ snapshots \in [Keys -> Nat \cup {NULL}]
  /\ pc \in {"idle", "domains", "query", "upsert", "hung"}
  /\ until \in Nat /\ Truncate(until) = until
  /\ services \subseteq Services
  /\ DOMAIN owner \subseteq Hosts
  /\ \A h \in DOMAIN owner : owner[h] \in services
  /\ \A k \in DOMAIN pending :
       /\ k \in Keys /\ k[1] \in services
       /\ k[2] % Window = 0 /\ k[2] + Window <= until
       /\ pending[k] \in Nat
  /\ pc \notin {"query", "upsert"} => owner = Nothing
  /\ pc # "upsert" => pending = Nothing
  /\ faults \in Nat /\ edits \in Nat /\ fresh \in BOOLEAN

Stored(k) == IF snapshots[k] = NULL THEN 0 ELSE snapshots[k]

\* What the CDN has reported for a service's hosts in a window.
Used(s, w) ==
  LET own == OwnerOf(live)
  IN  Bytes({h \in DOMAIN own : own[h] = s}, w, 0, MaxClock)

\* The look-back of a run up to "to" holds all of window w.
Whole(w, to) == to - Lookback <= w /\ w + Window <= to

\* The answer to a query for hosts H up to "to" is not cut at the limit.
Fits(H, to) == Cardinality(Rows(H, to - Lookback, to)) <= Limit

\* Hours that a run, begun at "to" over the tables as they are, must get right.
Right(to) ==
  Fits(DOMAIN OwnerOf(live), to) =>
    \A s \in live : \A w \in Windows :
      (Whole(w, to) /\ Used(s, w) > 0) => snapshots[<<s, w>>] = Used(s, w)

\* "Upserts rows into usage_snapshots without double-inserting" (README): late
\* reports, failures, lost replies and runs that overlap in their look-back
\* never make the stored bytes of a service's window more than the CDN reported
\* for its hosts.  A host counts for one service, so neither does their sum.
CountedOnce ==
  edits = 0 => \A s \in Services : \A w \in Windows : Stored(<<s, w>>) <= Used(s, w)

\* After a run in which nothing failed and nothing changed, every service has
\* the reported bytes in each window that the look-back holds as a whole.
RunSuffices == (pc = "idle" /\ fresh) => Right(until)

\* Stored bytes shrink for three reasons only: domains or services were
\* edited, the look-back begins inside the window, or the answer was cut.
NeverShrinks ==
  [][\A s \in Services : \A w \in Windows :
       Stored(<<s, w>>)' < Stored(<<s, w>>) =>
         edits > 0 \/ ~Whole(w, until) \/ ~Fits(DOMAIN owner, until)]_vars

\* A window that stays in the look-back gets its bytes in the end, however the
\* runs before failed, since each run repeats the windows of the look-back;
\* or one request that hangs has stopped the only loop for ever.
Settles == <>[]Right(Truncate(clock)) \/ <>[](pc = "hung")
=============================================================================
