---------------------------- MODULE DnsOperator ----------------------------
(***************************************************************************)
(* The DNS operator (cmd/dns-operator/main.go) with the planner            *)
(* (internal/routing/planner.go), over a provider of weighted records.     *)
(*                                                                         *)
(* Each query and each SetWeights call of a round is a step of its own, so *)
(* storms start and end, domains and services come and go between the read *)
(* of a service's weights and their use.  A round is begun again and again *)
(* by the ticker.                                                          *)
(***************************************************************************)
EXTENDS WeightProvider

CONSTANTS
  Services,   \* service ids
  Registered, \* values of service_domains at the start
  ZoneOf,     \* the zone a name's calls reach, which its records stand in
  MaxFaults,  \* bound on the failures of a behaviour
  MaxEdits    \* bound on control-plane edits

ASSUME ServicesAssumption ==
  /\ Services \subseteq Nat
  /\ Registered \subseteq SUBSET (Services \X Names)

ASSUME ZoneOfAssumption == ZoneOf \in [Names -> Zones]

Primary == <<100, 0>>
Backup  == <<0, 100>>

ASSUME WeightsAssumption == {Primary, Backup} \subseteq Weights

VARIABLES
  live,      \* services whose deleted_at is NULL
  storming,  \* services with a storm whose ended_at is NULL
  domains,   \* service_domains: <<service, name>> pairs
  faults, edits,
  pc,        \* where the operator is in its round
  todo,      \* services of the round not planned yet
  svc,       \* the service being reconciled
  want,      \* the weights DesiredRouting returned for it
  names,     \* its names not set yet
  held,      \* history: the weights each service wanted since the round began
  calm       \* history: no failure, edit or late request since then

tables == <<live, storming, domains>>
round  == <<pc, todo, svc, want, names>>
vars   == <<providerVars, tables, faults, edits, round, held, calm>>

Desired(s) == IF s \in storming THEN Backup ELSE Primary

\* The weights in force for a name, NULL without records.
InForce(n) == served[ZoneOf[n]][n]

NamesOf(s) == {n \in Names : <<s, n>> \in domains}

Init ==
  /\ ProviderInit
  /\ live = Services
  /\ storming \in SUBSET Services
  /\ domains \in Registered
  /\ faults = 0
  /\ edits = 0
  /\ pc = "idle"
  /\ todo = {}
  /\ svc = NULL
  /\ want = NULL
  /\ names = {}
  /\ held = [s \in Services |-> {Desired(s)}]
  /\ calm = TRUE

Fault == faults < MaxFaults /\ faults' = faults + 1 /\ calm' = FALSE

Edit == edits < MaxEdits /\ edits' = edits + 1 /\ calm' = FALSE

-----------------------------------------------------------------------------
(* reconcile, and the body of the ticker's case, which repeats it.         *)

\* GetActiveServices; when it fails the round is over before it began.
ListServices ==
  /\ pc = "idle"
  /\ pc' = "services"
  /\ todo' = live
  /\ held' = [s \in Services |-> {Desired(s)}]
  /\ calm' = (\A r \in Request : late[r] = 0)
  /\ UNCHANGED <<providerVars, tables, faults, edits, svc, want, names>>

NextService(s) ==
  /\ pc = "services"
  /\ s \in todo
  /\ \A t \in todo : s <= t
  /\ todo' = todo \ {s}

\* DesiredRouting: the backup takes all traffic while any storm is active.
PlanService(s) ==
  /\ NextService(s)
  /\ svc' = s
  /\ want' = Desired(s)
  /\ pc' = "domains"
  /\ UNCHANGED <<providerVars, tables, faults, edits, names, held, calm>>

\* Faulty: without "continue" the zero Weights of the error go on.
PlanFailsOn(s) ==
  /\ Fault
  /\ NextService(s)
  /\ svc' = s
  /\ want' = <<0, 0>>
  /\ pc' = "domains"
  /\ UNCHANGED <<providerVars, tables, edits, names, held>>

PlanFails(s) ==
  /\ Fault
  /\ NextService(s)
  /\ UNCHANGED <<providerVars, tables, edits, pc, svc, want, names, held>>

ListDomains ==
  /\ pc = "domains"
  /\ names' = NamesOf(svc)
  /\ pc' = "names"
  /\ UNCHANGED <<providerVars, tables, faults, edits, todo, svc, want, held, calm>>

DomainsFail ==
  /\ Fault
  /\ pc = "domains"
  /\ pc' = "services"
  /\ UNCHANGED <<providerVars, tables, edits, todo, svc, want, names, held>>

\* The order of the ids of a service's domains may be any.
SetWeights(n) ==
  /\ pc = "names"
  /\ n \in names
  /\ names' = names \ {n}
  /\ Invoke(n, want)
  /\ pc' = "call"
  /\ UNCHANGED <<tables, faults, edits, todo, svc, want, held, calm>>

\* Faulty: "break" after a name that was set.
CallEndsService ==
  /\ pc = "call"
  /\ ReturnOk
  /\ pc' = "services"
  /\ names' = {}
  /\ UNCHANGED <<tables, faults, edits, todo, svc, want, held, calm>>

CallEnds ==
  /\ pc = "call"
  /\ ReturnOk
  /\ pc' = "names"
  /\ UNCHANGED <<tables, faults, edits, todo, svc, want, names, held, calm>>

\* A call ends in an error: at once for a name without records, otherwise by
\* a failure, which may leave its request on its way.
CallBreaks ==
  IF InForce(call.name) = NULL
  THEN ReturnError /\ UNCHANGED <<faults, calm>>
  ELSE Fault /\ (ReturnError \/ (Linger(ZoneOf[call.name]) /\ call' = NULL))

\* Faulty: the first failure ends the round.
CallFailsRound ==
  /\ pc = "call"
  /\ CallBreaks
  /\ pc' = "idle"
  /\ todo' = {}
  /\ svc' = NULL
  /\ want' = NULL
  /\ names' = {}
  /\ UNCHANGED <<tables, edits, held>>

\* The error is logged and the loop goes on with the next name.
CallFails ==
  /\ pc = "call"
  /\ CallBreaks
  /\ pc' = "names"
  /\ UNCHANGED <<tables, edits, todo, svc, want, names, held>>

EndService ==
  /\ pc = "names"
  /\ names = {}
  /\ pc' = "services"
  /\ UNCHANGED <<providerVars, tables, faults, edits, todo, svc, want, names, held, calm>>

EndRound ==
  /\ pc = "services"
  /\ todo = {}
  /\ pc' = "idle"
  /\ svc' = NULL
  /\ want' = NULL
  /\ UNCHANGED <<providerVars, tables, faults, edits, todo, names, held, calm>>

\* The process dies and is started again.
Crash ==
  /\ Fault
  /\ pc # "idle"
  /\ IF call = NULL THEN UNCHANGED providerVars
     ELSE ReturnError \/ (Linger(ZoneOf[call.name]) /\ call' = NULL)
  /\ pc' = "idle"
  /\ todo' = {}
  /\ svc' = NULL
  /\ want' = NULL
  /\ names' = {}
  /\ UNCHANGED <<tables, edits, held>>

-----------------------------------------------------------------------------
(* The provider under a call, with the failures bounded.                   *)

ProviderApplies ==
  /\ call # NULL /\ InForce(call.name) # NULL
  /\ Apply(ZoneOf[call.name])
  /\ IF call.done THEN Fault ELSE UNCHANGED <<faults, calm>>
  /\ UNCHANGED <<tables, edits, round, held>>

ProviderLingers ==
  /\ Fault
  /\ call # NULL /\ InForce(call.name) # NULL
  /\ Linger(ZoneOf[call.name]) /\ call' = call
  /\ UNCHANGED <<tables, edits, round, held>>

LateRequest ==
  /\ \E r \in Request : (served[r[1]][r[2]] # NULL /\ TakeLate(r)) \/ LoseLate(r)
  /\ calm' = FALSE
  /\ UNCHANGED <<tables, faults, edits, round, held>>

-----------------------------------------------------------------------------
(* The storm engine and the control plane.                                 *)

StormChange(s) ==
  /\ storming' = IF s \in storming THEN storming \ {s} ELSE storming \cup {s}
  /\ held' = [held EXCEPT ![s] = {Primary, Backup}]
  /\ UNCHANGED <<providerVars, live, domains, faults, edits, round, calm>>

\* The handler's check of the service is a statement before the insert.
AddDomain(s, n) ==
  /\ Edit
  /\ <<s, n>> \notin domains
  /\ domains' = domains \cup {<<s, n>>}
  /\ UNCHANGED <<providerVars, live, storming, faults, round, held>>

RemoveDomain(s, n) ==
  /\ Edit
  /\ <<s, n>> \in domains
  /\ domains' = domains \ {<<s, n>>}
  /\ UNCHANGED <<providerVars, live, storming, faults, round, held>>

SoftDelete(s) ==
  /\ Edit
  /\ s \in live
  /\ live' = live \ {s}
  /\ UNCHANGED <<providerVars, storming, domains, faults, round, held>>

-----------------------------------------------------------------------------
OperatorStep ==
  \/ ListServices
  \/ \E s \in Services : PlanService(s)
  \/ ListDomains
  \/ \E n \in Names : SetWeights(n)
  \/ ProviderApplies \/ CallEnds \/ CallFails
  \/ EndService \/ EndRound

FaultStep ==
  \/ \E s \in Services : PlanFails(s)
  \/ DomainsFail \/ ProviderLingers \/ Crash

Environment ==
  \/ LateRequest
  \/ \E s \in Services : StormChange(s) \/ SoftDelete(s)
  \/ \E s \in Services, n \in Names : AddDomain(s, n) \/ RemoveDomain(s, n)

Next == OperatorStep \/ FaultStep \/ Environment

Spec == Init /\ [][Next]_vars

\* The ticker fires for ever, and the contexts of statements and of provider
\* calls end in five seconds.
Fairness == WF_vars(OperatorStep)

FairSpec == Spec /\ Fairness

-----------------------------------------------------------------------------
(* The shape of the state, with what a place in the round fixes.           *)
TypeOK ==
  /\ served \in [Zones -> [Names -> Weights \cup Given \cup {NULL}]]
  /\ call \in Call \cup {NULL}
  /\ late \in [Request -> Nat]
  /\ live \subseteq Services /\ storming \subseteq Services
  /\ domains \subseteq Services \X Names
  /\ faults \in Nat /\ edits \in Nat
  /\ pc \in {"idle", "services", "domains", "names", "call"}
  /\ todo \subseteq Services
  /\ svc \in Services \cup {NULL}
  /\ want \in Weights \cup {NULL}
  /\ names \subseteq Names
  /\ held \in [Services -> SUBSET {Primary, Backup}]
  /\ calm \in BOOLEAN
  /\ (pc = "call") <=> (call # NULL)
  /\ pc \in {"domains", "names", "call"} => svc \in Services /\ want \in Weights
  /\ pc \in {"idle", "services", "domains"} => names = {}

(* A call sets weights its service wanted at some moment of the same round: *)
(* neither those of another service, nor the zero Weights of a failed       *)
(* query, nor a plan of an earlier round (main.go:71-96).                   *)
FreshWeights == call # NULL => call.weights \in held[svc]

\* The services that decide the weights of a name, and whether all want w.
Owners(n) == {s \in live : <<s, n>> \in domains}
Agreed(n, w) == Owners(n) # {} /\ \A s \in Owners(n) : Desired(s) = w

\* Every owner of the name has wanted w since the round began.
HeldThroughout(n, w) == Owners(n) # {} /\ \A s \in Owners(n) : held[s] = {w}

(* One undisturbed round is enough: at its end every name with records has *)
(* the weights its services have wanted all along, however many services   *)
(* and names came before it (main.go:63-98).                               *)
OneRoundSuffices ==
  (pc = "services" /\ todo = {} /\ calm) =>
    \A n \in Names, w \in Weights :
      InForce(n) # NULL /\ HeldThroughout(n, w) => InForce(n) = w

(* When the storms, the domains and the services that decide a name stay   *)
(* as they are, its records get the right weights for good, through failed *)
(* queries and calls, late requests and restarts (main.go:100-147).         *)
Converges ==
  \A n \in Names, w \in {Primary, Backup} :
    InForce(n) # NULL /\ <>[]Agreed(n, w) => <>[](InForce(n) = w)
=============================================================================
