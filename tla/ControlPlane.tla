---------------------------- MODULE ControlPlane ----------------------------
(***************************************************************************)
(* The control-plane API (internal/httpapi/server.go): requests that run   *)
(* concurrently, each a sequence of statements on the tables it shares     *)
(* with the others.  No handler opens a transaction: a request             *)
(* authenticates, loads its service, and may load a policy, before the one *)
(* statement that answers it, and other requests run in between.           *)
(*                                                                         *)
(* A table is the sequence of its rows, so that a row's index is its       *)
(* serial id; a deleted row is NULL, except that services only get a       *)
(* deleted_at.  A text is a value with its trimmed form.                   *)
(***************************************************************************)
EXTENDS Integers, Sequences

CONSTANTS
  Customers,       \* customer ids
  Requests,        \* requests of a behaviour
  Tokens,          \* customer_tokens
  Holder,          \* the customer of each token
  Admin,           \* the admin token
  Texts, Blank,    \* text values, and the blank one
  Trim,            \* strings.TrimSpace on Texts
  Numbers, One,    \* numeric values, and the one that stands for 1.0
  ServiceColumns,  \* of name, primary_cdn, backup_cdn
  PolicyColumns,   \* of the five settings of a policy
  Owners,          \* the customers of the services stored at the start
  StoredName,      \* the text in their columns
  MaxFaults,       \* bound on failed statements and lost replies
  NULL

Setting == {"kind", "threshold_avail", "window_seconds", "cooldown_seconds",
            "max_coverage_factor"}

\* Routes under /v1; all but the first three load the service in their path.
Route == {"list_services", "create_service", "delete_service",
          "get_service", "patch_service",
          "list_domains", "create_domain", "delete_domain",
          "list_policies", "create_policy", "patch_policy", "delete_policy"}

Unloaded == {"list_services", "create_service", "delete_service"}

Patches == {"patch_service", "patch_policy"}
WithBody == {"create_service", "create_domain", "create_policy"} \cup Patches
WithItem == {"delete_domain", "patch_policy", "delete_policy"}

ASSUME TextsAssumption ==
  /\ Blank \in Texts
  /\ Trim \in [Texts -> Texts]
  /\ Trim[Blank] = Blank
  /\ \A t \in Texts : Trim[Trim[t]] = Trim[t]
  /\ StoredName \in Texts /\ Trim[StoredName] # Blank

ASSUME NumbersAssumption == Numbers \subseteq Int /\ One \in Numbers /\ One > 0

ASSUME CustomersAssumption ==
  /\ Owners \in Seq(Customers)
  /\ Holder \in [Tokens -> Customers]
  /\ Admin \notin Tokens

ASSUME ColumnsAssumption == PolicyColumns \subseteq Setting

ASSUME FaultsAssumption == MaxFaults \in Nat

VARIABLES
  services,   \* rows of services
  domains,    \* rows of service_domains
  policies,   \* rows of storm_policies
  revoked,    \* tokens whose revoked_at is set
  pc,         \* the next statement of each request
  req,        \* its locals, NULL before it begins and after it ends
  status,     \* its answer
  shown,      \* the services whose rows an answer contains
  faults,
  raced       \* history: requests whose row was written after they loaded it

tables  == <<services, domains, policies>>
vars    == <<tables, revoked, pc, req, status, shown, faults, raced>>

-----------------------------------------------------------------------------
(* Validate and Apply.                                                     *)

IsBlank(t) == Trim[t] = Blank

\* The bounds of stormPolicyRequest.Validate and stormPolicyPatchRequest.Validate.
ValidSetting(c, v) ==
  CASE c = "kind"                -> ~IsBlank(v)
    [] c = "threshold_avail"     -> 0 < v /\ v <= One
    [] c = "window_seconds"      -> 0 < v
    [] c = "cooldown_seconds"    -> 0 <= v
    [] c = "max_coverage_factor" -> 0 < v

Values(c) == IF c = "kind" THEN Texts ELSE Numbers

\* Faulty: one good setting makes the body good.
ValidSomewhere(f) == \E c \in DOMAIN f : ValidSetting(c, f[c])

\* Bodies that give the settings C.
Settings(C) == {f \in [C -> Texts \cup Numbers] : \A c \in C : f[c] \in Values(c)}

ValidPolicy(f) == \A c \in DOMAIN f : ValidSetting(c, f[c])

\* Faulty: every column is trimmed, given or not.
ApplyTrimmed(f, row) ==
  [c \in ServiceColumns |-> Trim[IF c \in DOMAIN f THEN f[c] ELSE row[c]]]

ValidService(f) == \A c \in DOMAIN f : ~IsBlank(f[c])

ApplyService(f, row) ==
  [c \in ServiceColumns |-> IF c \in DOMAIN f THEN Trim[f[c]] ELSE row[c]]

\* ToInsertParams stores the kind trimmed, and so does Apply.
Stored(f) == [c \in DOMAIN f |-> IF c = "kind" THEN Trim[f[c]] ELSE f[c]]

ApplyPolicy(f, row) ==
  [c \in PolicyColumns |-> IF c \in DOMAIN f THEN Stored(f)[c] ELSE row[c]]

-----------------------------------------------------------------------------
(* Queries.                                                                *)

Service(c, f, d) == [customer |-> c, columns |-> f, deleted |-> d]
Policy(s, f) == [service |-> s, columns |-> f]
Domain(s, t) == [service |-> s, name |-> t]

ServiceIds == DOMAIN services

\* Faulty: the customer is not compared.
VisibleToAll(s, c) == s \in ServiceIds /\ ~services[s].deleted

\* GetServiceForCustomer and SoftDeleteService find the row.
Visible(s, c) ==
  /\ s \in ServiceIds
  /\ services[s].customer = c
  /\ ~services[s].deleted

\* GetActiveServicesForCustomer
ServicesOf(c) == {s \in ServiceIds : Visible(s, c)}

\* GetServiceDomains and GetStormPoliciesForService
DomainsOf(s) == {d \in DOMAIN domains : domains[d] # NULL /\ domains[d].service = s}
PoliciesOf(s) == {p \in DOMAIN policies : policies[p] # NULL /\ policies[p].service = s}

\* GetCustomerIDForToken; the admin token is compared in the process.
Authentic(t) == t = Admin \/ t \in Tokens \ revoked

InsertService(c, f) == services' = Append(services, Service(c, f, FALSE))

\* UpdateService writes every column, and has no condition on deleted_at.
UpdateService(s, c, row) ==
  services' = [services EXCEPT ![s] = Service(c, row, @.deleted)]

SoftDeleteService(s) ==
  services' = [services EXCEPT ![s] = Service(@.customer, @.columns, TRUE)]

InsertServiceDomain(s, t) == domains' = Append(domains, Domain(s, t))

DeleteServiceDomain(d) == domains' = [domains EXCEPT ![d] = NULL]

InsertStormPolicy(s, row) == policies' = Append(policies, Policy(s, row))

UpdateStormPolicy(p, s, row) == policies' = [policies EXCEPT ![p] = Policy(s, row)]

DeleteStormPolicy(p) == policies' = [policies EXCEPT ![p] = NULL]

-----------------------------------------------------------------------------
StoredColumns == [c \in ServiceColumns |-> StoredName]
StoredSettings == [c \in PolicyColumns |-> IF c = "kind" THEN StoredName ELSE One]

\* Each service stored at the start has a domain and a policy.
Init ==
  /\ services = [s \in DOMAIN Owners |-> Service(Owners[s], StoredColumns, FALSE)]
  /\ domains = [d \in DOMAIN Owners |-> Domain(d, StoredName)]
  /\ policies = [p \in DOMAIN Owners |-> Policy(p, StoredSettings)]
  /\ revoked = {}
  /\ pc = [r \in Requests |-> "idle"]
  /\ req = [r \in Requests |-> NULL]
  /\ status = [r \in Requests |-> 0]
  /\ shown = [r \in Requests |-> {}]
  /\ faults = 0
  /\ raced = {}

Goto(r, l) == pc' = [pc EXCEPT ![r] = l]

Continue(r, l) == Goto(r, l) /\ UNCHANGED <<req, status>>

Answer(r, code) ==
  /\ Goto(r, "done")
  /\ req' = [req EXCEPT ![r] = NULL]
  /\ status' = [status EXCEPT ![r] = code]

Fault == faults < MaxFaults /\ faults' = faults + 1

\* The reply of a statement that was applied may be lost.
Reply(r, code) ==
  \/ Answer(r, code) /\ UNCHANGED faults
  \/ Answer(r, 500) /\ Fault

At(r, l) == pc[r] = l

-----------------------------------------------------------------------------
(* A request before its last statement.                                    *)

\* The service, domain or policy id in the path may be unknown.
Paths(o) ==
  [target : IF o \in {"list_services", "create_service"} THEN {0} ELSE 1 .. Len(services) + 1,
   item : IF o \notin WithItem THEN {0}
          ELSE IF o = "delete_domain" THEN 1 .. Len(domains) + 1 ELSE 1 .. Len(policies) + 1]

\* The columns a PATCH gives a value for.
Named(o) ==
  IF o = "patch_service" THEN SUBSET ServiceColumns
  ELSE IF o = "patch_policy" THEN SUBSET PolicyColumns
  ELSE {{}}

\* The customer of a token; the admin token comes with any X-Customer-ID.  One
\* that no customer has finds no service, and its insert ends in a 400.
Scope(t) == IF t = Admin THEN Customers ELSE {Holder[t]}

\* Histories: the services deleted (gone) and the tokens revoked (void) when the
\* request began.
Begin(r, o, t) ==
  /\ At(r, "idle")
  /\ \E c \in Scope(t), path \in Paths(o), C \in Named(o) :
       req' = [req EXCEPT ![r] =
                 [op |-> o, token |-> t, customer |-> c, target |-> path.target,
                  item |-> path.item, named |-> C, loaded |-> NULL,
                  gone |-> {s \in ServiceIds : services[s].deleted}, void |-> revoked]]
  /\ Goto(r, "auth")
  /\ UNCHANGED <<tables, revoked, status, shown, faults, raced>>

\* authMiddleware
Authenticate(r) ==
  /\ At(r, "auth")
  /\ IF Authentic(req[r].token)
     THEN Continue(r, IF req[r].op \in Unloaded THEN "answer" ELSE "load")
     ELSE Answer(r, 401)
  /\ UNCHANGED <<tables, revoked, shown, faults, raced>>

\* requireServiceContext, and the same query in handleGetService and
\* handleUpdateService, which goes on with the row it got.
LoadService(r) ==
  /\ At(r, "load")
  /\ IF ~Visible(req[r].target, req[r].customer) THEN Answer(r, 404)
     ELSE IF req[r].op = "patch_policy" THEN Continue(r, "policy")
     ELSE IF req[r].op # "patch_service" THEN Continue(r, "answer")
     ELSE /\ req' = [req EXCEPT ![r].loaded = services[req[r].target].columns]
          /\ Goto(r, "answer")
          /\ UNCHANGED status
  /\ UNCHANGED <<tables, revoked, shown, faults, raced>>

\* Faulty: the policy is not read before it is patched.
LoadNothing(r) ==
  /\ At(r, "policy")
  /\ Continue(r, "answer")
  /\ UNCHANGED <<tables, revoked, shown, faults, raced>>

\* GetStormPolicyForService
LoadPolicy(r) ==
  /\ At(r, "policy")
  /\ IF req[r].item \in PoliciesOf(req[r].target)
     THEN /\ req' = [req EXCEPT ![r].loaded = policies[req[r].item].columns]
          /\ Goto(r, "answer")
          /\ UNCHANGED status
     ELSE Answer(r, 404)
  /\ UNCHANGED <<tables, revoked, shown, faults, raced>>

\* A body that does not decode or does not validate.
RejectBody(r) ==
  /\ At(r, "answer")
  /\ req[r].op \in WithBody
  /\ Answer(r, 400)
  /\ UNCHANGED <<tables, revoked, shown, faults, raced>>

\* A statement that fails, and is not applied, ends every handler.
StatementFails(r) ==
  /\ pc[r] \notin {"idle", "done"}
  /\ Answer(r, 500)
  /\ Fault
  /\ shown' = [shown EXCEPT ![r] = {}]
  /\ UNCHANGED <<tables, revoked, raced>>

-----------------------------------------------------------------------------
(* The last statement of a request.                                        *)

Finishes(r, o) == At(r, "answer") /\ req[r].op = o

\* Requests other than r whose loaded row r overwrites.
Overtaken(r, route) ==
  {q \in Requests \ {r} :
     /\ pc[q] = "answer"
     /\ req[q].op = route
     /\ req[q].target = req[r].target
     /\ route = "patch_policy" => req[q].item = req[r].item}

ListServices(r) ==
  /\ Finishes(r, "list_services")
  /\ shown' = [shown EXCEPT ![r] = ServicesOf(req[r].customer)]
  /\ Answer(r, 200)
  /\ UNCHANGED <<tables, revoked, faults, raced>>

CreateService(r) ==
  /\ Finishes(r, "create_service")
  /\ \E f \in [ServiceColumns -> Texts] :
       /\ ValidService(f)
       /\ InsertService(req[r].customer, f)
  /\ Reply(r, 201)
  /\ UNCHANGED <<domains, policies, revoked, shown, raced>>

PatchService(r) ==
  /\ Finishes(r, "patch_service")
  /\ req[r].named # {}
  /\ \E f \in [req[r].named -> Texts] :
       /\ ValidService(f)
       /\ UpdateService(req[r].target, req[r].customer, ApplyService(f, req[r].loaded))
  /\ raced' = (raced \ {r}) \cup Overtaken(r, "patch_service")
  /\ Reply(r, 200)
  /\ UNCHANGED <<domains, policies, revoked, shown>>

DeleteService(r) ==
  /\ Finishes(r, "delete_service")
  /\ IF Visible(req[r].target, req[r].customer)
     THEN SoftDeleteService(req[r].target) /\ Reply(r, 204)
     ELSE Answer(r, 404) /\ UNCHANGED <<services, faults>>
  /\ UNCHANGED <<domains, policies, revoked, shown, raced>>

\* handleGetService answers with the service it found, too, and reads the
\* policies in a further statement.
Itself(r) == {s \in {req[r].target} : req[r].op = "get_service"}

ReadDomains(r) ==
  /\ At(r, "answer")
  /\ req[r].op \in {"get_service", "list_domains"}
  /\ shown' = [shown EXCEPT ![r] = Itself(r) \cup {domains[d].service : d \in DomainsOf(req[r].target)}]
  /\ IF req[r].op = "get_service" THEN Continue(r, "policies") ELSE Answer(r, 200)
  /\ UNCHANGED <<tables, revoked, faults, raced>>

ReadPolicies(r) ==
  /\ At(r, "policies") \/ Finishes(r, "list_policies")
  /\ shown' = [shown EXCEPT ![r] = @ \cup {policies[p].service : p \in PoliciesOf(req[r].target)}]
  /\ Answer(r, 200)
  /\ UNCHANGED <<tables, revoked, faults, raced>>

\* UNIQUE(service_id, name); the name is stored as it was sent.
CreateDomain(r) ==
  /\ Finishes(r, "create_domain")
  /\ \E t \in Texts :
       /\ ~IsBlank(t)
       /\ IF \E d \in DomainsOf(req[r].target) : domains[d].name = t
          THEN Answer(r, 409) /\ UNCHANGED <<domains, faults>>
          ELSE InsertServiceDomain(req[r].target, t) /\ Reply(r, 201)
  /\ UNCHANGED <<services, policies, revoked, shown, raced>>

DeleteDomain(r) ==
  /\ Finishes(r, "delete_domain")
  /\ IF req[r].item \in DomainsOf(req[r].target)
     THEN DeleteServiceDomain(req[r].item) /\ Reply(r, 204)
     ELSE Answer(r, 404) /\ UNCHANGED <<domains, faults>>
  /\ UNCHANGED <<services, policies, revoked, shown, raced>>

CreatePolicy(r) ==
  /\ Finishes(r, "create_policy")
  /\ \E f \in Settings(PolicyColumns) :
       /\ ValidPolicy(f)
       /\ InsertStormPolicy(req[r].target, Stored(f))
  /\ Reply(r, 201)
  /\ UNCHANGED <<services, domains, revoked, shown, raced>>

\* A policy deleted since it was loaded: writeDBError answers sql.ErrNoRows with 500.
PatchPolicy(r) ==
  /\ Finishes(r, "patch_policy")
  /\ req[r].named # {}
  /\ IF req[r].item \in PoliciesOf(req[r].target)
     THEN /\ \E f \in Settings(req[r].named) :
               /\ ValidPolicy(f)
               /\ UpdateStormPolicy(req[r].item, req[r].target, ApplyPolicy(f, req[r].loaded))
          /\ raced' = (raced \ {r}) \cup Overtaken(r, "patch_policy")
          /\ Reply(r, 200)
     ELSE Answer(r, 500) /\ UNCHANGED <<policies, raced, faults>>
  /\ UNCHANGED <<services, domains, revoked, shown>>

DeletePolicy(r) ==
  /\ Finishes(r, "delete_policy")
  /\ IF req[r].item \in PoliciesOf(req[r].target)
     THEN DeleteStormPolicy(req[r].item) /\ Reply(r, 204)
     ELSE Answer(r, 404) /\ UNCHANGED <<policies, faults>>
  /\ UNCHANGED <<services, domains, revoked, shown, raced>>

\* No route of the program: an operator sets revoked_at.
Revoke(t) ==
  /\ t \in Tokens \ revoked
  /\ revoked' = revoked \cup {t}
  /\ UNCHANGED <<tables, pc, req, status, shown, faults, raced>>

Step(r) ==
  \/ \E o \in Route, t \in Tokens \cup {Admin} : Begin(r, o, t)
  \/ Authenticate(r)
  \/ LoadService(r)
  \/ LoadPolicy(r)
  \/ RejectBody(r)
  \/ StatementFails(r)
  \/ ListServices(r)
  \/ CreateService(r)
  \/ PatchService(r)
  \/ DeleteService(r)
  \/ ReadDomains(r)
  \/ ReadPolicies(r)
  \/ CreateDomain(r)
  \/ DeleteDomain(r)
  \/ CreatePolicy(r)
  \/ PatchPolicy(r)
  \/ DeletePolicy(r)

Next ==
  \/ \E r \in Requests : Step(r)
  \/ \E t \in Tokens : Revoke(t)

Spec == Init /\ [][Next]_vars

-----------------------------------------------------------------------------
(* Properties                                                              *)

ServiceRow == [customer : Customers, columns : [ServiceColumns -> Texts], deleted : BOOLEAN]
DomainRow == [service : Nat, name : Texts]
PolicyRow == [service : Nat, columns : Settings(PolicyColumns)]

Locals ==
  [op : Route, token : Tokens \cup {Admin}, customer : Customers, target : Nat, item : Nat,
   named : SUBSET (ServiceColumns \cup PolicyColumns),
   loaded : [ServiceColumns -> Texts] \cup Settings(PolicyColumns) \cup {NULL},
   gone : SUBSET Nat, void : SUBSET Tokens]

\* What the other programs rely on: merging a validated patch into a row read
\* earlier, by whichever of concurrent requests, leaves a row that validates
\* as a whole.
RowsValid ==
  /\ \A s \in ServiceIds : \A c \in ServiceColumns : ~IsBlank(services[s].columns[c])
  /\ \A p \in DOMAIN policies : policies[p] # NULL =>
       \A c \in PolicyColumns : ValidSetting(c, policies[p].columns[c])

\* Tables and requests have the right shape, a request about to patch a row
\* holds all columns of such a row, and every stored row validates as a whole.
TypeOK ==
  /\ services \in Seq(ServiceRow)
  /\ domains \in Seq(DomainRow \cup {NULL})
  /\ policies \in Seq(PolicyRow \cup {NULL})
  /\ revoked \subseteq Tokens
  /\ pc \in [Requests -> {"idle", "auth", "load", "policy", "answer", "policies", "done"}]
  /\ req \in [Requests -> Locals \cup {NULL}]
  /\ status \in [Requests -> {0, 200, 201, 204, 400, 401, 404, 409, 500}]
  /\ shown \in [Requests -> SUBSET Nat]
  /\ faults \in 0 .. MaxFaults
  /\ raced \subseteq Requests
  /\ \A r \in Requests :
       /\ pc[r] \notin {"idle", "done"} => req[r] \in Locals
       /\ Finishes(r, "patch_service") =>
            req[r].named \subseteq ServiceColumns /\ req[r].loaded \in [ServiceColumns -> Texts]
       /\ Finishes(r, "patch_policy") =>
            req[r].named \subseteq PolicyColumns /\ req[r].loaded \in Settings(PolicyColumns)
  /\ RowsValid

\* What belongs to service s: its row, its domains and its policies.
Belongings(s) ==
  <<services[s],
    [d \in DomainsOf(s) |-> domains[d]],
    [p \in PoliciesOf(s) |-> policies[p]]>>

\* Request r acts for the owner of service s, with a token and on a service
\* that were neither revoked nor deleted when the request began.
Entitled(r, s) ==
  /\ req[r].customer = services[s].customer
  /\ s \notin req[r].gone
  /\ req[r].token \notin req[r].void

\* "This ensures a caller can only touch its own services" (README): what
\* belongs to a service changes only by the last statement of a request on it
\* by its owner, and rows are answered to their owner only; a service deleted,
\* or a token revoked, before a request began is out of its reach, whatever
\* the requests that run beside it do between its statements.
TenantIsolation ==
  [][/\ \A s \in ServiceIds : Belongings(s)' # Belongings(s) =>
          \E r \in Requests : At(r, "answer") /\ At(r, "done")' /\ req[r].target = s /\ Entitled(r, s)
     /\ \A r \in Requests : \A s \in shown'[r] \ shown[r] : Entitled(r, s)]_vars

\* A PATCH changes a column it does not name only when another PATCH of the
\* same row was applied after it had loaded the row: a lost update needs two
\* patches of one row, neither a deletion nor a request on another row does it.
PatchKeepsColumns ==
  [][/\ \A s \in ServiceIds : \A c \in ServiceColumns :
          services'[s].columns[c] # services[s].columns[c] =>
            \E r \in Requests : /\ pc[r] # pc'[r] /\ req[r].op = "patch_service" /\ req[r].target = s
                                /\ c \in req[r].named \/ r \in raced
     /\ \A p \in DOMAIN policies : \A c \in PolicyColumns :
          (policies[p] # NULL /\ policies'[p] # NULL
             /\ policies'[p].columns[c] # policies[p].columns[c]) =>
            \E r \in Requests : /\ pc[r] # pc'[r] /\ req[r].op = "patch_policy" /\ req[r].item = p
                                /\ c \in req[r].named \/ r \in raced]_vars
=============================================================================
