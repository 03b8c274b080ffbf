------------------------- MODULE ControlPlaneProofs -------------------------
(***************************************************************************)
(* Proofs about ControlPlane for any customers, tokens, texts and numbers, *)
(* any columns, and any number of requests and failures.                   *)
(***************************************************************************)
EXTENDS ControlPlane, SequenceTheorems, TLAPS

-----------------------------------------------------------------------------
(* Sequences of rows.                                                      *)

LEMMA AppendRow ==
  ASSUME NEW R, NEW t \in Seq(R), NEW x \in R
  PROVE  /\ Append(t, x) \in Seq(R)
         /\ DOMAIN Append(t, x) = DOMAIN t \cup {Len(t) + 1}
         /\ DOMAIN t \subseteq Nat
         /\ Len(t) + 1 \notin DOMAIN t
         /\ \A i \in DOMAIN t : Append(t, x)[i] = t[i]
         /\ Append(t, x)[Len(t) + 1] = x
  OBVIOUS

LEMMA ReplaceRow ==
  ASSUME NEW R, NEW t \in Seq(R), NEW i \in DOMAIN t, NEW x \in R
  PROVE  /\ [t EXCEPT ![i] = x] \in Seq(R)
         /\ DOMAIN [t EXCEPT ![i] = x] = DOMAIN t
  OBVIOUS

-----------------------------------------------------------------------------
(* Bodies and rows.                                                        *)

ServiceValid(row) == row \in [ServiceColumns -> Texts] /\ \A c \in ServiceColumns : ~IsBlank(row[c])

PolicyValid(row) ==
  /\ row \in Settings(PolicyColumns)
  /\ \A c \in PolicyColumns : ValidSetting(c, row[c])

\* What ToInsertParams stores of a body that validates.
LEMMA StoredValid ==
  ASSUME NEW C \in SUBSET PolicyColumns, NEW f \in Settings(C), ValidPolicy(f)
  PROVE  \A c \in C : Stored(f)[c] \in Values(c) /\ ValidSetting(c, Stored(f)[c])
<1> SUFFICES ASSUME NEW c \in C
             PROVE  Stored(f)[c] \in Values(c) /\ ValidSetting(c, Stored(f)[c])
  OBVIOUS
<1>1. DOMAIN f = C /\ f[c] \in Values(c) /\ ValidSetting(c, f[c])
  BY DEF Settings, ValidPolicy
<1>2. CASE c = "kind"
  <2>1. f[c] \in Texts /\ ~IsBlank(f[c]) /\ Stored(f)[c] = Trim[f[c]]
    BY <1>1, <1>2 DEF Values, ValidSetting, Stored
  <2>2. Trim[f[c]] \in Texts /\ ~IsBlank(Trim[f[c]])
    BY <2>1, TextsAssumption DEF IsBlank
  <2> QED BY <1>2, <2>1, <2>2 DEF Values, ValidSetting
<1>3. CASE c # "kind"
  BY <1>1, <1>3 DEF Stored
<1> QED BY <1>2, <1>3

LEMMA InsertValid ==
  ASSUME NEW f \in Settings(PolicyColumns), ValidPolicy(f)
  PROVE  PolicyValid(Stored(f))
<1>1. DOMAIN Stored(f) = PolicyColumns /\ Stored(f) = [c \in PolicyColumns |-> Stored(f)[c]]
  BY DEF Settings, Stored
<1>2. \A c \in PolicyColumns : Stored(f)[c] \in Values(c) /\ ValidSetting(c, Stored(f)[c])
  BY StoredValid
<1>3. \A c \in PolicyColumns : Values(c) \subseteq Texts \cup Numbers
  BY DEF Values
<1> QED BY <1>1, <1>2, <1>3 DEF PolicyValid, Settings

LEMMA ApplyPolicyValid ==
  ASSUME NEW C \in SUBSET PolicyColumns, NEW f \in Settings(C), ValidPolicy(f),
         NEW row, PolicyValid(row)
  PROVE  PolicyValid(ApplyPolicy(f, row))
<1>1. DOMAIN f = C
  BY DEF Settings
<1>2. \A c \in PolicyColumns :
        /\ ApplyPolicy(f, row)[c] \in Values(c)
        /\ ValidSetting(c, ApplyPolicy(f, row)[c])
  BY <1>1, StoredValid DEF ApplyPolicy, PolicyValid, Settings
<1>3. \A c \in PolicyColumns : Values(c) \subseteq Texts \cup Numbers
  BY DEF Values
<1>4. ApplyPolicy(f, row) \in [PolicyColumns -> Texts \cup Numbers]
  BY <1>2, <1>3 DEF ApplyPolicy
<1> QED BY <1>2, <1>4 DEF PolicyValid, Settings

LEMMA ApplyServiceValid ==
  ASSUME NEW C \in SUBSET ServiceColumns, NEW f \in [C -> Texts], ValidService(f),
         NEW row, ServiceValid(row)
  PROVE  ServiceValid(ApplyService(f, row))
<1>1. \A c \in C : Trim[f[c]] \in Texts /\ ~IsBlank(Trim[f[c]])
  BY TextsAssumption DEF ValidService, IsBlank
<1> QED BY <1>1 DEF ApplyService, ServiceValid

LEMMA StoredAtStart == ServiceValid(StoredColumns) /\ PolicyValid(StoredSettings)
<1>1. ServiceValid(StoredColumns)
  BY TextsAssumption DEF ServiceValid, StoredColumns, IsBlank
<1>2. One \in Numbers /\ 0 < One /\ One <= One /\ 0 <= One
  BY NumbersAssumption
<1>3. \A c \in PolicyColumns : StoredSettings[c] \in Values(c)
  BY <1>2, TextsAssumption DEF StoredSettings, Values
<1>4. \A c \in PolicyColumns : ValidSetting(c, StoredSettings[c])
  BY <1>2, TextsAssumption, ColumnsAssumption DEF StoredSettings, ValidSetting, IsBlank, Setting
<1>5. StoredSettings \in [PolicyColumns -> Texts \cup Numbers]
  BY <1>2, TextsAssumption DEF StoredSettings
<1> QED BY <1>1, <1>3, <1>4, <1>5 DEF PolicyValid, Settings

-----------------------------------------------------------------------------
(* Type correctness: the tables, the requests, and the rest.               *)

ServicesOK ==
  services \in Seq(ServiceRow) /\ \A s \in ServiceIds : ServiceValid(services[s].columns)

DomainsOK == domains \in Seq(DomainRow \cup {NULL})

PoliciesOK ==
  /\ policies \in Seq(PolicyRow \cup {NULL})
  /\ \A p \in DOMAIN policies : policies[p] # NULL => PolicyValid(policies[p].columns)

Points == {"idle", "auth", "load", "policy", "answer", "policies", "done"}

\* The locals x of a request whose next statement is l: what a PATCH has
\* loaded is a row that validates.
Good(l, x) ==
  l \notin {"idle", "done"} =>
    /\ x \in Locals
    /\ x.op = "patch_service" =>
         x.named \subseteq ServiceColumns /\ (l = "answer" => ServiceValid(x.loaded))
    /\ x.op = "patch_policy" =>
         x.named \subseteq PolicyColumns /\ (l = "answer" => PolicyValid(x.loaded))
    /\ l = "policy" => x.op = "patch_policy"

RequestsOK ==
  /\ pc \in [Requests -> Points]
  /\ req \in [Requests -> Locals \cup {NULL}]
  /\ \A r \in Requests : Good(pc[r], req[r])

RestOK ==
  /\ revoked \subseteq Tokens
  /\ status \in [Requests -> {0, 200, 201, 204, 400, 401, 404, 409, 500}]
  /\ shown \in [Requests -> SUBSET Nat]
  /\ faults \in 0 .. MaxFaults
  /\ raced \subseteq Requests

IInv == ServicesOK /\ DomainsOK /\ PoliciesOK /\ RequestsOK /\ RestOK

LEMMA IInvType == IInv => TypeOK
<1> SUFFICES ASSUME IInv PROVE TypeOK
  OBVIOUS
<1>1. RowsValid
  BY DEF IInv, ServicesOK, PoliciesOK, RowsValid, ServiceValid, PolicyValid
<1>2. \A r \in Requests :
        /\ pc[r] \notin {"idle", "done"} => req[r] \in Locals
        /\ Finishes(r, "patch_service") =>
             req[r].named \subseteq ServiceColumns /\ req[r].loaded \in [ServiceColumns -> Texts]
        /\ Finishes(r, "patch_policy") =>
             req[r].named \subseteq PolicyColumns /\ req[r].loaded \in Settings(PolicyColumns)
  BY DEF IInv, RequestsOK, Good, Finishes, At, ServiceValid, PolicyValid
<1> QED
  BY <1>1, <1>2 DEF IInv, ServicesOK, DomainsOK, PoliciesOK, RequestsOK, RestOK, TypeOK, Points

\* A table that is not written.
LEMMA QuietServices == ServicesOK /\ UNCHANGED services => ServicesOK'
BY DEF ServicesOK, ServiceIds

LEMMA QuietDomains == DomainsOK /\ UNCHANGED domains => DomainsOK'
BY DEF DomainsOK

LEMMA QuietPolicies == PoliciesOK /\ UNCHANGED policies => PoliciesOK'
BY DEF PoliciesOK

LEMMA QuietRequests == RequestsOK /\ UNCHANGED <<pc, req>> => RequestsOK'
BY DEF RequestsOK

\* What a request does alone.
LEMMA GoOn ==
  ASSUME RequestsOK, NEW r \in Requests, NEW l \in Points, Continue(r, l), Good(l, req[r])
  PROVE  RequestsOK'
BY DEF RequestsOK, Continue, Goto

LEMMA GoOnWith ==
  ASSUME RequestsOK, NEW r \in Requests, NEW l \in Points, Goto(r, l), NEW x \in Locals,
         req' = [req EXCEPT ![r] = x], Good(l, x)
  PROVE  RequestsOK'
BY DEF RequestsOK, Goto

LEMMA Answered ==
  ASSUME RequestsOK, NEW r \in Requests, NEW code, Answer(r, code)
  PROVE  RequestsOK'
BY DEF RequestsOK, Answer, Goto, Good, Points

LEMMA Replied ==
  ASSUME RequestsOK, NEW r \in Requests, NEW code, Reply(r, code)
  PROVE  RequestsOK'
BY Answered DEF Reply

\* What a row that is written has to be.
LEMMA RowOfService ==
  ASSUME NEW c \in Customers, NEW f, ServiceValid(f), NEW b \in BOOLEAN
  PROVE  Service(c, f, b) \in ServiceRow /\ Service(c, f, b).columns = f
BY DEF Service, ServiceRow, ServiceValid

LEMMA AppendService ==
  ASSUME ServicesOK, NEW row \in ServiceRow, ServiceValid(row.columns),
         services' = Append(services, row)
  PROVE  ServicesOK'
BY AppendRow DEF ServicesOK, ServiceIds

LEMMA ReplaceService ==
  ASSUME ServicesOK, NEW s \in ServiceIds, NEW row \in ServiceRow, ServiceValid(row.columns),
         services' = [services EXCEPT ![s] = row]
  PROVE  ServicesOK'
BY ReplaceRow DEF ServicesOK, ServiceIds

LEMMA WriteServices ==
  ASSUME ServicesOK, NEW c \in Customers, NEW f, ServiceValid(f)
  PROVE  /\ InsertService(c, f) => ServicesOK'
         /\ \A s \in ServiceIds : UpdateService(s, c, f) => ServicesOK'
<1>2. ASSUME InsertService(c, f) PROVE ServicesOK'
  <2>1. Service(c, f, FALSE) \in ServiceRow /\ Service(c, f, FALSE).columns = f
    BY RowOfService
  <2> QED BY <1>2, <2>1, AppendService DEF InsertService
<1>3. ASSUME NEW s \in ServiceIds, UpdateService(s, c, f) PROVE ServicesOK'
  <2>1. services[s] \in ServiceRow
    BY DEF ServicesOK, ServiceIds
  <2>2. services[s].deleted \in BOOLEAN
    BY <2>1 DEF ServiceRow
  <2>3. services' = [services EXCEPT ![s] = Service(c, f, services[s].deleted)]
    BY <1>3 DEF UpdateService
  <2>4. /\ Service(c, f, services[s].deleted) \in ServiceRow
        /\ Service(c, f, services[s].deleted).columns = f
    BY <2>2, RowOfService
  <2> QED BY <2>3, <2>4, ReplaceService
<1> QED BY <1>2, <1>3

LEMMA DeleteServices ==
  ASSUME ServicesOK, NEW s \in ServiceIds, SoftDeleteService(s)
  PROVE  ServicesOK'
<1> DEFINE row == Service(services[s].customer, services[s].columns, TRUE)
<1>1. services[s] \in ServiceRow
  BY DEF ServicesOK, ServiceIds
<1>2. row \in ServiceRow /\ row.columns = services[s].columns
  BY <1>1 DEF Service, ServiceRow
<1>3. services' = [services EXCEPT ![s] = row]
  BY DEF SoftDeleteService
<1> HIDE DEF row
<1>4. ServiceValid(row.columns)
  BY <1>2 DEF ServicesOK
<1> QED BY <1>2, <1>3, <1>4, ReplaceService

LEMMA WriteDomains ==
  ASSUME DomainsOK, NEW s \in Nat
  PROVE  /\ \A t \in Texts : InsertServiceDomain(s, t) => DomainsOK'
         /\ \A d \in DOMAIN domains : DeleteServiceDomain(d) => DomainsOK'
<1>1. \A t \in Texts : Domain(s, t) \in DomainRow \cup {NULL}
  BY DEF Domain, DomainRow
<1>2. ASSUME NEW t \in Texts, InsertServiceDomain(s, t) PROVE DomainsOK'
  BY <1>1, <1>2, AppendRow DEF InsertServiceDomain, DomainsOK
<1>3. ASSUME NEW d \in DOMAIN domains, DeleteServiceDomain(d) PROVE DomainsOK'
  BY <1>3, ReplaceRow DEF DeleteServiceDomain, DomainsOK
<1> QED BY <1>2, <1>3

LEMMA WritePolicies ==
  ASSUME PoliciesOK, NEW s \in Nat, NEW row, PolicyValid(row)
  PROVE  /\ InsertStormPolicy(s, row) => PoliciesOK'
         /\ \A p \in DOMAIN policies : UpdateStormPolicy(p, s, row) => PoliciesOK'
<1>1. Policy(s, row) \in PolicyRow \cup {NULL} /\ Policy(s, row).columns = row
  BY DEF Policy, PolicyRow, PolicyValid
<1>2. ASSUME InsertStormPolicy(s, row) PROVE PoliciesOK'
  BY <1>1, <1>2, AppendRow DEF InsertStormPolicy, PoliciesOK
<1>3. ASSUME NEW p \in DOMAIN policies, UpdateStormPolicy(p, s, row) PROVE PoliciesOK'
  BY <1>1, <1>3, ReplaceRow DEF UpdateStormPolicy, PoliciesOK
<1> QED BY <1>2, <1>3

LEMMA DeletePolicies ==
  ASSUME PoliciesOK, NEW p \in DOMAIN policies, DeleteStormPolicy(p)
  PROVE  PoliciesOK'
BY ReplaceRow DEF DeleteStormPolicy, PoliciesOK

LEMMA InitIInv == Init => IInv
<1> SUFFICES ASSUME Init PROVE IInv
  OBVIOUS
<1>1. DOMAIN Owners \subseteq Nat /\ \A s \in DOMAIN Owners : Owners[s] \in Customers
  BY CustomersAssumption
<1>2. ServicesOK
  <2>1. \A s \in DOMAIN Owners : Service(Owners[s], StoredColumns, FALSE) \in ServiceRow
    BY <1>1, StoredAtStart, RowOfService
  <2>2. services \in [DOMAIN Owners -> ServiceRow]
    BY <2>1, Zenon DEF Init
  <2>3. services \in Seq(ServiceRow)
    BY <2>2, CustomersAssumption
  <2>4. \A s \in ServiceIds : services[s].columns = StoredColumns
    BY DEF Init, ServiceIds, Service
  <2> QED BY <2>3, <2>4, StoredAtStart DEF ServicesOK
<1>3. DomainsOK
  <2>1. \A d \in DOMAIN Owners : Domain(d, StoredName) \in DomainRow
    BY <1>1, TextsAssumption DEF Domain, DomainRow
  <2> QED BY <2>1, CustomersAssumption DEF Init, DomainsOK
<1>4. PoliciesOK
  <2>1. \A p \in DOMAIN Owners : Policy(p, StoredSettings) \in PolicyRow
    BY <1>1, StoredAtStart DEF Policy, PolicyRow, PolicyValid
  <2>2. policies \in Seq(PolicyRow \cup {NULL})
    BY <2>1, CustomersAssumption DEF Init
  <2>3. \A p \in DOMAIN policies : policies[p].columns = StoredSettings
    BY DEF Init, Policy
  <2> QED BY <2>2, <2>3, StoredAtStart DEF PoliciesOK
<1>5. RequestsOK
  BY DEF Init, RequestsOK, Points, Good
<1>6. RestOK
  BY FaultsAssumption DEF Init, RestOK
<1> QED BY <1>2, <1>3, <1>4, <1>5, <1>6 DEF IInv

\* The statements before the last.
Quiet == UNCHANGED <<tables, revoked, shown, faults, raced>>

LEMMA QuietTables ==
  IInv /\ UNCHANGED tables => ServicesOK' /\ DomainsOK' /\ PoliciesOK'
BY QuietServices, QuietDomains, QuietPolicies DEF IInv, tables

LEMMA QuietStep ==
  ASSUME IInv, RequestsOK', NEW r \in Requests, Quiet,
         status' = status \/ \E code \in {200, 400, 401, 404, 409, 500} : status' = [status EXCEPT ![r] = code]
  PROVE  IInv'
<1>1. RestOK'
  BY DEF IInv, RestOK, Quiet
<1> QED BY <1>1, QuietTables DEF IInv, Quiet

LEMMA BeginIInv ==
  ASSUME IInv, NEW r \in Requests, NEW o \in Route, NEW t \in Tokens \cup {Admin}, Begin(r, o, t)
  PROVE  IInv'
<1>1. PICK c \in Scope(t), path \in Paths(o), C \in Named(o) :
        req' = [req EXCEPT ![r] =
                 [op |-> o, token |-> t, customer |-> c, target |-> path.target,
                  item |-> path.item, named |-> C, loaded |-> NULL,
                  gone |-> {s \in ServiceIds : services[s].deleted}, void |-> revoked]]
  BY DEF Begin
<1> DEFINE x == [op |-> o, token |-> t, customer |-> c, target |-> path.target,
                 item |-> path.item, named |-> C, loaded |-> NULL,
                 gone |-> {s \in ServiceIds : services[s].deleted}, void |-> revoked]
<1>2. c \in Customers
  BY CustomersAssumption DEF Scope
<1>3. path.target \in Nat /\ path.item \in Nat
  BY DEF Paths, IInv, ServicesOK, DomainsOK, PoliciesOK
<1>4. /\ C \in SUBSET (ServiceColumns \cup PolicyColumns)
      /\ o = "patch_service" => C \subseteq ServiceColumns
      /\ o = "patch_policy" => C \subseteq PolicyColumns
  BY DEF Named
<1>5. {s \in ServiceIds : services[s].deleted} \in SUBSET Nat /\ revoked \in SUBSET Tokens
  BY DEF IInv, ServicesOK, ServiceIds, RestOK
<1>6. x \in Locals
  BY <1>2, <1>3, <1>4, <1>5 DEF Locals
<1>7. Good("auth", x)
  BY <1>4, <1>6 DEF Good
<1>8. Goto(r, "auth") /\ req' = [req EXCEPT ![r] = x]
  BY <1>1 DEF Begin
<1> HIDE DEF x
<1>9. RequestsOK'
  BY <1>6, <1>7, <1>8, GoOnWith DEF IInv, Points
<1> QED BY <1>9, QuietStep DEF Begin, Quiet

LEMMA AuthenticateIInv ==
  ASSUME IInv, NEW r \in Requests, Authenticate(r)
  PROVE  IInv'
<1>1. CASE Authentic(req[r].token)
  <2>1. PICK l \in {"answer", "load"} : Continue(r, l) /\ (l = "answer" => req[r].op \in Unloaded)
    BY <1>1 DEF Authenticate
  <2>2. Good(l, req[r])
    BY <2>1 DEF IInv, RequestsOK, Authenticate, At, Good, Unloaded
  <2>3. RequestsOK'
    BY <2>1, <2>2, GoOn DEF IInv, Points
  <2> QED BY <2>1, <2>3, QuietStep DEF Authenticate, Continue, Quiet
<1>2. CASE ~Authentic(req[r].token)
  BY <1>2, Answered, QuietStep DEF IInv, Authenticate, Answer, Quiet
<1> QED BY <1>1, <1>2

LEMMA LoadServiceIInv ==
  ASSUME IInv, NEW r \in Requests, LoadService(r)
  PROVE  IInv'
<1>0. At(r, "load") /\ Quiet
  BY DEF LoadService, Quiet
<1>1. /\ req[r] \in Locals
      /\ req[r].op = "patch_service" => req[r].named \subseteq ServiceColumns
      /\ req[r].op = "patch_policy" => req[r].named \subseteq PolicyColumns
  BY <1>0 DEF IInv, RequestsOK, At, Good
<1>2. CASE ~Visible(req[r].target, req[r].customer)
  BY <1>0, <1>2, Answered, QuietStep DEF IInv, LoadService, Answer
<1>3. CASE Visible(req[r].target, req[r].customer) /\ req[r].op # "patch_service"
  <2>1. PICK l \in {"policy", "answer"} :
          Continue(r, l) /\ (l = "policy" <=> req[r].op = "patch_policy")
    BY <1>3 DEF LoadService
  <2>2. Good(l, req[r])
    BY <1>1, <1>3, <2>1 DEF Good
  <2>3. RequestsOK'
    BY <2>1, <2>2, GoOn DEF IInv, Points
  <2> QED BY <1>0, <2>1, <2>3, QuietStep DEF Continue
<1>4. CASE Visible(req[r].target, req[r].customer) /\ req[r].op = "patch_service"
  <2> DEFINE row == services[req[r].target].columns
             x == [req[r] EXCEPT !.loaded = row]
  <2>1. Goto(r, "answer") /\ UNCHANGED status /\ req' = [req EXCEPT ![r] = x]
    BY <1>4 DEF LoadService
  <2>2. ServiceValid(row)
    BY <1>4 DEF IInv, ServicesOK, Visible
  <2> HIDE DEF row
  <2>3. x \in Locals /\ x.op = req[r].op /\ x.named = req[r].named /\ x.loaded = row
    BY <1>1, <2>2 DEF Locals, ServiceValid
  <2>4. Good("answer", x)
    BY <1>1, <1>4, <2>2, <2>3 DEF Good
  <2> HIDE DEF x
  <2>5. RequestsOK'
    BY <2>1, <2>3, <2>4, GoOnWith DEF IInv, Points
  <2> QED BY <1>0, <2>1, <2>5, QuietStep
<1> QED BY <1>2, <1>3, <1>4

LEMMA LoadPolicyIInv ==
  ASSUME IInv, NEW r \in Requests, LoadPolicy(r)
  PROVE  IInv'
<1>0. At(r, "policy") /\ Quiet
  BY DEF LoadPolicy, Quiet
<1>1. req[r] \in Locals /\ req[r].op = "patch_policy" /\ req[r].named \subseteq PolicyColumns
  BY <1>0 DEF IInv, RequestsOK, At, Good
<1>2. CASE req[r].item \notin PoliciesOf(req[r].target)
  BY <1>0, <1>2, Answered, QuietStep DEF IInv, LoadPolicy, Answer
<1>3. CASE req[r].item \in PoliciesOf(req[r].target)
  <2> DEFINE row == policies[req[r].item].columns
             x == [req[r] EXCEPT !.loaded = row]
  <2>1. Goto(r, "answer") /\ UNCHANGED status /\ req' = [req EXCEPT ![r] = x]
    BY <1>3 DEF LoadPolicy
  <2>2. PolicyValid(row)
    BY <1>3 DEF IInv, PoliciesOK, PoliciesOf
  <2> HIDE DEF row
  <2>3. x \in Locals /\ x.op = req[r].op /\ x.named = req[r].named /\ x.loaded = row
    BY <1>1, <2>2 DEF Locals, PolicyValid
  <2>4. Good("answer", x)
    BY <1>1, <2>2, <2>3 DEF Good
  <2> HIDE DEF x
  <2>5. RequestsOK'
    BY <2>1, <2>3, <2>4, GoOnWith DEF IInv, Points
  <2> QED BY <1>0, <2>1, <2>5, QuietStep
<1> QED BY <1>2, <1>3

\* A statement that ends its request: what else it may do to the rest.
LEMMA EndRest ==
  ASSUME RestOK, NEW r \in Requests, UNCHANGED <<revoked, shown>>, raced' \subseteq raced \cup Requests,
         NEW code \in {200, 201, 204, 400, 401, 404, 409, 500},
         Reply(r, code) \/ (Answer(r, code) /\ UNCHANGED faults)
  PROVE  RestOK'
BY FaultsAssumption DEF RestOK, Reply, Answer, Fault

LEMMA RejectIInv ==
  ASSUME IInv, NEW r \in Requests, RejectBody(r) PROVE IInv'
<1>1. RequestsOK'
  BY Answered DEF IInv, RejectBody
<1>2. RestOK'
  BY DEF IInv, RestOK, RejectBody, Answer
<1> QED BY <1>1, <1>2, QuietTables DEF IInv, RejectBody

LEMMA FailIInv ==
  ASSUME IInv, NEW r \in Requests, StatementFails(r) PROVE IInv'
<1>1. RequestsOK'
  BY Answered DEF IInv, StatementFails
<1>2. RestOK'
  BY FaultsAssumption DEF IInv, RestOK, StatementFails, Answer, Fault
<1> QED BY <1>1, <1>2, QuietTables DEF IInv, StatementFails

\* A request before its last statement has its locals.
LEMMA AtWork ==
  ASSUME IInv, NEW r \in Requests, pc[r] \notin {"idle", "done"}
  PROVE  /\ req[r] \in Locals
         /\ req[r].customer \in Customers
         /\ req[r].target \in Nat
BY DEF IInv, RequestsOK, Good, Locals

LEMMA ListServicesIInv ==
  ASSUME IInv, NEW r \in Requests, ListServices(r) PROVE IInv'
<1>1. RequestsOK'
  BY Answered DEF IInv, ListServices
<1>2. ServicesOf(req[r].customer) \in SUBSET Nat
  BY DEF ServicesOf, ServiceIds, IInv, ServicesOK
<1>3. RestOK'
  BY <1>2 DEF IInv, RestOK, ListServices, Answer
<1> QED BY <1>1, <1>3, QuietTables DEF IInv, ListServices

LEMMA CreateServiceIInv ==
  ASSUME IInv, NEW r \in Requests, CreateService(r) PROVE IInv'
<1>1. req[r].customer \in Customers
  BY AtWork DEF CreateService, Finishes, At
<1>2. PICK f \in [ServiceColumns -> Texts] :
        ValidService(f) /\ InsertService(req[r].customer, f)
  BY DEF CreateService
<1>3. ServicesOK'
  BY <1>1, <1>2, WriteServices DEF ValidService, ServiceValid, IInv
<1>4. RequestsOK'
  BY Replied DEF IInv, CreateService
<1>5. RestOK'
  BY EndRest DEF IInv, CreateService
<1> QED BY <1>3, <1>4, <1>5, QuietDomains, QuietPolicies DEF IInv, CreateService

\* The service of a patch that is about to be written is one of the table.
LEMMA PatchServiceIInv ==
  ASSUME IInv, NEW r \in Requests, PatchService(r), req[r].target \in ServiceIds PROVE IInv'
<1>1. /\ req[r].customer \in Customers
      /\ req[r].named \in SUBSET ServiceColumns
      /\ ServiceValid(req[r].loaded)
  BY AtWork DEF PatchService, Finishes, At, IInv, RequestsOK, Good
<1>2. PICK f \in [req[r].named -> Texts] :
        /\ ValidService(f)
        /\ UpdateService(req[r].target, req[r].customer, ApplyService(f, req[r].loaded))
  BY DEF PatchService
<1>3. ServiceValid(ApplyService(f, req[r].loaded))
  BY <1>1, <1>2, ApplyServiceValid
<1>4. ServicesOK'
  BY <1>1, <1>2, <1>3, WriteServices DEF IInv
<1>5. RequestsOK'
  BY Replied DEF IInv, PatchService
<1>6. RestOK'
  BY EndRest DEF IInv, PatchService, Overtaken
<1> QED BY <1>4, <1>5, <1>6, QuietDomains, QuietPolicies DEF IInv, PatchService

LEMMA DeleteServiceIInv ==
  ASSUME IInv, NEW r \in Requests, DeleteService(r) PROVE IInv'
<1>1. ServicesOK'
  BY DeleteServices, QuietServices DEF IInv, DeleteService, Visible
<1>2. RequestsOK'
  BY Replied, Answered DEF IInv, DeleteService
<1>3. RestOK'
  BY EndRest DEF IInv, DeleteService
<1> QED BY <1>1, <1>2, <1>3, QuietDomains, QuietPolicies DEF IInv, DeleteService

\* The rows of one service name it.
LEMMA NamesItsService ==
  ASSUME NEW s
  PROVE  /\ {domains[d].service : d \in DomainsOf(s)} \subseteq {s}
         /\ {policies[p].service : p \in PoliciesOf(s)} \subseteq {s}
BY DEF DomainsOf, PoliciesOf

LEMMA ReadDomainsIInv ==
  ASSUME IInv, NEW r \in Requests, ReadDomains(r) PROVE IInv'
<1>1. req[r] \in Locals /\ req[r].target \in Nat /\ pc[r] = "answer"
      /\ req[r].op \in {"get_service", "list_domains"}
  BY AtWork DEF ReadDomains, At
<1>2. RequestsOK'
  <2>1. CASE req[r].op = "get_service"
    <3>1. Good("policies", req[r])
      BY <1>1, <2>1 DEF Good
    <3> QED BY <2>1, <3>1, GoOn DEF IInv, ReadDomains, Points
  <2>2. CASE req[r].op # "get_service"
    BY <2>2, Answered DEF IInv, ReadDomains
  <2> QED BY <2>1, <2>2
<1>3. {domains[d].service : d \in DomainsOf(req[r].target)} \in SUBSET Nat
  BY <1>1, NamesItsService
<1>4. Itself(r) \in SUBSET Nat
  BY <1>1 DEF Itself
<1>5. shown' \in [Requests -> SUBSET Nat]
  BY <1>3, <1>4 DEF ReadDomains, IInv, RestOK
<1>6. RestOK'
  BY <1>5 DEF IInv, RestOK, ReadDomains, Continue, Answer
<1> QED BY <1>2, <1>6, QuietTables DEF IInv, ReadDomains

LEMMA ReadPoliciesIInv ==
  ASSUME IInv, NEW r \in Requests, ReadPolicies(r) PROVE IInv'
<1>1. req[r].target \in Nat
  BY AtWork DEF ReadPolicies, Finishes, At
<1>2. RequestsOK'
  BY Answered DEF IInv, ReadPolicies
<1>3. {policies[p].service : p \in PoliciesOf(req[r].target)} \in SUBSET Nat
  BY <1>1, NamesItsService
<1>4. shown' \in [Requests -> SUBSET Nat]
  BY <1>3 DEF ReadPolicies, IInv, RestOK
<1>5. RestOK'
  BY <1>4 DEF IInv, RestOK, ReadPolicies, Answer
<1> QED BY <1>2, <1>5, QuietTables DEF IInv, ReadPolicies

LEMMA DomainsIInv ==
  ASSUME IInv, NEW r \in Requests, CreateDomain(r) \/ DeleteDomain(r) PROVE IInv'
<1>1. req[r].target \in Nat
  BY AtWork DEF CreateDomain, DeleteDomain, Finishes, At
<1>2. DomainsOK'
  <2>1. CASE CreateDomain(r)
    BY <1>1, <2>1, WriteDomains, QuietDomains DEF IInv, CreateDomain
  <2>2. CASE DeleteDomain(r)
    BY <1>1, <2>2, WriteDomains, QuietDomains DEF IInv, DeleteDomain, DomainsOf
  <2> QED BY <2>1, <2>2
<1>3. RequestsOK'
  BY Replied, Answered DEF IInv, CreateDomain, DeleteDomain
<1>4. RestOK'
  BY EndRest DEF IInv, CreateDomain, DeleteDomain
<1> QED
  BY <1>2, <1>3, <1>4, QuietServices, QuietPolicies DEF IInv, CreateDomain, DeleteDomain

LEMMA CreatePolicyIInv ==
  ASSUME IInv, NEW r \in Requests, CreatePolicy(r) PROVE IInv'
<1>1. req[r].target \in Nat
  BY AtWork DEF CreatePolicy, Finishes, At
<1>2. PoliciesOK'
  BY <1>1, WritePolicies, InsertValid DEF IInv, CreatePolicy
<1>3. RequestsOK'
  BY Replied DEF IInv, CreatePolicy
<1>4. RestOK'
  BY EndRest DEF IInv, CreatePolicy
<1> QED BY <1>2, <1>3, <1>4, QuietServices, QuietDomains DEF IInv, CreatePolicy

LEMMA PatchPolicyIInv ==
  ASSUME IInv, NEW r \in Requests, PatchPolicy(r) PROVE IInv'
<1>1. /\ req[r].target \in Nat
      /\ req[r].named \in SUBSET PolicyColumns
      /\ PolicyValid(req[r].loaded)
  BY AtWork DEF PatchPolicy, Finishes, At, IInv, RequestsOK, Good
<1>2. PoliciesOK'
  <2>1. CASE req[r].item \in PoliciesOf(req[r].target)
    <3>1. PICK f \in Settings(req[r].named) :
            /\ ValidPolicy(f)
            /\ UpdateStormPolicy(req[r].item, req[r].target, ApplyPolicy(f, req[r].loaded))
      BY <2>1 DEF PatchPolicy
    <3>2. PolicyValid(ApplyPolicy(f, req[r].loaded))
      BY <1>1, <3>1, ApplyPolicyValid
    <3> QED BY <1>1, <2>1, <3>1, <3>2, WritePolicies DEF IInv, PoliciesOf
  <2>2. CASE req[r].item \notin PoliciesOf(req[r].target)
    BY <2>2, QuietPolicies DEF IInv, PatchPolicy
  <2> QED BY <2>1, <2>2
<1>3. RequestsOK'
  BY Replied, Answered DEF IInv, PatchPolicy
<1>4. RestOK'
  BY EndRest DEF IInv, PatchPolicy, Overtaken
<1> QED BY <1>2, <1>3, <1>4, QuietServices, QuietDomains DEF IInv, PatchPolicy

LEMMA DeletePolicyIInv ==
  ASSUME IInv, NEW r \in Requests, DeletePolicy(r) PROVE IInv'
<1>1. PoliciesOK'
  BY DeletePolicies, QuietPolicies DEF IInv, DeletePolicy, PoliciesOf
<1>2. RequestsOK'
  BY Replied, Answered DEF IInv, DeletePolicy
<1>3. RestOK'
  BY EndRest DEF IInv, DeletePolicy
<1> QED BY <1>1, <1>2, <1>3, QuietServices, QuietDomains DEF IInv, DeletePolicy

-----------------------------------------------------------------------------
(* Who is allowed what.                                                    *)

\* The locals x of a request whose next statement is l: its token was good, and
\* its service is its customer's, neither revoked nor deleted when it began.
Cleared(l, x) ==
  l \notin {"idle", "done"} =>
    /\ x.gone \subseteq {s \in ServiceIds : services[s].deleted}
    /\ x.void \subseteq revoked
    /\ l # "auth" => x.token \notin x.void
    /\ l \in {"policy", "policies"} => x.op \notin Unloaded
    /\ l \in {"policy", "answer", "policies"} /\ x.op \notin Unloaded =>
         /\ x.target \in ServiceIds
         /\ services[x.target].customer = x.customer
         /\ x.target \notin x.gone

AuthInv == \A r \in Requests : Cleared(pc[r], req[r])

\* A service stays, with its customer, and deleted once it is.
Kept ==
  /\ ServiceIds \subseteq ServiceIds'
  /\ \A s \in ServiceIds :
       /\ services'[s].customer = services[s].customer
       /\ services[s].deleted => services'[s].deleted
  /\ revoked \subseteq revoked'

LEMMA QuietKept == UNCHANGED <<services, revoked>> => Kept
BY DEF Kept, ServiceIds

\* The others are as cleared as before, when the tables keep the services.
LEMMA ClearedKept ==
  ASSUME Kept, NEW l, NEW x, Cleared(l, x)
  PROVE  Cleared(l, x)'
BY DEF Kept, Cleared

LEMMA AuthStep ==
  ASSUME IInv, AuthInv, Kept, NEW r \in Requests,
         NEW l, Goto(r, l), NEW x, req' = [req EXCEPT ![r] = x], Cleared(l, x)'
  PROVE  AuthInv'
<1>1. ASSUME NEW q \in Requests PROVE Cleared(pc[q], req[q])'
  <2>1. CASE q = r
    BY <2>1 DEF IInv, RequestsOK, Goto
  <2>2. CASE q # r
    <3>1. pc'[q] = pc[q] /\ req'[q] = req[q]
      BY <2>2 DEF IInv, RequestsOK, Goto
    <3>2. ASSUME NEW m, m = pc[q], NEW y, y = req[q] PROVE Cleared(pc[q], req[q])'
      <4>1. Cleared(m, y)
        BY <3>2 DEF AuthInv
      <4>2. Cleared(m, y)'
        BY <4>1, ClearedKept
      <4>3. m = pc'[q] /\ y = req'[q]
        BY <3>1, <3>2
      <4> QED BY <4>2, <4>3
    <3> QED BY <3>2
  <2> QED BY <2>1, <2>2
<1> QED BY <1>1 DEF AuthInv

LEMMA AuthAnswer ==
  ASSUME IInv, AuthInv, Kept, NEW r \in Requests, NEW code,
         Answer(r, code) \/ Reply(r, code)
  PROVE  AuthInv'
<1>1. Goto(r, "done") /\ req' = [req EXCEPT ![r] = NULL]
  BY DEF Answer, Reply
<1>2. Cleared("done", NULL)'
  BY DEF Cleared
<1> QED BY <1>1, <1>2, AuthStep

LEMMA AuthGoOn ==
  ASSUME IInv, AuthInv, Kept, NEW r \in Requests, NEW l, Continue(r, l), Cleared(l, req[r])
  PROVE  AuthInv'
<1>1. Goto(r, l) /\ req' = [req EXCEPT ![r] = req[r]]
  BY DEF Continue, IInv, RequestsOK
<1>2. ASSUME NEW x, x = req[r] PROVE AuthInv'
  <2>1. Cleared(l, x)'
    BY <1>2, ClearedKept
  <2> QED BY <1>1, <1>2, <2>1, AuthStep
<1> QED BY <1>2

\* At its last statement, a request on a service acts for the owner.
LEMMA IsEntitled ==
  ASSUME AuthInv, NEW r \in Requests, pc[r] \in {"answer", "policies"}, req[r].op \notin Unloaded
  PROVE  req[r].target \in ServiceIds /\ Entitled(r, req[r].target)
BY DEF AuthInv, Cleared, Entitled

LEMMA AuthBegin ==
  ASSUME IInv, AuthInv, NEW r \in Requests, NEW o \in Route, NEW t \in Tokens \cup {Admin},
         Begin(r, o, t)
  PROVE  AuthInv'
<1>1. Kept
  BY QuietKept DEF Begin, tables
<1>2. PICK c \in Scope(t), path \in Paths(o), C \in Named(o) :
        req' = [req EXCEPT ![r] =
                 [op |-> o, token |-> t, customer |-> c, target |-> path.target,
                  item |-> path.item, named |-> C, loaded |-> NULL,
                  gone |-> {s \in ServiceIds : services[s].deleted}, void |-> revoked]]
  BY DEF Begin
<1>3. ASSUME NEW x, x = [op |-> o, token |-> t, customer |-> c, target |-> path.target,
                         item |-> path.item, named |-> C, loaded |-> NULL,
                         gone |-> {s \in ServiceIds : services[s].deleted}, void |-> revoked]
      PROVE  AuthInv'
  <2>1. x.gone = {s \in ServiceIds : services[s].deleted} /\ x.void = revoked
    BY <1>3
  <2>2. Cleared("auth", x)
    BY <2>1 DEF Cleared
  <2>3. Cleared("auth", x)'
    BY <1>1, <2>2, ClearedKept
  <2> QED BY <1>1, <1>2, <1>3, <2>3, AuthStep DEF Begin
<1> QED BY <1>3

LEMMA AuthAuthenticate ==
  ASSUME IInv, AuthInv, NEW r \in Requests, Authenticate(r)
  PROVE  AuthInv'
<1>1. Kept
  BY QuietKept DEF Authenticate, tables
<1>2. Cleared("auth", req[r]) /\ req[r] \in Locals
  BY AtWork DEF AuthInv, Authenticate, At
<1>3. CASE Authentic(req[r].token)
  <2>1. req[r].token \notin req[r].void
    BY <1>2, <1>3, CustomersAssumption DEF Authentic, Cleared, IInv, RestOK
  <2>2. PICK l \in {"answer", "load"} : Continue(r, l) /\ (l = "answer" => req[r].op \in Unloaded)
    BY <1>3 DEF Authenticate
  <2>3. Cleared(l, req[r])
    BY <1>2, <2>1, <2>2 DEF Cleared
  <2> QED BY <1>1, <2>2, <2>3, AuthGoOn
<1>4. CASE ~Authentic(req[r].token)
  BY <1>1, <1>4, AuthAnswer DEF Authenticate
<1> QED BY <1>3, <1>4

LEMMA AuthLoadService ==
  ASSUME IInv, AuthInv, NEW r \in Requests, LoadService(r)
  PROVE  AuthInv'
<1>1. Kept
  BY QuietKept DEF LoadService, tables
<1>2. Cleared("load", req[r]) /\ req[r] \in Locals
  BY AtWork DEF AuthInv, LoadService, At
<1>3. CASE ~Visible(req[r].target, req[r].customer)
  BY <1>1, <1>3, AuthAnswer DEF LoadService
<1>4. CASE Visible(req[r].target, req[r].customer)
  <2>1. /\ req[r].target \in ServiceIds
        /\ services[req[r].target].customer = req[r].customer
        /\ req[r].target \notin req[r].gone
    BY <1>2, <1>4 DEF Visible, Cleared
  <2>2. CASE req[r].op # "patch_service"
    <3>1. PICK l \in {"policy", "answer"} :
            Continue(r, l) /\ (l = "policy" <=> req[r].op = "patch_policy")
      BY <1>4, <2>2 DEF LoadService
    <3>2. Cleared(l, req[r])
      BY <1>2, <2>1, <3>1 DEF Cleared, Unloaded
    <3> QED BY <1>1, <3>1, <3>2, AuthGoOn
  <2>3. CASE req[r].op = "patch_service"
    <3>1. ASSUME NEW x, x = [req[r] EXCEPT !.loaded = services[req[r].target].columns]
          PROVE  AuthInv'
      <4>1. /\ x.gone = req[r].gone /\ x.void = req[r].void /\ x.token = req[r].token
            /\ x.op = req[r].op /\ x.target = req[r].target /\ x.customer = req[r].customer
        BY <1>2, <3>1 DEF Locals
      <4>2. Cleared("answer", x)
        BY <1>2, <2>1, <4>1 DEF Cleared
      <4>3. Cleared("answer", x)'
        BY <1>1, <4>2, ClearedKept
      <4>4. Goto(r, "answer") /\ req' = [req EXCEPT ![r] = x]
        BY <1>4, <2>3, <3>1 DEF LoadService
      <4> QED BY <1>1, <4>3, <4>4, AuthStep
    <3> QED BY <3>1
  <2> QED BY <2>2, <2>3
<1> QED BY <1>3, <1>4

LEMMA AuthLoadPolicy ==
  ASSUME IInv, AuthInv, NEW r \in Requests, LoadPolicy(r)
  PROVE  AuthInv'
<1>1. Kept
  BY QuietKept DEF LoadPolicy, tables
<1>2. Cleared("policy", req[r]) /\ req[r] \in Locals
  BY AtWork DEF AuthInv, LoadPolicy, At
<1>3. CASE req[r].item \notin PoliciesOf(req[r].target)
  BY <1>1, <1>3, AuthAnswer DEF LoadPolicy
<1>4. CASE req[r].item \in PoliciesOf(req[r].target)
  <2>1. ASSUME NEW x, x = [req[r] EXCEPT !.loaded = policies[req[r].item].columns]
        PROVE  AuthInv'
    <3>1. /\ x.gone = req[r].gone /\ x.void = req[r].void /\ x.token = req[r].token
          /\ x.op = req[r].op /\ x.target = req[r].target /\ x.customer = req[r].customer
      BY <1>2, <2>1 DEF Locals
    <3>2. Cleared("answer", x)
      BY <1>2, <3>1 DEF Cleared
    <3>3. Cleared("answer", x)'
      BY <1>1, <3>2, ClearedKept
    <3>4. Goto(r, "answer") /\ req' = [req EXCEPT ![r] = x]
      BY <1>4, <2>1 DEF LoadPolicy
    <3> QED BY <1>1, <3>3, <3>4, AuthStep
  <2> QED BY <2>1
<1> QED BY <1>3, <1>4

\* The writes to services keep them.
LEMMA KeptInsert ==
  ASSUME IInv, NEW c, NEW f, InsertService(c, f), UNCHANGED revoked
  PROVE  Kept /\ \A s \in ServiceIds : services'[s] = services[s]
<1>1. ASSUME NEW row, services' = Append(services, row)
      PROVE  ServiceIds \subseteq ServiceIds' /\ \A s \in ServiceIds : services'[s] = services[s]
  BY <1>1 DEF IInv, ServicesOK, ServiceIds
<1> QED BY <1>1 DEF InsertService, Kept

LEMMA KeptUpdate ==
  ASSUME IInv, NEW s \in ServiceIds, NEW f, UpdateService(s, services[s].customer, f),
         UNCHANGED revoked
  PROVE  Kept /\ \A t \in ServiceIds \ {s} : services'[t] = services[t]
BY DEF IInv, ServicesOK, UpdateService, Service, Kept, ServiceIds

LEMMA KeptDelete ==
  ASSUME IInv, NEW s \in ServiceIds, SoftDeleteService(s), UNCHANGED revoked
  PROVE  Kept /\ \A t \in ServiceIds \ {s} : services'[t] = services[t]
BY DEF IInv, ServicesOK, SoftDeleteService, Service, Kept, ServiceIds

\* An inserted row, and a row of another service that is written.
LEMMA OtherDomains ==
  ASSUME IInv, NEW s, NEW t, s # t,
         \/ \E n \in Texts : InsertServiceDomain(t, n)
         \/ \E d \in DomainsOf(t) : DeleteServiceDomain(d)
  PROVE  DomainsOf(s)' = DomainsOf(s) /\ \A d \in DomainsOf(s) : domains'[d] = domains[d]
<1>1. ASSUME NEW n \in Texts, InsertServiceDomain(t, n)
      PROVE  DomainsOf(s)' = DomainsOf(s) /\ \A d \in DomainsOf(s) : domains'[d] = domains[d]
  <2>1. PICK row : row.service = t /\ domains' = Append(domains, row)
    BY <1>1 DEF InsertServiceDomain, Domain
  <2>2. /\ DOMAIN domains' = DOMAIN domains \cup {Len(domains) + 1}
        /\ \A d \in DOMAIN domains : domains'[d] = domains[d]
        /\ domains'[Len(domains) + 1] = row
    BY <2>1 DEF IInv, DomainsOK
  <2> QED BY <2>1, <2>2 DEF DomainsOf
<1>2. ASSUME NEW d \in DomainsOf(t), DeleteServiceDomain(d)
      PROVE  DomainsOf(s)' = DomainsOf(s) /\ \A e \in DomainsOf(s) : domains'[e] = domains[e]
  BY <1>2 DEF DeleteServiceDomain, DomainsOf, IInv, DomainsOK
<1> QED BY <1>1, <1>2

LEMMA OtherPolicies ==
  ASSUME IInv, NEW s, NEW t, s # t,
         \/ \E row : InsertStormPolicy(t, row)
         \/ \E p \in PoliciesOf(t) : DeleteStormPolicy(p) \/ \E row : UpdateStormPolicy(p, t, row)
  PROVE  PoliciesOf(s)' = PoliciesOf(s) /\ \A p \in PoliciesOf(s) : policies'[p] = policies[p]
<1>1. ASSUME NEW f, InsertStormPolicy(t, f)
      PROVE  PoliciesOf(s)' = PoliciesOf(s) /\ \A p \in PoliciesOf(s) : policies'[p] = policies[p]
  <2>1. PICK row : row.service = t /\ policies' = Append(policies, row)
    BY <1>1 DEF InsertStormPolicy, Policy
  <2>2. /\ DOMAIN policies' = DOMAIN policies \cup {Len(policies) + 1}
        /\ \A p \in DOMAIN policies : policies'[p] = policies[p]
        /\ policies'[Len(policies) + 1] = row
    BY <2>1 DEF IInv, PoliciesOK
  <2> QED BY <2>1, <2>2 DEF PoliciesOf
<1>2. ASSUME NEW p \in PoliciesOf(t), DeleteStormPolicy(p) \/ \E row : UpdateStormPolicy(p, t, row)
      PROVE  PoliciesOf(s)' = PoliciesOf(s) /\ \A q \in PoliciesOf(s) : policies'[q] = policies[q]
  <2>1. PICK x : (x = NULL \/ x.service = t) /\ policies' = [policies EXCEPT ![p] = x]
    BY <1>2 DEF DeleteStormPolicy, UpdateStormPolicy, Policy
  <2> QED BY <2>1 DEF PoliciesOf, IInv, PoliciesOK
<1> QED BY <1>1, <1>2

LEMMA SameDomains ==
  ASSUME NEW s, UNCHANGED domains
  PROVE  DomainsOf(s)' = DomainsOf(s) /\ \A d \in DomainsOf(s) : domains'[d] = domains[d]
BY DEF DomainsOf

LEMMA SamePolicies ==
  ASSUME NEW s, UNCHANGED policies
  PROVE  PoliciesOf(s)' = PoliciesOf(s) /\ \A p \in PoliciesOf(s) : policies'[p] = policies[p]
BY DEF PoliciesOf

LEMMA SameBelongings ==
  ASSUME NEW s, services'[s] = services[s],
         DomainsOf(s)' = DomainsOf(s), \A d \in DomainsOf(s) : domains'[d] = domains[d],
         PoliciesOf(s)' = PoliciesOf(s), \A p \in PoliciesOf(s) : policies'[p] = policies[p]
  PROVE  Belongings(s)' = Belongings(s)
BY DEF Belongings

\* What TenantIsolation says of one step.
Isolated ==
  /\ \A s \in ServiceIds : Belongings(s)' # Belongings(s) =>
       \E r \in Requests : At(r, "answer") /\ At(r, "done")' /\ req[r].target = s /\ Entitled(r, s)
  /\ \A r \in Requests : \A s \in shown'[r] \ shown[r] : Entitled(r, s)

LEMMA QuietIsolated == UNCHANGED <<tables, shown>> => Isolated
<1> SUFFICES ASSUME UNCHANGED <<tables, shown>> PROVE Isolated
  OBVIOUS
<1>1. \A s : Belongings(s)' = Belongings(s)
  BY SameDomains, SamePolicies, SameBelongings DEF tables
<1> QED BY <1>1 DEF Isolated

\* A statement that ends a request and writes what belongs to its service.
LEMMA OwnWrite ==
  ASSUME IInv, NEW r \in Requests, At(r, "answer"), Goto(r, "done"), UNCHANGED shown,
         Entitled(r, req[r].target),
         \A s \in ServiceIds \ {req[r].target} : Belongings(s)' = Belongings(s)
  PROVE  Isolated
<1>1. At(r, "done")'
  BY DEF IInv, RequestsOK, At, Goto
<1> QED BY <1>1 DEF Isolated

\* An answer of rows that belong to the service of the request, or to none.
LEMMA OwnRead ==
  ASSUME IInv, NEW r \in Requests, NEW S, \A s \in S \ shown[r] : Entitled(r, s),
         shown' = [shown EXCEPT ![r] = S], UNCHANGED tables
  PROVE  Isolated
<1>1. \A s : Belongings(s)' = Belongings(s)
  BY SameDomains, SamePolicies, SameBelongings DEF tables
<1>2. \A q \in Requests : \A s \in shown'[q] \ shown[q] : Entitled(q, s)
  BY DEF IInv, RestOK
<1> QED BY <1>1, <1>2 DEF Isolated

LEMMA Ends ==
  ASSUME NEW r, NEW code, Answer(r, code) \/ Reply(r, code)
  PROVE  Goto(r, "done")
BY DEF Answer, Reply

\* The actions, one by one: they keep AuthInv, and they are isolated.
LEMMA StepBefore ==
  ASSUME IInv, AuthInv, NEW r \in Requests,
         \/ \E o \in Route, t \in Tokens \cup {Admin} : Begin(r, o, t)
         \/ Authenticate(r) \/ LoadService(r) \/ LoadPolicy(r)
         \/ RejectBody(r) \/ StatementFails(r)
  PROVE  IInv' /\ AuthInv' /\ Isolated
<1>1. CASE \E o \in Route, t \in Tokens \cup {Admin} : Begin(r, o, t)
  <2>1. IInv' /\ AuthInv'
    BY <1>1, BeginIInv, AuthBegin
  <2> QED BY <1>1, <2>1, QuietIsolated DEF Begin
<1>2. CASE Authenticate(r)
  <2>1. IInv' /\ AuthInv'
    BY <1>2, AuthenticateIInv, AuthAuthenticate
  <2> QED BY <1>2, <2>1, QuietIsolated DEF Authenticate
<1>3. CASE LoadService(r)
  <2>1. IInv' /\ AuthInv'
    BY <1>3, LoadServiceIInv, AuthLoadService
  <2> QED BY <1>3, <2>1, QuietIsolated DEF LoadService
<1>4. CASE LoadPolicy(r)
  <2>1. IInv' /\ AuthInv'
    BY <1>4, LoadPolicyIInv, AuthLoadPolicy
  <2> QED BY <1>4, <2>1, QuietIsolated DEF LoadPolicy
<1>5. CASE RejectBody(r)
  <2>1. Kept
    BY <1>5, QuietKept DEF RejectBody, tables
  <2>2. IInv' /\ AuthInv'
    BY <1>5, <2>1, RejectIInv, AuthAnswer DEF RejectBody
  <2> QED BY <1>5, <2>2, QuietIsolated DEF RejectBody
<1>6. CASE StatementFails(r)
  <2>1. Kept
    BY <1>6, QuietKept DEF StatementFails, tables
  <2>2. IInv' /\ AuthInv'
    BY <1>6, <2>1, FailIInv, AuthAnswer DEF StatementFails
  <2>3. Isolated
    BY <1>6, OwnRead DEF StatementFails
  <2> QED BY <2>2, <2>3
<1> QED BY <1>1, <1>2, <1>3, <1>4, <1>5, <1>6

LEMMA StepListServices ==
  ASSUME IInv, AuthInv, NEW r \in Requests, ListServices(r)
  PROVE  IInv' /\ AuthInv' /\ Isolated
<1>1. Kept
  BY QuietKept DEF ListServices, tables
<1>2. AuthInv'
  BY <1>1, AuthAnswer DEF ListServices
<1>3. Cleared("answer", req[r])
  BY DEF AuthInv, ListServices, Finishes, At
<1>4. \A s \in ServicesOf(req[r].customer) : Entitled(r, s)
  BY <1>3 DEF ServicesOf, Visible, Entitled, Cleared
<1>5. Isolated
  BY <1>4, OwnRead DEF ListServices
<1> QED BY <1>2, <1>5, ListServicesIInv

LEMMA StepCreateService ==
  ASSUME IInv, AuthInv, NEW r \in Requests, CreateService(r)
  PROVE  IInv' /\ AuthInv' /\ Isolated
<1>1. PICK f : InsertService(req[r].customer, f)
  BY DEF CreateService
<1>2. Kept /\ \A s \in ServiceIds : services'[s] = services[s]
  BY <1>1, KeptInsert DEF CreateService
<1>3. AuthInv'
  BY <1>2, AuthAnswer DEF CreateService
<1>4. \A s \in ServiceIds : Belongings(s)' = Belongings(s)
  BY <1>2, SameDomains, SamePolicies, SameBelongings DEF CreateService
<1>5. Isolated
  BY <1>4 DEF Isolated, CreateService
<1> QED BY <1>3, <1>5, CreateServiceIInv

LEMMA StepPatchService ==
  ASSUME IInv, AuthInv, NEW r \in Requests, PatchService(r)
  PROVE  IInv' /\ AuthInv' /\ Isolated
<1>1. Cleared("answer", req[r]) /\ req[r].op \notin Unloaded
  BY DEF AuthInv, PatchService, Finishes, At, Unloaded
<1>2. /\ req[r].target \in ServiceIds /\ Entitled(r, req[r].target)
      /\ services[req[r].target].customer = req[r].customer
  BY <1>1, IsEntitled DEF PatchService, Finishes, At, Cleared
<1>3. PICK f : UpdateService(req[r].target, req[r].customer, f)
  BY DEF PatchService
<1>4. Kept /\ \A s \in ServiceIds \ {req[r].target} : services'[s] = services[s]
  BY <1>2, <1>3, KeptUpdate DEF PatchService
<1>5. AuthInv'
  BY <1>4, AuthAnswer DEF PatchService
<1>6. \A s \in ServiceIds \ {req[r].target} : Belongings(s)' = Belongings(s)
  BY <1>4, SameDomains, SamePolicies, SameBelongings DEF PatchService
<1>7. Isolated
  BY <1>2, <1>6, Ends, OwnWrite DEF PatchService, Finishes
<1> QED BY <1>2, <1>5, <1>7, PatchServiceIInv

LEMMA StepDeleteService ==
  ASSUME IInv, AuthInv, NEW r \in Requests, DeleteService(r)
  PROVE  IInv' /\ AuthInv' /\ Isolated
<1>1. CASE Visible(req[r].target, req[r].customer)
  <2>1. SoftDeleteService(req[r].target) /\ req[r].target \in ServiceIds
    BY <1>1 DEF DeleteService, Visible
  <2>2. Kept /\ \A s \in ServiceIds \ {req[r].target} : services'[s] = services[s]
    BY <2>1, KeptDelete DEF DeleteService
  <2>3. AuthInv'
    BY <1>1, <2>2, AuthAnswer DEF DeleteService
  <2>4. \A s \in ServiceIds \ {req[r].target} : Belongings(s)' = Belongings(s)
    BY <2>2, SameDomains, SamePolicies, SameBelongings DEF DeleteService
  <2>5. Cleared("answer", req[r])
    BY DEF AuthInv, DeleteService, Finishes, At
  <2>6. Entitled(r, req[r].target)
    BY <1>1, <2>5 DEF Visible, Entitled, Cleared
  <2>7. Isolated
    BY <1>1, <2>4, <2>6, Ends, OwnWrite DEF DeleteService, Finishes
  <2> QED BY <2>3, <2>7, DeleteServiceIInv
<1>2. CASE ~Visible(req[r].target, req[r].customer)
  <2>1. UNCHANGED <<tables, shown>> /\ Kept
    BY <1>2, QuietKept DEF DeleteService, tables
  <2>2. AuthInv'
    BY <1>2, <2>1, AuthAnswer DEF DeleteService
  <2> QED BY <2>1, <2>2, QuietIsolated, DeleteServiceIInv
<1> QED BY <1>1, <1>2

LEMMA StepRead ==
  ASSUME IInv, AuthInv, NEW r \in Requests, ReadDomains(r) \/ ReadPolicies(r)
  PROVE  IInv' /\ AuthInv' /\ Isolated
<1>1. Kept
  BY QuietKept DEF ReadDomains, ReadPolicies, tables
<1>2. Cleared(pc[r], req[r]) /\ pc[r] \in {"answer", "policies"} /\ req[r].op \notin Unloaded
  BY DEF AuthInv, Cleared, ReadDomains, ReadPolicies, Finishes, At, Unloaded
<1>3. Entitled(r, req[r].target)
  BY <1>2, IsEntitled
<1>4. CASE ReadDomains(r)
  <2>1. AuthInv'
    <3>1. CASE req[r].op = "get_service"
      <4>1. Cleared("policies", req[r])
        BY <1>2, <1>4 DEF Cleared, ReadDomains, At
      <4> QED BY <1>1, <1>4, <3>1, <4>1, AuthGoOn DEF ReadDomains
    <3>2. CASE req[r].op # "get_service"
      BY <1>1, <1>4, <3>2, AuthAnswer DEF ReadDomains
    <3> QED BY <3>1, <3>2
  <2>2. Isolated
    <3> DEFINE S == Itself(r) \cup {domains[d].service : d \in DomainsOf(req[r].target)}
    <3>1. shown' = [shown EXCEPT ![r] = S]
      BY <1>4 DEF ReadDomains
    <3>2. \A s \in S : Entitled(r, s)
      BY <1>3, NamesItsService DEF Itself
    <3> QED BY <1>4, <3>1, <3>2, OwnRead DEF ReadDomains
  <2> QED BY <1>4, <2>1, <2>2, ReadDomainsIInv
<1>5. CASE ReadPolicies(r)
  <2>1. AuthInv'
    BY <1>1, <1>5, AuthAnswer DEF ReadPolicies
  <2>2. Isolated
    <3> DEFINE S == shown[r] \cup {policies[p].service : p \in PoliciesOf(req[r].target)}
    <3>1. shown' = [shown EXCEPT ![r] = S]
      BY <1>5 DEF ReadPolicies
    <3>2. \A s \in S \ shown[r] : Entitled(r, s)
      BY <1>3, NamesItsService
    <3> QED BY <1>5, <3>1, <3>2, OwnRead DEF ReadPolicies
  <2> QED BY <1>5, <2>1, <2>2, ReadPoliciesIInv
<1> QED BY <1>4, <1>5

LEMMA StepDomains ==
  ASSUME IInv, AuthInv, NEW r \in Requests, CreateDomain(r) \/ DeleteDomain(r)
  PROVE  IInv' /\ AuthInv' /\ Isolated
<1>1. Kept
  BY QuietKept DEF CreateDomain, DeleteDomain
<1>2. \E code : Answer(r, code) \/ Reply(r, code)
  BY DEF CreateDomain, DeleteDomain
<1>3. AuthInv'
  BY <1>1, <1>2, AuthAnswer
<1>4. Entitled(r, req[r].target)
  BY IsEntitled DEF CreateDomain, DeleteDomain, Finishes, At, Unloaded
<1>5. \/ UNCHANGED domains
      \/ \E n \in Texts : InsertServiceDomain(req[r].target, n)
      \/ \E d \in DomainsOf(req[r].target) : DeleteServiceDomain(d)
  BY DEF CreateDomain, DeleteDomain
<1>6. ASSUME NEW s \in ServiceIds \ {req[r].target} PROVE Belongings(s)' = Belongings(s)
  <2>1. UNCHANGED <<services, policies>>
    BY DEF CreateDomain, DeleteDomain
  <2>2. DomainsOf(s)' = DomainsOf(s) /\ \A d \in DomainsOf(s) : domains'[d] = domains[d]
    BY <1>5, SameDomains, OtherDomains
  <2> QED BY <2>1, <2>2, SamePolicies, SameBelongings
<1>7. Isolated
  BY <1>2, <1>4, <1>6, Ends, OwnWrite DEF CreateDomain, DeleteDomain, Finishes
<1> QED BY <1>3, <1>7, DomainsIInv

LEMMA StepPolicies ==
  ASSUME IInv, AuthInv, NEW r \in Requests,
         CreatePolicy(r) \/ PatchPolicy(r) \/ DeletePolicy(r)
  PROVE  IInv' /\ AuthInv' /\ Isolated
<1>1. Kept
  BY QuietKept DEF CreatePolicy, PatchPolicy, DeletePolicy
<1>2. \E code : Answer(r, code) \/ Reply(r, code)
  BY DEF CreatePolicy, PatchPolicy, DeletePolicy
<1>3. AuthInv'
  BY <1>1, <1>2, AuthAnswer
<1>4. Entitled(r, req[r].target)
  BY IsEntitled DEF CreatePolicy, PatchPolicy, DeletePolicy, Finishes, At, Unloaded
<1>5. \/ UNCHANGED policies
      \/ \E row : InsertStormPolicy(req[r].target, row)
      \/ \E p \in PoliciesOf(req[r].target) :
           DeleteStormPolicy(p) \/ \E row : UpdateStormPolicy(p, req[r].target, row)
  BY DEF CreatePolicy, PatchPolicy, DeletePolicy
<1>6. ASSUME NEW s \in ServiceIds \ {req[r].target} PROVE Belongings(s)' = Belongings(s)
  <2>1. UNCHANGED <<services, domains>>
    BY DEF CreatePolicy, PatchPolicy, DeletePolicy
  <2>2. PoliciesOf(s)' = PoliciesOf(s) /\ \A p \in PoliciesOf(s) : policies'[p] = policies[p]
    BY <1>5, SamePolicies, OtherPolicies
  <2> QED BY <2>1, <2>2, SameDomains, SameBelongings
<1>7. Isolated
  BY <1>2, <1>4, <1>6, Ends, OwnWrite DEF CreatePolicy, PatchPolicy, DeletePolicy, Finishes
<1>8. IInv'
  BY CreatePolicyIInv, PatchPolicyIInv, DeletePolicyIInv
<1> QED BY <1>3, <1>7, <1>8

LEMMA StepRevoke ==
  ASSUME IInv, AuthInv, NEW t \in Tokens, Revoke(t)
  PROVE  IInv' /\ AuthInv' /\ Isolated
<1>1. Kept
  BY DEF Revoke, tables, Kept, ServiceIds
<1>2. AuthInv'
  BY <1>1, ClearedKept DEF Revoke, AuthInv, Cleared
<1>3. RestOK' /\ RequestsOK'
  BY QuietRequests DEF IInv, RestOK, Revoke
<1>4. Isolated
  BY QuietIsolated DEF Revoke
<1> QED BY <1>2, <1>3, <1>4, QuietTables DEF IInv, Revoke

LEMMA StepQuiet == IInv /\ AuthInv /\ UNCHANGED vars => IInv' /\ AuthInv' /\ Isolated
<1> SUFFICES ASSUME IInv, AuthInv, UNCHANGED vars PROVE IInv' /\ AuthInv' /\ Isolated
  OBVIOUS
<1>1. Kept
  BY QuietKept DEF vars, tables
<1>2. AuthInv'
  BY <1>1, ClearedKept DEF vars, AuthInv, Cleared
<1>3. RestOK' /\ RequestsOK'
  BY QuietRequests DEF IInv, RestOK, vars
<1>4. Isolated
  BY QuietIsolated DEF vars
<1> QED BY <1>2, <1>3, <1>4, QuietTables DEF IInv, vars

LEMMA NextIInv == IInv /\ AuthInv /\ [Next]_vars => IInv' /\ AuthInv' /\ Isolated
<1> SUFFICES ASSUME IInv, AuthInv, [Next]_vars PROVE IInv' /\ AuthInv' /\ Isolated
  OBVIOUS
<1>1. ASSUME NEW r \in Requests, Step(r) PROVE IInv' /\ AuthInv' /\ Isolated
  BY <1>1, StepBefore, StepListServices, StepCreateService, StepPatchService, StepDeleteService,
     StepRead, StepDomains, StepPolicies DEF Step
<1> QED BY <1>1, StepRevoke, StepQuiet DEF Next

LEMMA InitAuth == Init => AuthInv
BY DEF Init, AuthInv, Cleared

(* The tables keep their shapes, and every stored row validates as a       *)
(* whole, though it is merged from a body that was validated alone and a   *)
(* row that was read earlier (server.go:297-341, 467-506).                 *)
THEOREM TypeCorrect == Spec => []TypeOK
BY InitIInv, InitAuth, IInvType, NextIInv, PTL DEF Spec

(* A customer reads and writes what belongs to its own services only, with *)
(* a token and on a service that were good when the request began,         *)
(* whatever runs between the statements of its requests                    *)
(* (authMiddleware and requireServiceContext, server.go:87-134, 531-553).  *)
THEOREM Isolation == Spec => TenantIsolation
<1>1. IInv /\ AuthInv /\ [Next]_vars => [Isolated]_vars
  BY NextIInv
<1> QED BY <1>1, InitIInv, InitAuth, NextIInv, PTL DEF Spec, TenantIsolation, Isolated

-----------------------------------------------------------------------------
(* What a patch overwrites.                                                *)

\* The row that request q has loaded for its patch is still the row stored,
\* unless another patch of the row has raced with it.
Fresh(q) ==
  /\ Finishes(q, "patch_service") /\ q \notin raced =>
       req[q].loaded = services[req[q].target].columns
  /\ Finishes(q, "patch_policy") =>
       /\ req[q].item \in DOMAIN policies
       /\ policies[req[q].item] # NULL =>
            /\ policies[req[q].item].service = req[q].target
            /\ q \notin raced => req[q].loaded = policies[req[q].item].columns

FreshInv == \A q \in Requests : Fresh(q)

\* A step that patches nothing.
Unpatched ==
  /\ UNCHANGED raced
  /\ \A s \in ServiceIds : services'[s].columns = services[s].columns
  /\ \A p \in DOMAIN policies :
       p \in DOMAIN policies' /\ (policies'[p] = policies[p] \/ policies'[p] = NULL)

LEMMA QuietUnpatched == UNCHANGED <<services, policies, raced>> => Unpatched
BY DEF Unpatched

\* The request of a service patch has its service.
LEMMA PatchTarget ==
  ASSUME AuthInv, NEW q \in Requests, Finishes(q, "patch_service")
  PROVE  req[q].target \in ServiceIds /\ services[req[q].target].customer = req[q].customer
BY DEF AuthInv, Cleared, Finishes, At, Unloaded

LEMMA FreshStep ==
  ASSUME IInv, AuthInv, FreshInv, Unpatched, NEW r \in Requests,
         NEW l, Goto(r, l), NEW x, req' = [req EXCEPT ![r] = x], Fresh(r)'
  PROVE  FreshInv'
<1>1. ASSUME NEW q \in Requests PROVE Fresh(q)'
  <2>1. CASE q = r
    BY <2>1
  <2>2. CASE q # r
    <3>1. pc'[q] = pc[q] /\ req'[q] = req[q]
      BY <2>2 DEF IInv, RequestsOK, Goto
    <3>2. Fresh(q)
      BY DEF FreshInv
    <3> QED BY <3>1, <3>2, PatchTarget DEF Unpatched, Fresh, Finishes, At
  <2> QED BY <2>1, <2>2
<1> QED BY <1>1 DEF FreshInv

\* A request that goes on, but not to write a patch.
LEMMA FreshGoOn ==
  ASSUME IInv, AuthInv, FreshInv, Unpatched, NEW r \in Requests, NEW l, NEW x,
         Goto(r, l), req' = [req EXCEPT ![r] = x],
         l # "answer" \/ x.op \notin Patches
  PROVE  FreshInv'
<1>1. pc'[r] = l /\ req'[r] = x
  BY DEF IInv, RequestsOK, Goto
<1>2. Fresh(r)'
  BY <1>1 DEF Fresh, Finishes, At, Patches
<1> QED BY <1>2, FreshStep

LEMMA FreshAnswer ==
  ASSUME IInv, AuthInv, FreshInv, Unpatched, NEW r \in Requests, NEW code,
         Answer(r, code) \/ Reply(r, code)
  PROVE  FreshInv'
<1>1. Goto(r, "done") /\ req' = [req EXCEPT ![r] = NULL]
  BY DEF Answer, Reply
<1> QED BY <1>1, FreshGoOn

LEMMA FreshContinue ==
  ASSUME IInv, AuthInv, FreshInv, Unpatched, NEW r \in Requests, NEW l, Continue(r, l),
         l # "answer" \/ req[r].op \notin Patches
  PROVE  FreshInv'
<1>1. Goto(r, l) /\ req' = [req EXCEPT ![r] = req[r]]
  BY DEF Continue, IInv, RequestsOK
<1> QED BY <1>1, FreshGoOn

LEMMA FreshBefore ==
  ASSUME IInv, AuthInv, FreshInv, NEW r \in Requests,
         \/ \E o \in Route, t \in Tokens \cup {Admin} : Begin(r, o, t)
         \/ Authenticate(r) \/ LoadService(r) \/ LoadPolicy(r)
         \/ RejectBody(r) \/ StatementFails(r)
  PROVE  FreshInv' /\ Unpatched
<1>0. Unpatched
  BY QuietUnpatched
  DEF Begin, Authenticate, LoadService, LoadPolicy, RejectBody, StatementFails, tables
<1>1. ASSUME NEW o \in Route, NEW t \in Tokens \cup {Admin}, Begin(r, o, t) PROVE FreshInv'
  <2>1. \E x : req' = [req EXCEPT ![r] = x] /\ Goto(r, "auth")
    BY <1>1, Zenon DEF Begin
  <2> QED BY <1>0, <2>1, FreshGoOn
<1>2. CASE Authenticate(r)
  <2>1. CASE Authentic(req[r].token)
    <3>1. PICK l \in {"answer", "load"} : Continue(r, l) /\ (l = "answer" => req[r].op \in Unloaded)
      BY <1>2, <2>1 DEF Authenticate
    <3> QED BY <1>0, <3>1, FreshContinue DEF Unloaded, Patches
  <2>2. CASE ~Authentic(req[r].token)
    BY <1>0, <1>2, <2>2, FreshAnswer DEF Authenticate
  <2> QED BY <2>1, <2>2
<1>3. CASE LoadService(r)
  <2>1. CASE ~Visible(req[r].target, req[r].customer)
    BY <1>0, <1>3, <2>1, FreshAnswer DEF LoadService
  <2>2. CASE Visible(req[r].target, req[r].customer) /\ req[r].op # "patch_service"
    <3>1. PICK l \in {"policy", "answer"} :
            Continue(r, l) /\ (l = "policy" <=> req[r].op = "patch_policy")
      BY <1>3, <2>2 DEF LoadService
    <3> QED BY <1>0, <2>2, <3>1, FreshContinue DEF Patches
  <2>3. CASE Visible(req[r].target, req[r].customer) /\ req[r].op = "patch_service"
    <3>1. PICK x : x = [req[r] EXCEPT !.loaded = services[req[r].target].columns]
      OBVIOUS
    <3>2. Goto(r, "answer") /\ req' = [req EXCEPT ![r] = x]
      BY <1>3, <2>3, <3>1 DEF LoadService
    <3>3. req[r] \in Locals
      BY <1>3, AtWork DEF LoadService, At
    <3>4. /\ x.op = "patch_service" /\ x.target = req[r].target
          /\ x.loaded = services[req[r].target].columns
      BY <2>3, <3>1, <3>3 DEF Locals
    <3>5. req'[r] = x /\ UNCHANGED services
      BY <1>3, <3>2 DEF IInv, RequestsOK, LoadService, tables
    <3>6. Fresh(r)'
      BY <3>4, <3>5 DEF Fresh, Finishes
    <3> QED BY <1>0, <3>2, <3>6, FreshStep
  <2> QED BY <2>1, <2>2, <2>3
<1>4. CASE LoadPolicy(r)
  <2>1. CASE req[r].item \notin PoliciesOf(req[r].target)
    BY <1>0, <1>4, <2>1, FreshAnswer DEF LoadPolicy
  <2>2. CASE req[r].item \in PoliciesOf(req[r].target)
    <3>1. PICK x : x = [req[r] EXCEPT !.loaded = policies[req[r].item].columns]
      OBVIOUS
    <3>2. Goto(r, "answer") /\ req' = [req EXCEPT ![r] = x]
      BY <1>4, <2>2, <3>1 DEF LoadPolicy
    <3>3. req[r] \in Locals /\ req[r].op = "patch_policy"
      BY <1>4 DEF IInv, RequestsOK, Good, LoadPolicy, At
    <3>4. /\ x.op = "patch_policy" /\ x.target = req[r].target /\ x.item = req[r].item
          /\ x.loaded = policies[req[r].item].columns
      BY <3>1, <3>3 DEF Locals
    <3>5. req'[r] = x /\ UNCHANGED policies
      BY <1>4, <3>2 DEF IInv, RequestsOK, LoadPolicy, tables
    <3>6. Fresh(r)'
      BY <2>2, <3>4, <3>5 DEF Fresh, Finishes, PoliciesOf
    <3> QED BY <1>0, <3>2, <3>6, FreshStep
  <2> QED BY <2>1, <2>2
<1>5. CASE RejectBody(r) \/ StatementFails(r)
  BY <1>0, <1>5, FreshAnswer DEF RejectBody, StatementFails
<1> QED BY <1>0, <1>1, <1>2, <1>3, <1>4, <1>5

LEMMA FreshOthers ==
  ASSUME IInv, AuthInv, FreshInv, NEW r \in Requests,
         \/ ListServices(r) \/ CreateService(r) \/ DeleteService(r)
         \/ ReadDomains(r) \/ ReadPolicies(r) \/ CreateDomain(r) \/ DeleteDomain(r)
         \/ CreatePolicy(r) \/ DeletePolicy(r)
  PROVE  FreshInv' /\ Unpatched
<1>1. Unpatched
  <2>1. CASE CreateService(r)
    <3>1. PICK f : InsertService(req[r].customer, f)
      BY <2>1 DEF CreateService
    <3>2. \A s \in ServiceIds : services'[s] = services[s]
      BY <2>1, <3>1, KeptInsert DEF CreateService
    <3> QED BY <2>1, <3>2 DEF CreateService, Unpatched
  <2>2. CASE DeleteService(r)
    BY <2>2 DEF DeleteService, SoftDeleteService, Service, Unpatched, ServiceIds
  <2>3. CASE CreatePolicy(r)
    <3>1. PICK row : policies' = Append(policies, row)
      BY <2>3 DEF CreatePolicy, InsertStormPolicy
    <3>2. \A p \in DOMAIN policies : p \in DOMAIN policies' /\ policies'[p] = policies[p]
      BY <3>1 DEF IInv, PoliciesOK
    <3> QED BY <2>3, <3>2 DEF CreatePolicy, Unpatched
  <2>4. CASE DeletePolicy(r)
    BY <2>4 DEF DeletePolicy, DeleteStormPolicy, Unpatched
  <2> QED
    BY <2>1, <2>2, <2>3, <2>4, QuietUnpatched
    DEF ListServices, ReadDomains, ReadPolicies, CreateDomain, DeleteDomain, tables
<1>2. CASE ReadDomains(r) /\ req[r].op = "get_service"
  BY <1>1, <1>2, FreshContinue DEF ReadDomains
<1>3. CASE ~(ReadDomains(r) /\ req[r].op = "get_service")
  <2>1. \E code : Answer(r, code) \/ Reply(r, code)
    BY <1>3
    DEF ListServices, CreateService, DeleteService, ReadDomains, ReadPolicies, CreateDomain,
        DeleteDomain, CreatePolicy, DeletePolicy
  <2> QED BY <1>1, <2>1, FreshAnswer
<1> QED BY <1>1, <1>2, <1>3

\* What PatchKeepsColumns says of one step.
ColumnsKept ==
  /\ \A s \in ServiceIds : \A c \in ServiceColumns :
       services'[s].columns[c] # services[s].columns[c] =>
         \E r \in Requests : /\ pc[r] # pc'[r] /\ req[r].op = "patch_service" /\ req[r].target = s
                             /\ c \in req[r].named \/ r \in raced
  /\ \A p \in DOMAIN policies : \A c \in PolicyColumns :
       (policies[p] # NULL /\ policies'[p] # NULL
          /\ policies'[p].columns[c] # policies[p].columns[c]) =>
         \E r \in Requests : /\ pc[r] # pc'[r] /\ req[r].op = "patch_policy" /\ req[r].item = p
                             /\ c \in req[r].named \/ r \in raced

LEMMA UnpatchedKept == Unpatched => ColumnsKept
BY DEF Unpatched, ColumnsKept

LEMMA Ended ==
  ASSUME IInv, NEW r \in Requests, NEW code, Answer(r, code) \/ Reply(r, code)
  PROVE  pc'[r] = "done" /\ \A q \in Requests \ {r} : pc'[q] = pc[q] /\ req'[q] = req[q]
BY DEF Answer, Reply, Goto, IInv, RequestsOK

LEMMA FreshPatchService ==
  ASSUME IInv, AuthInv, FreshInv, NEW r \in Requests, PatchService(r)
  PROVE  FreshInv' /\ ColumnsKept
<1> DEFINE s == req[r].target
<1>1. /\ pc[r] = "answer" /\ req[r].op = "patch_service" /\ s \in ServiceIds
      /\ services[s].customer = req[r].customer
      /\ pc'[r] = "done" /\ \A q \in Requests \ {r} : pc'[q] = pc[q] /\ req'[q] = req[q]
  BY PatchTarget, Ended DEF PatchService, Finishes, At
<1>2. PICK f \in [req[r].named -> Texts] :
        UpdateService(s, req[r].customer, ApplyService(f, req[r].loaded))
  BY DEF PatchService
<1>3. /\ \A t \in ServiceIds \ {s} : services'[t] = services[t]
      /\ services'[s].columns = ApplyService(f, req[r].loaded)
  BY <1>1, <1>2 DEF UpdateService, Service, ServiceIds, IInv, ServicesOK
<1>4. UNCHANGED policies /\ raced' = (raced \ {r}) \cup Overtaken(r, "patch_service")
  BY DEF PatchService
<1>5. ASSUME NEW q \in Requests PROVE Fresh(q)'
  <2>1. CASE q = r
    BY <1>1, <2>1 DEF Fresh, Finishes, At
  <2>2. CASE q # r /\ Finishes(q, "patch_policy")
    <3>1. Fresh(q)
      BY DEF FreshInv
    <3>2. q \notin raced' => q \notin raced
      BY <1>4, <2>2
    <3> QED BY <1>1, <1>4, <2>2, <3>1, <3>2 DEF Fresh, Finishes, At
  <2>3. CASE q # r /\ Finishes(q, "patch_service") /\ req[q].target = s
    <3>1. q \in raced'
      BY <1>4, <2>3 DEF Overtaken, Finishes, At
    <3> QED BY <1>1, <2>3, <3>1 DEF Fresh, Finishes, At
  <2>4. CASE q # r /\ Finishes(q, "patch_service") /\ req[q].target # s
    <3>1. Fresh(q) /\ req[q].target \in ServiceIds
      BY <2>4, PatchTarget DEF FreshInv
    <3>2. q \notin raced' => q \notin raced
      BY <1>4, <2>4
    <3> QED BY <1>1, <1>3, <2>4, <3>1, <3>2 DEF Fresh, Finishes, At
  <2>5. CASE q # r /\ ~Finishes(q, "patch_service") /\ ~Finishes(q, "patch_policy")
    BY <1>1, <2>5 DEF Fresh, Finishes, At
  <2> QED BY <2>1, <2>2, <2>3, <2>4, <2>5
<1>6. ASSUME NEW c \in ServiceColumns, services'[s].columns[c] # services[s].columns[c]
      PROVE  c \in req[r].named \/ r \in raced
  <2>1. CASE r \in raced
    BY <2>1
  <2>2. CASE r \notin raced
    <3>1. req[r].loaded = services[s].columns
      BY <1>1, <2>2 DEF FreshInv, Fresh, Finishes, At
    <3> QED BY <1>3, <1>6, <3>1 DEF ApplyService
  <2> QED BY <2>1, <2>2
<1>7. pc[r] # pc'[r]
  BY <1>1
<1> HIDE DEF s
<1>8. ColumnsKept
  BY <1>1, <1>3, <1>4, <1>6, <1>7 DEF ColumnsKept, s
<1> QED BY <1>5, <1>8 DEF FreshInv

LEMMA FreshPatchPolicy ==
  ASSUME IInv, AuthInv, FreshInv, NEW r \in Requests, PatchPolicy(r)
  PROVE  FreshInv' /\ ColumnsKept
<1>1. CASE req[r].item \notin PoliciesOf(req[r].target)
  <2>1. Unpatched
    BY <1>1, QuietUnpatched DEF PatchPolicy
  <2>2. FreshInv'
    BY <1>1, <2>1, FreshAnswer DEF PatchPolicy
  <2> QED BY <2>1, <2>2, UnpatchedKept
<1>2. CASE req[r].item \in PoliciesOf(req[r].target)
  <2> DEFINE p == req[r].item
  <2>1. /\ pc[r] = "answer" /\ req[r].op = "patch_policy"
        /\ p \in DOMAIN policies /\ policies[p] # NULL /\ policies[p].service = req[r].target
        /\ pc'[r] = "done" /\ \A q \in Requests \ {r} : pc'[q] = pc[q] /\ req'[q] = req[q]
    BY <1>2, Ended DEF PatchPolicy, Finishes, At, PoliciesOf
  <2>2. PICK f \in Settings(req[r].named) :
          UpdateStormPolicy(p, req[r].target, ApplyPolicy(f, req[r].loaded))
    BY <1>2 DEF PatchPolicy
  <2>3. /\ DOMAIN policies' = DOMAIN policies
        /\ \A t \in DOMAIN policies \ {p} : policies'[t] = policies[t]
        /\ policies'[p].columns = ApplyPolicy(f, req[r].loaded)
        /\ policies'[p].service = req[r].target
    BY <2>1, <2>2 DEF UpdateStormPolicy, Policy
  <2>4. UNCHANGED services /\ raced' = (raced \ {r}) \cup Overtaken(r, "patch_policy")
    BY <1>2 DEF PatchPolicy
  <2>5. ASSUME NEW q \in Requests PROVE Fresh(q)'
    <3>1. CASE q = r
      BY <2>1, <3>1 DEF Fresh, Finishes, At
    <3>2. CASE q # r /\ Finishes(q, "patch_service")
      <4>1. Fresh(q)
        BY DEF FreshInv
      <4>2. q \notin raced' => q \notin raced
        BY <2>4, <3>2
      <4> QED BY <2>1, <2>4, <3>2, <4>1, <4>2 DEF Fresh, Finishes, At
    <3>3. CASE q # r /\ Finishes(q, "patch_policy") /\ req[q].item = p
      <4>1. req[q].target = req[r].target
        BY <2>1, <3>3 DEF FreshInv, Fresh
      <4>2. q \in raced'
        BY <2>4, <3>3, <4>1 DEF Overtaken, Finishes, At
      <4> QED BY <2>1, <2>3, <3>3, <4>1, <4>2 DEF Fresh, Finishes, At
    <3>4. CASE q # r /\ Finishes(q, "patch_policy") /\ req[q].item # p
      <4>1. Fresh(q)
        BY DEF FreshInv
      <4>2. q \notin raced' => q \notin raced
        BY <2>4, <3>4
      <4> QED BY <2>1, <2>3, <3>4, <4>1, <4>2 DEF Fresh, Finishes, At
    <3>5. CASE q # r /\ ~Finishes(q, "patch_service") /\ ~Finishes(q, "patch_policy")
      BY <2>1, <3>5 DEF Fresh, Finishes, At
    <3> QED BY <3>1, <3>2, <3>3, <3>4, <3>5
  <2>6. ASSUME NEW c \in PolicyColumns, policies'[p].columns[c] # policies[p].columns[c]
        PROVE  c \in req[r].named \/ r \in raced
    <3>1. CASE r \in raced
      BY <3>1
    <3>2. CASE r \notin raced
      <4>1. req[r].loaded = policies[p].columns
        BY <2>1, <3>2 DEF FreshInv, Fresh, Finishes, At
      <4>2. DOMAIN f = req[r].named
        BY DEF Settings
      <4> QED BY <2>3, <2>6, <4>1, <4>2 DEF ApplyPolicy
    <3> QED BY <3>1, <3>2
  <2>7. pc[r] # pc'[r]
    BY <2>1
  <2> HIDE DEF p
  <2>8. ColumnsKept
    BY <2>1, <2>3, <2>4, <2>6, <2>7 DEF ColumnsKept, p
  <2> QED BY <2>5, <2>8 DEF FreshInv
<1> QED BY <1>1, <1>2

LEMMA NextFresh == IInv /\ AuthInv /\ FreshInv /\ [Next]_vars => FreshInv' /\ ColumnsKept
<1> SUFFICES ASSUME IInv, AuthInv, FreshInv, [Next]_vars PROVE FreshInv' /\ ColumnsKept
  OBVIOUS
<1>1. ASSUME NEW r \in Requests, Step(r) PROVE FreshInv' /\ ColumnsKept
  BY <1>1, FreshBefore, FreshOthers, FreshPatchService, FreshPatchPolicy, UnpatchedKept DEF Step
<1>2. ASSUME UNCHANGED <<tables, pc, req, raced>> PROVE FreshInv' /\ ColumnsKept
  <2>1. Unpatched
    BY <1>2, QuietUnpatched DEF tables
  <2>2. FreshInv'
    BY <1>2 DEF tables, FreshInv, Fresh, Finishes, At
  <2> QED BY <2>1, <2>2, UnpatchedKept
<1> QED BY <1>1, <1>2 DEF Next, Revoke, vars

(* Of two concurrent patches one may undo the other, and nothing else      *)
(* undoes a column: the row that a PATCH merges its body into is the row   *)
(* stored unless another PATCH of that row came in between                 *)
(* (server.go:297-341, 467-506).                                           *)
THEOREM LostUpdatesAreRaces == Spec => PatchKeepsColumns
<1>1. Init => FreshInv
  BY DEF Init, FreshInv, Fresh, Finishes, At
<1>2. IInv /\ AuthInv /\ FreshInv /\ [Next]_vars => FreshInv' /\ [ColumnsKept]_vars
  BY NextFresh
<1> QED
  BY <1>1, <1>2, InitIInv, InitAuth, NextIInv, PTL DEF Spec, PatchKeepsColumns, ColumnsKept
=============================================================================
