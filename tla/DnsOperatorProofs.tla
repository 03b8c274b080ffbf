------------------------- MODULE DnsOperatorProofs -------------------------
(***************************************************************************)
(* What holds of DnsOperator for any services and names, and any number of *)
(* failures and edits: the type invariant, that a call sets weights of its *)
(* own service and round, and that one undisturbed round is enough.        *)
(***************************************************************************)
EXTENDS DnsOperator, TLAPS

(***************************************************************************)
(* The type invariant: the provider's steps, then the operator's.          *)
(***************************************************************************)
ProviderOK ==
  /\ served \in [Zones -> [Names -> Weights \cup Given \cup {NULL}]]
  /\ call \in Call \cup {NULL}
  /\ late \in [Request -> Nat]

LEMMA InvokeType ==
  ASSUME ProviderOK, NEW n \in Names, NEW w \in Weights, Invoke(n, w)
  PROVE  ProviderOK' /\ call' # NULL
<1>1. call' \in Call
  BY DEF Invoke, Call
<1>. QED BY <1>1, CallAssumption DEF ProviderOK, Invoke

LEMMA ApplyType ==
  ASSUME ProviderOK, NEW z \in Zones, Apply(z)
  PROVE  ProviderOK' /\ call' # NULL
<1>1. call \in Call
  BY DEF ProviderOK, Apply
<1>2. call' \in Call
  BY <1>1 DEF Apply, Call
<1>3. served' \in [Zones -> [Names -> Weights \cup Given \cup {NULL}]]
  BY <1>1 DEF ProviderOK, Apply, Call
<1>. QED BY <1>2, <1>3, CallAssumption DEF ProviderOK, Apply

LEMMA LingerType ==
  ASSUME ProviderOK, NEW z \in Zones, Linger(z)
  PROVE  ProviderOK'
<1>1. call \in Call
  BY DEF ProviderOK, Linger
<1>2. <<z, call.name, call.weights>> \in Request
  BY <1>1 DEF Call, Request
<1>3. late' \in [Request -> Nat]
  BY <1>2 DEF ProviderOK, Linger
<1>. QED BY <1>3 DEF ProviderOK, Linger

\* The zone that a call reaches is one of the zones.
LEMMA CallZone ==
  ASSUME ProviderOK, call # NULL
  PROVE  ZoneOf[call.name] \in Zones
BY ZoneOfAssumption DEF ProviderOK, Call

\* A call that reaches its zone, or leaves its request on the way to it.
LEMMA ReachType ==
  ASSUME ProviderOK, Apply(ZoneOf[call.name]) \/ Linger(ZoneOf[call.name])
  PROVE  ProviderOK'
<1>1. ZoneOf[call.name] \in Zones
  BY CallZone DEF Apply, Linger
<1>. QED BY <1>1, ApplyType, LingerType

LEMMA ReturnType ==
  ASSUME ProviderOK, ReturnOk \/ ReturnError
  PROVE  ProviderOK' /\ call' = NULL
BY DEF ProviderOK, ReturnOk, ReturnError

LEMMA LateType ==
  ASSUME ProviderOK, NEW r \in Request, TakeLate(r) \/ LoseLate(r)
  PROVE  ProviderOK' /\ call' = call
<1>1. late' \in [Request -> Nat]
  BY DEF ProviderOK, TakeLate, LoseLate
<1>2. r[1] \in Zones /\ r[2] \in Names /\ r[3] \in Weights
  BY DEF Request
<1>. QED BY <1>1, <1>2 DEF ProviderOK, TakeLate, LoseLate

LEMMA FaultType ==
  ASSUME faults \in Nat, Fault
  PROVE  faults' \in Nat /\ calm' \in BOOLEAN
<1>1. faults' \in Nat
  BY DEF Fault
<1>2. calm' \in BOOLEAN
  BY Zenon DEF Fault
<1>. QED BY <1>1, <1>2

LEMMA EditType ==
  ASSUME edits \in Nat, Edit
  PROVE  edits' \in Nat /\ calm' \in BOOLEAN
<1>1. edits' \in Nat
  BY DEF Edit
<1>2. calm' \in BOOLEAN
  BY Zenon DEF Edit
<1>. QED BY <1>1, <1>2

LEMMA BreaksType ==
  ASSUME ProviderOK, faults \in Nat, calm \in BOOLEAN, CallBreaks
  PROVE  ProviderOK' /\ call' = NULL /\ faults' \in Nat /\ calm' \in BOOLEAN
<1>1. CASE ReturnError /\ UNCHANGED <<faults, calm>>
  BY <1>1, ReturnType
<1>2. CASE Fault /\ ReturnError
  BY <1>2, ReturnType, FaultType
<1>3. CASE Fault /\ Linger(ZoneOf[call.name]) /\ call' = NULL
  BY <1>3, ReachType, FaultType
<1>. QED BY <1>1, <1>2, <1>3 DEF CallBreaks

LEMMA InitType == Init => TypeOK
<1>. SUFFICES ASSUME Init PROVE TypeOK
  OBVIOUS
<1>1. ASSUME NEW s \in Services PROVE {Desired(s)} \in SUBSET {Primary, Backup}
  BY DEF Desired
<1>2. held \in [Services -> SUBSET {Primary, Backup}]
  BY <1>1 DEF Init
<1>. QED BY <1>2, ServicesAssumption DEF Init, ProviderInit, TypeOK

LEMMA NextType == TypeOK /\ [Next]_vars => TypeOK'
<1>. SUFFICES ASSUME TypeOK, [Next]_vars PROVE TypeOK'
  OBVIOUS
<1>0. ProviderOK
  BY DEF TypeOK, ProviderOK
<1>1. CASE ListServices
  <2>1. held' \in [Services -> SUBSET {Primary, Backup}]
    BY <1>1 DEF ListServices, Desired
  <2>2. calm' \in BOOLEAN
    BY <1>1 DEF ListServices
  <2>. QED BY <1>1, <2>1, <2>2 DEF ListServices, providerVars, tables, TypeOK
<1>2. ASSUME NEW s \in Services, PlanService(s) PROVE TypeOK'
  <2>1. want' \in Weights
    BY <1>2, WeightsAssumption DEF PlanService, Desired
  <2>. QED BY <1>2, <2>1 DEF PlanService, NextService, providerVars, tables, TypeOK
<1>3. ASSUME NEW s \in Services, PlanFails(s) PROVE TypeOK'
  <2>1. faults' \in Nat /\ calm' \in BOOLEAN
    BY <1>3, FaultType DEF PlanFails, TypeOK
  <2>. QED BY <1>3, <2>1 DEF PlanFails, NextService, providerVars, tables, TypeOK
<1>4. CASE ListDomains
  BY <1>4 DEF ListDomains, NamesOf, providerVars, tables, TypeOK
<1>5. CASE DomainsFail
  <2>1. faults' \in Nat /\ calm' \in BOOLEAN
    BY <1>5, FaultType DEF DomainsFail, TypeOK
  <2>. QED BY <1>5, <2>1 DEF DomainsFail, providerVars, tables, TypeOK
<1>6. ASSUME NEW n \in Names, SetWeights(n) PROVE TypeOK'
  <2>1. ProviderOK' /\ call' # NULL
    BY <1>0, <1>6, InvokeType DEF SetWeights, TypeOK
  <2>. QED BY <1>6, <2>1 DEF SetWeights, tables, TypeOK, ProviderOK
<1>7. CASE CallEnds
  <2>1. ProviderOK' /\ call' = NULL
    BY <1>0, <1>7, ReturnType DEF CallEnds
  <2>. QED BY <1>7, <2>1 DEF CallEnds, tables, TypeOK, ProviderOK
<1>8. CASE CallFails
  <2>1. ProviderOK' /\ call' = NULL /\ faults' \in Nat /\ calm' \in BOOLEAN
    BY <1>0, <1>8, BreaksType DEF CallFails, TypeOK
  <2>. QED BY <1>8, <2>1 DEF CallFails, tables, TypeOK, ProviderOK
<1>9. CASE EndService
  BY <1>9 DEF EndService, providerVars, tables, TypeOK
<1>10. CASE EndRound
  BY <1>10 DEF EndRound, providerVars, tables, TypeOK
<1>11. CASE Crash
  <2>1. ProviderOK' /\ call' = NULL
    BY <1>0, <1>11, ReturnType, ReachType DEF Crash, providerVars, ProviderOK
  <2>2. faults' \in Nat /\ calm' \in BOOLEAN
    BY <1>11, FaultType DEF Crash, TypeOK
  <2>. QED BY <1>11, <2>1, <2>2 DEF Crash, tables, TypeOK, ProviderOK
<1>12. CASE ProviderApplies
  <2>1. ProviderOK' /\ call' # NULL
    BY <1>0, <1>12, CallZone, ApplyType DEF ProviderApplies
  <2>2. faults' \in Nat /\ calm' \in BOOLEAN
    <3>1. CASE Fault
      BY <3>1, FaultType DEF TypeOK
    <3>2. CASE UNCHANGED <<faults, calm>>
      BY <3>2 DEF TypeOK
    <3>. QED BY <1>12, <3>1, <3>2 DEF ProviderApplies
  <2>. QED BY <1>12, <2>1, <2>2 DEF ProviderApplies, tables, round, TypeOK, ProviderOK
<1>13. CASE ProviderLingers
  <2>1. ProviderOK' /\ call' = call
    BY <1>0, <1>13, ReachType DEF ProviderLingers
  <2>2. faults' \in Nat /\ calm' \in BOOLEAN
    BY <1>13, FaultType DEF ProviderLingers, TypeOK
  <2>. QED BY <1>13, <2>1, <2>2 DEF ProviderLingers, tables, round, TypeOK, ProviderOK
<1>14. CASE LateRequest
  <2>1. ProviderOK' /\ call' = call
    BY <1>0, <1>14, LateType DEF LateRequest
  <2>2. calm' \in BOOLEAN
    BY <1>14, Zenon DEF LateRequest
  <2>. QED BY <1>14, <2>1, <2>2 DEF LateRequest, tables, round, TypeOK, ProviderOK
<1>15. ASSUME NEW s \in Services, StormChange(s) PROVE TypeOK'
  BY <1>15 DEF StormChange, providerVars, round, TypeOK
<1>16. ASSUME NEW s \in Services, SoftDelete(s) PROVE TypeOK'
  <2>1. edits' \in Nat /\ calm' \in BOOLEAN
    BY <1>16, EditType DEF SoftDelete, TypeOK
  <2>. QED BY <1>16, <2>1 DEF SoftDelete, providerVars, round, TypeOK
<1>17. ASSUME NEW s \in Services, NEW n \in Names, AddDomain(s, n) \/ RemoveDomain(s, n)
       PROVE  TypeOK'
  <2>1. edits' \in Nat /\ calm' \in BOOLEAN
    BY <1>17, EditType DEF AddDomain, RemoveDomain, TypeOK
  <2>. QED BY <1>17, <2>1 DEF AddDomain, RemoveDomain, providerVars, round, TypeOK
<1>18. CASE UNCHANGED vars
  BY <1>18 DEF vars, providerVars, tables, round, TypeOK
<1>. QED
  BY <1>1, <1>2, <1>3, <1>4, <1>5, <1>6, <1>7, <1>8, <1>9, <1>10, <1>11, <1>12, <1>13,
     <1>14, <1>15, <1>16, <1>17, <1>18 DEF Next, OperatorStep, FaultStep, Environment

(* The shape of the state, with what a place in the round fixes: a call is *)
(* in progress exactly where the loop waits for one (main.go:63-98).       *)
THEOREM TypeCorrect == Spec => []TypeOK
BY InitType, NextType, PTL DEF Spec

-----------------------------------------------------------------------------
(***************************************************************************)
(* A plan is of its service and of its round.                              *)
(***************************************************************************)
Planned ==
  /\ \A s \in Services : Desired(s) \in held[s]
  /\ pc \in {"domains", "names", "call"} => want \in held[svc]
  /\ call # NULL => call.weights = want

LEMMA InitPlanned == Init => Planned
BY DEF Init, ProviderInit, Planned

LEMMA NextPlanned == TypeOK /\ Planned /\ [Next]_vars => Planned'
<1>. SUFFICES ASSUME TypeOK, Planned, [Next]_vars PROVE Planned'
  OBVIOUS
<1>0. (pc = "call") <=> (call # NULL)
  BY DEF TypeOK
<1>1. CASE ListServices
  BY <1>0, <1>1 DEF ListServices, providerVars, tables, Desired, Planned
<1>2. ASSUME NEW s \in Services, PlanService(s) PROVE Planned'
  BY <1>0, <1>2 DEF PlanService, NextService, providerVars, tables, Desired, Planned
<1>3. ASSUME NEW s \in Services, PlanFails(s) PROVE Planned'
  BY <1>0, <1>3 DEF PlanFails, NextService, providerVars, tables, Desired, Planned
<1>4. CASE ListDomains
  BY <1>0, <1>4 DEF ListDomains, providerVars, tables, Desired, Planned
<1>5. CASE DomainsFail
  BY <1>0, <1>5 DEF DomainsFail, providerVars, tables, Desired, Planned
<1>6. ASSUME NEW n \in Names, SetWeights(n) PROVE Planned'
  BY <1>6 DEF SetWeights, Invoke, tables, Desired, Planned
<1>7. CASE CallEnds
  BY <1>7 DEF CallEnds, ReturnOk, tables, Desired, Planned
<1>8. CASE CallFails
  <2>1. call' = NULL
    BY <1>8 DEF CallFails, CallBreaks, ReturnError
  <2>. QED BY <1>8, <2>1 DEF CallFails, tables, Desired, Planned
<1>9. CASE EndService
  BY <1>9 DEF EndService, providerVars, tables, Desired, Planned
<1>10. CASE EndRound
  BY <1>0, <1>10 DEF EndRound, providerVars, tables, Desired, Planned
<1>11. CASE Crash
  <2>1. call' = NULL
    BY <1>11 DEF Crash, ReturnError, providerVars
  <2>. QED BY <1>11, <2>1 DEF Crash, tables, Desired, Planned
<1>12. CASE ProviderApplies
  BY <1>12 DEF ProviderApplies, Apply, tables, round, Desired, Planned
<1>13. CASE ProviderLingers
  BY <1>13 DEF ProviderLingers, tables, round, Desired, Planned
<1>14. CASE LateRequest
  <2>1. call' = call
    BY <1>14 DEF LateRequest, TakeLate, LoseLate
  <2>. QED BY <1>14, <2>1 DEF LateRequest, tables, round, Desired, Planned
<1>15. ASSUME NEW s \in Services, StormChange(s) PROVE Planned'
  <2>1. /\ held \in [Services -> SUBSET {Primary, Backup}]
        /\ held' = [held EXCEPT ![s] = {Primary, Backup}]
    BY <1>15 DEF StormChange, TypeOK
  <2>2. \A u \in Services : held[u] \subseteq held'[u]
    BY <2>1
  <2>3. ASSUME NEW u \in Services PROVE Desired(u)' \in held'[u]
    <3>1. CASE u = s
      BY <2>1, <3>1 DEF Desired
    <3>2. CASE u # s
      <4>1. Desired(u)' = Desired(u)
        BY <1>15, <3>2 DEF StormChange, Desired
      <4>. QED BY <2>2, <4>1 DEF Planned
    <3>. QED BY <3>1, <3>2
  <2>4. pc' \in {"domains", "names", "call"} => want' \in held'[svc']
    BY <1>15, <2>2 DEF StormChange, round, TypeOK, Planned
  <2>. QED BY <1>15, <2>3, <2>4 DEF StormChange, round, providerVars, Planned
<1>16. ASSUME NEW s \in Services, SoftDelete(s) PROVE Planned'
  BY <1>16 DEF SoftDelete, providerVars, round, Desired, Planned
<1>17. ASSUME NEW s \in Services, NEW n \in Names, AddDomain(s, n) \/ RemoveDomain(s, n)
       PROVE  Planned'
  BY <1>17 DEF AddDomain, RemoveDomain, providerVars, round, Desired, Planned
<1>18. CASE UNCHANGED vars
  BY <1>18 DEF vars, providerVars, tables, round, Desired, Planned
<1>. QED
  BY <1>1, <1>2, <1>3, <1>4, <1>5, <1>6, <1>7, <1>8, <1>9, <1>10, <1>11, <1>12, <1>13,
     <1>14, <1>15, <1>16, <1>17, <1>18 DEF Next, OperatorStep, FaultStep, Environment

(* A call sets weights its service wanted at some moment of the same round *)
(* (main.go:71-96).                                                        *)
THEOREM WeightsAreFresh == Spec => []FreshWeights
<1>1. TypeOK /\ Planned => FreshWeights
  BY DEF TypeOK, Planned, FreshWeights
<1>. QED BY <1>1, InitType, NextType, InitPlanned, NextPlanned, PTL DEF Spec

-----------------------------------------------------------------------------
(***************************************************************************)
(* An undisturbed round.  Busy: the round has not dealt yet with a name of *)
(* the service it is at.  Visited: it is done with the name for one of the *)
(* name's services.                                                        *)
(***************************************************************************)
Busy(s, n) ==
  /\ pc \in {"domains", "names", "call"}
  /\ s = svc
  /\ pc = "domains" \/ n \in names \/ (pc = "call" /\ call.name = n /\ ~call.done)

Visited(n) == \E s \in Owners(n) : s \notin todo /\ ~Busy(s, n)

\* What the round has read is what the tables hold.
Undisturbed ==
  /\ \A r \in Request : late[r] = 0
  /\ todo \subseteq live
  /\ pc \in {"domains", "names", "call"} => svc \in live
  /\ pc \in {"names", "call"} => names \subseteq NamesOf(svc)
  /\ pc = "call" => call.name \in NamesOf(svc)

VisitedRight ==
  \A n \in Names, w \in Weights :
    InForce(n) # NULL /\ HeldThroughout(n, w) /\ Visited(n) => InForce(n) = w

RoundInv == pc # "idle" /\ calm => Undisturbed /\ VisitedRight

\* A step that visits nothing new.
LEMMA NothingVisited ==
  ASSUME VisitedRight, served' = served,
         \A n \in Names, w \in Weights : HeldThroughout(n, w)' => HeldThroughout(n, w),
         \A n \in Names : InForce(n) # NULL /\ Visited(n)' => Visited(n)
  PROVE  VisitedRight'
BY DEF VisitedRight, InForce

\* Who owns a name, and what was held, changes with the tables alone.
LEMMA SameOwners ==
  ASSUME UNCHANGED <<live, domains>>, NEW n \in Names
  PROVE  Owners(n)' = Owners(n)
BY DEF Owners

LEMMA SameHeld ==
  ASSUME UNCHANGED <<live, domains, held>>
  PROVE  \A n \in Names, w \in Weights : HeldThroughout(n, w)' => HeldThroughout(n, w)
BY SameOwners DEF HeldThroughout

LEMMA NextRound == TypeOK /\ Planned /\ RoundInv /\ [Next]_vars => RoundInv'
<1>. SUFFICES ASSUME TypeOK, Planned, RoundInv, [Next]_vars, pc' # "idle", calm'
              PROVE  Undisturbed' /\ VisitedRight'
  BY DEF RoundInv
<1>1. CASE ListServices
  <2>1. \A r \in Request : late'[r] = 0
    BY <1>1 DEF ListServices, providerVars
  <2>2. Undisturbed'
    BY <1>1, <2>1 DEF ListServices, tables, Undisturbed
  <2>3. ASSUME NEW n \in Names PROVE ~Visited(n)'
    BY <1>1 DEF ListServices, tables, Visited, Owners
  <2>. QED BY <2>2, <2>3 DEF VisitedRight
<1>2. ~Fault /\ ~Edit
  BY DEF Fault, Edit
<1>3. ASSUME NEW s \in Services, PlanService(s) PROVE Undisturbed' /\ VisitedRight'
  <2>1. Undisturbed /\ VisitedRight
    BY <1>3 DEF PlanService, NextService, RoundInv
  <2>2. Undisturbed'
    BY <1>3, <2>1 DEF PlanService, NextService, providerVars, tables, Undisturbed
  <2>3. ASSUME NEW n \in Names, Visited(n)' PROVE Visited(n)
    <3>1. PICK u \in Owners(n)' : u \notin todo' /\ ~Busy(u, n)'
      BY <2>3 DEF Visited
    <3>2. u \in Owners(n)
      BY <1>3, SameOwners DEF PlanService, tables
    <3>3. u # s
      BY <1>3, <3>1 DEF PlanService, Busy
    <3>4. u \notin todo /\ ~Busy(u, n)
      BY <1>3, <3>1, <3>3 DEF PlanService, NextService, Busy
    <3>. QED BY <3>2, <3>4 DEF Visited
  <2>4. VisitedRight'
    BY <1>3, <2>1, <2>3, SameHeld, NothingVisited DEF PlanService, providerVars, tables
  <2>. QED BY <2>2, <2>4
<1>4. CASE ListDomains
  <2>1. Undisturbed /\ VisitedRight
    BY <1>4 DEF ListDomains, RoundInv
  <2>2. Undisturbed'
    BY <1>4, <2>1 DEF ListDomains, NamesOf, providerVars, tables, Undisturbed
  <2>3. ASSUME NEW n \in Names, Visited(n)' PROVE Visited(n)
    <3>1. PICK u \in Owners(n)' : u \notin todo' /\ ~Busy(u, n)'
      BY <2>3 DEF Visited
    <3>2. u \in Owners(n) /\ <<u, n>> \in domains
      BY <1>4, SameOwners DEF ListDomains, tables, Owners
    <3>3. u # svc
      BY <1>4, <3>1, <3>2 DEF ListDomains, NamesOf, Busy
    <3>4. u \notin todo /\ ~Busy(u, n)
      BY <1>4, <3>1, <3>3 DEF ListDomains, Busy
    <3>. QED BY <3>2, <3>4 DEF Visited
  <2>4. VisitedRight'
    BY <1>4, <2>1, <2>3, SameHeld, NothingVisited DEF ListDomains, providerVars, tables
  <2>. QED BY <2>2, <2>4
<1>5. ASSUME NEW m \in Names, SetWeights(m) PROVE Undisturbed' /\ VisitedRight'
  <2>1. Undisturbed /\ VisitedRight
    BY <1>5 DEF SetWeights, RoundInv
  <2>2. pc = "names" /\ m \in names /\ names' = names \ {m} /\ pc' = "call"
        /\ call' = [name |-> m, weights |-> want, done |-> FALSE]
    BY <1>5 DEF SetWeights, Invoke
  <2>3. Undisturbed'
    BY <1>5, <2>1, <2>2 DEF SetWeights, Invoke, NamesOf, tables, Undisturbed
  <2>4. ASSUME NEW n \in Names, Visited(n)' PROVE Visited(n)
    <3>1. PICK u \in Owners(n)' : u \notin todo' /\ ~Busy(u, n)'
      BY <2>4 DEF Visited
    <3>2. u \in Owners(n)
      BY <1>5, SameOwners DEF SetWeights, tables
    <3>3. u \notin todo /\ ~Busy(u, n)
      BY <1>5, <2>2, <3>1 DEF SetWeights, Busy
    <3>. QED BY <3>2, <3>3 DEF Visited
  <2>5. VisitedRight'
    BY <1>5, <2>1, <2>4, SameHeld, NothingVisited DEF SetWeights, Invoke, tables
  <2>. QED BY <2>3, <2>5
<1>6. CASE ProviderApplies
  <2>1. UNCHANGED <<faults, calm>> /\ call # NULL /\ pc = "call"
    BY <1>2, <1>6 DEF ProviderApplies, TypeOK
  <2>2. Undisturbed /\ VisitedRight
    BY <2>1 DEF RoundInv
  <2>. DEFINE c == call.name
  <2>3. /\ c \in Names /\ call.weights = want
        /\ call' = [name |-> c, weights |-> want, done |-> TRUE]
        /\ served' = [served EXCEPT ![ZoneOf[c]][c] = want]
    BY <1>6, <2>1 DEF ProviderApplies, Apply, TypeOK, Call, Planned
  <2>4. Undisturbed'
    BY <1>6, <2>2, <2>3 DEF ProviderApplies, Apply, NamesOf, tables, round, Undisturbed
  <2>5. ASSUME NEW n \in Names, NEW w \in Weights,
               InForce(n)' # NULL, HeldThroughout(n, w)', Visited(n)'
        PROVE  InForce(n)' = w
    <3>1. HeldThroughout(n, w)
      BY <1>6, <2>5, SameHeld DEF ProviderApplies, tables
    <3>2. CASE n = c
      <4>1. svc \in Owners(n)
        BY <2>1, <2>2, <3>2 DEF Undisturbed, Owners, NamesOf, TypeOK
      <4>2. held[svc] = {w} /\ want \in held[svc]
        BY <2>1, <3>1, <4>1 DEF HeldThroughout, Planned
      <4>. QED BY <2>3, <3>2, <4>2, ZoneOfAssumption DEF TypeOK, InForce
    <3>3. CASE n # c
      <4>1. PICK u \in Owners(n)' : u \notin todo' /\ ~Busy(u, n)'
        BY <2>5 DEF Visited
      <4>2. u \in Owners(n)
        BY <1>6, SameOwners DEF ProviderApplies, tables
      <4>3. u \notin todo /\ ~Busy(u, n)
        BY <1>6, <2>1, <2>3, <3>3, <4>1 DEF ProviderApplies, round, Busy
      <4>4. InForce(n)' = InForce(n)
        BY <2>3, <3>3, ZoneOfAssumption DEF TypeOK, InForce
      <4>. QED BY <2>2, <2>5, <3>1, <4>2, <4>3, <4>4 DEF Visited, VisitedRight
    <3>. QED BY <3>2, <3>3
  <2>. QED BY <2>4, <2>5 DEF VisitedRight
<1>7. CASE CallEnds
  <2>1. Undisturbed /\ VisitedRight
    BY <1>7 DEF CallEnds, RoundInv
  <2>2. Undisturbed'
    BY <1>7, <2>1 DEF CallEnds, ReturnOk, NamesOf, tables, Undisturbed
  <2>3. ASSUME NEW n \in Names, Visited(n)' PROVE Visited(n)
    <3>1. PICK u \in Owners(n)' : u \notin todo' /\ ~Busy(u, n)'
      BY <2>3 DEF Visited
    <3>2. u \in Owners(n)
      BY <1>7, SameOwners DEF CallEnds, tables
    <3>3. u \notin todo /\ ~Busy(u, n)
      BY <1>7, <3>1 DEF CallEnds, ReturnOk, Busy
    <3>. QED BY <3>2, <3>3 DEF Visited
  <2>4. VisitedRight'
    BY <1>7, <2>1, <2>3, SameHeld, NothingVisited DEF CallEnds, ReturnOk, tables
  <2>. QED BY <2>2, <2>4
<1>8. CASE CallFails
  <2>1. InForce(call.name) = NULL /\ ReturnError /\ UNCHANGED <<faults, calm>>
    BY <1>2, <1>8 DEF CallFails, CallBreaks
  <2>2. Undisturbed /\ VisitedRight
    BY <1>8, <2>1 DEF CallFails, RoundInv
  <2>3. Undisturbed'
    BY <1>8, <2>1, <2>2 DEF CallFails, ReturnError, NamesOf, tables, Undisturbed
  <2>4. ASSUME NEW n \in Names, InForce(n) # NULL, Visited(n)' PROVE Visited(n)
    <3>1. PICK u \in Owners(n)' : u \notin todo' /\ ~Busy(u, n)'
      BY <2>4 DEF Visited
    <3>2. u \in Owners(n)
      BY <1>8, SameOwners DEF CallFails, tables
    <3>3. u \notin todo /\ ~Busy(u, n)
      BY <1>8, <2>1, <2>4, <3>1 DEF CallFails, Busy
    <3>. QED BY <3>2, <3>3 DEF Visited
  <2>5. VisitedRight'
    BY <1>8, <2>1, <2>2, <2>4, SameHeld, NothingVisited DEF CallFails, ReturnError, tables
  <2>. QED BY <2>3, <2>5
<1>9. CASE EndService
  <2>1. Undisturbed /\ VisitedRight
    BY <1>9 DEF EndService, RoundInv
  <2>2. Undisturbed'
    BY <1>9, <2>1 DEF EndService, providerVars, tables, Undisturbed
  <2>3. ASSUME NEW n \in Names, Visited(n)' PROVE Visited(n)
    <3>1. PICK u \in Owners(n)' : u \notin todo'
      BY <2>3 DEF Visited
    <3>2. u \in Owners(n)
      BY <1>9, SameOwners DEF EndService, tables
    <3>3. u \notin todo /\ ~Busy(u, n)
      BY <1>9, <3>1 DEF EndService, Busy
    <3>. QED BY <3>2, <3>3 DEF Visited
  <2>4. VisitedRight'
    BY <1>9, <2>1, <2>3, SameHeld, NothingVisited DEF EndService, providerVars, tables
  <2>. QED BY <2>2, <2>4
<1>10. ASSUME NEW s \in Services, StormChange(s) PROVE Undisturbed' /\ VisitedRight'
  <2>1. Undisturbed /\ VisitedRight
    BY <1>10 DEF StormChange, round, RoundInv
  <2>2. Undisturbed'
    BY <1>10, <2>1 DEF StormChange, providerVars, round, NamesOf, Undisturbed
  <2>3. ASSUME NEW n \in Names, NEW w \in Weights, HeldThroughout(n, w)'
        PROVE  HeldThroughout(n, w)
    <3>1. Owners(n)' = Owners(n)
      BY <1>10, SameOwners DEF StormChange
    <3>2. /\ held \in [Services -> SUBSET {Primary, Backup}]
          /\ held' = [held EXCEPT ![s] = {Primary, Backup}]
      BY <1>10 DEF StormChange, TypeOK
    <3>3. Primary # Backup
      BY DEF Primary, Backup
    <3>4. Owners(n) \subseteq Services
      BY DEF Owners, TypeOK
    <3>5. s \notin Owners(n)
      BY <2>3, <3>1, <3>2, <3>3 DEF HeldThroughout
    <3>6. \A u \in Owners(n) : held'[u] = held[u]
      BY <3>2, <3>4, <3>5
    <3>. QED BY <2>3, <3>1, <3>6 DEF HeldThroughout
  <2>4. ASSUME NEW n \in Names, Visited(n)' PROVE Visited(n)
    <3>1. Owners(n)' = Owners(n)
      BY <1>10, SameOwners DEF StormChange
    <3>. QED BY <1>10, <2>4, <3>1 DEF StormChange, providerVars, round, Visited, Busy
  <2>5. VisitedRight'
    BY <1>10, <2>1, <2>3, <2>4, NothingVisited DEF StormChange, providerVars
  <2>. QED BY <2>2, <2>5
<1>11. CASE LateRequest
  BY <1>11 DEF LateRequest
<1>12. ASSUME NEW s \in Services, NEW n \in Names, AddDomain(s, n) \/ RemoveDomain(s, n)
       PROVE  FALSE
  BY <1>2, <1>12 DEF AddDomain, RemoveDomain
<1>13. ASSUME NEW s \in Services, PlanFails(s) \/ SoftDelete(s) PROVE FALSE
  BY <1>2, <1>13 DEF PlanFails, SoftDelete
<1>14. CASE DomainsFail \/ ProviderLingers \/ Crash
  BY <1>2, <1>14 DEF DomainsFail, ProviderLingers, Crash
<1>15. CASE EndRound
  BY <1>15 DEF EndRound
<1>16. CASE UNCHANGED vars
  <2>1. Undisturbed /\ VisitedRight
    BY <1>16 DEF vars, round, RoundInv
  <2>2. Undisturbed'
    BY <1>16, <2>1 DEF vars, providerVars, tables, round, NamesOf, Undisturbed
  <2>3. ASSUME NEW n \in Names, Visited(n)' PROVE Visited(n)
    <3>1. Owners(n)' = Owners(n)
      BY <1>16, SameOwners DEF vars, tables
    <3>. QED BY <1>16, <2>3, <3>1 DEF vars, providerVars, round, Visited, Busy
  <2>4. VisitedRight'
    BY <1>16, <2>1, <2>3, SameHeld, NothingVisited DEF vars, providerVars, tables
  <2>. QED BY <2>2, <2>4
<1>. QED
  BY <1>1, <1>3, <1>4, <1>5, <1>6, <1>7, <1>8, <1>9, <1>10, <1>11, <1>12, <1>13, <1>14,
     <1>15, <1>16 DEF Next, OperatorStep, FaultStep, Environment

(* At the end of a round without failures, edits or late requests every    *)
(* name with records has the weights its services wanted throughout, for   *)
(* any number of services and names (main.go:63-98).                       *)
THEOREM RoundSuffices == Spec => []OneRoundSuffices
<1>1. Init => RoundInv
  BY DEF Init, RoundInv
<1>2. TypeOK /\ RoundInv => OneRoundSuffices
  <2>. SUFFICES ASSUME TypeOK, RoundInv, pc = "services", todo = {}, calm,
                       NEW n \in Names, NEW w \in Weights,
                       InForce(n) # NULL, HeldThroughout(n, w)
                PROVE  InForce(n) = w
    BY DEF OneRoundSuffices
  <2>1. PICK s \in Owners(n) : TRUE
    BY DEF HeldThroughout
  <2>2. Visited(n)
    BY <2>1 DEF Visited, Busy
  <2>. QED BY <2>2 DEF RoundInv, VisitedRight
<1>. QED BY <1>1, <1>2, InitType, NextType, InitPlanned, NextPlanned, NextRound, PTL DEF Spec
=============================================================================
