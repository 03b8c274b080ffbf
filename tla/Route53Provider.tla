-------------------------- MODULE Route53Provider --------------------------
(***************************************************************************)
(* The Route 53 provider (internal/dns/route53.go): SetWeights with its    *)
(* attempts, its cache of zone ids and its change batch, under a caller    *)
(* that calls again and again.                                             *)
(*                                                                         *)
(* A request may fail, its answer may be lost after it took effect, or it  *)
(* may still be on its way when its attempt ends.  The customer creates    *)
(* and deletes zones and records, at any time; a name may have records in  *)
(* a zone and in its parent zone.  Records are their two weights; the      *)
(* pages of a listing of records are read as one.                          *)
(***************************************************************************)
EXTENDS Naturals, FiniteSets

CONSTANTS
  Names,        \* host names
  Weights,      \* <<primary, backup>> weight pairs that are asked for
  Given,        \* pairs that records are created with
  Zones,        \* hosted zone ids
  Suffixed,     \* the names that end in the name of each zone
  Within,       \* those of them that are names of the zone: a label ends there
  Length,       \* the length of the name of each zone
  MaxAttempts, MaxFaults, MaxEdits,
  NULL

ASSUME ZonesAssumption ==
  /\ IsFiniteSet(Zones)
  /\ Suffixed \in [Zones -> SUBSET Names]
  /\ Within \in [Zones -> SUBSET Names]
  /\ Length \in [Zones -> Nat]

ASSUME NullAssumption ==
  /\ NULL \notin Weights \cup Given
  /\ NULL \notin Zones
  /\ NULL \notin [name : Names, weights : Weights, done : BOOLEAN]

ASSUME AttemptsAssumption == MaxAttempts \in Nat \ {0}

VARIABLES
  hosted,   \* the zones that exist
  fresh,    \* the ids no zone has had yet
  records,  \* the weighted pair of each zone and name, or NULL
  dropped,  \* history: pairs deleted with a change to them on its way
  late,     \* how many change requests of ended attempts are on their way
  cache,    \* zoneCache
  pc,       \* where SetWeights is
  name, want, attempt, zone,  \* its arguments and locals
  took,     \* history: a change of this call took effect
  faults, edits

world == <<hosted, fresh, records, dropped, late>>
args  == <<name, want>>
vars  == <<hosted, fresh, records, dropped, late, cache, pc, name, want, attempt, zone, took, faults, edits>>

Change == Zones \X Names \X Weights

Init ==
  /\ hosted \in SUBSET Zones
  /\ fresh = Zones \ hosted
  /\ records \in [Zones -> [Names -> Given \cup {NULL}]]
  /\ \A z \in Zones, n \in Names : records[z][n] # NULL => z \in hosted /\ n \in Within[z]
  /\ dropped = {}
  /\ late = [c \in Change |-> 0]
  /\ cache = [n \in Names |-> NULL]
  /\ pc = "idle"
  /\ name = NULL /\ want = NULL /\ zone = NULL
  /\ attempt = 0
  /\ took = FALSE
  /\ faults = 0
  /\ edits = 0

-----------------------------------------------------------------------------
(* SetWeights.                                                             *)

SetWeights(n, w) ==
  /\ pc = "idle"
  /\ pc' = "lookup"
  /\ name' = n
  /\ want' = w
  /\ attempt' = 1
  /\ took' = FALSE
  /\ UNCHANGED <<world, cache, zone, faults, edits>>

\* SetWeights returns.
Done ==
  /\ pc' = "idle"
  /\ name' = NULL /\ want' = NULL /\ zone' = NULL
  /\ attempt' = 0
  /\ took' = FALSE

\* Faulty: failed attempts are not counted.
AttemptFailsUncounted ==
  /\ pc' = "lookup"
  /\ zone' = NULL
  /\ UNCHANGED <<args, attempt, took>>

\* Faulty: an attempt too many.
AttemptFailsOnceMore ==
  IF attempt <= MaxAttempts
  THEN /\ attempt' = attempt + 1
       /\ pc' = "lookup"
       /\ zone' = NULL
       /\ UNCHANGED <<args, took>>
  ELSE Done

\* setWeightsOnce returned an error: a further attempt, or the error.
AttemptFails ==
  IF attempt < MaxAttempts
  THEN /\ attempt' = attempt + 1
       /\ pc' = "lookup"
       /\ zone' = NULL
       /\ UNCHANGED <<args, took>>
  ELSE Done

Candidates(n) == {z \in hosted : n \in Suffixed[z]}

\* Of equally long names the first zone of the listing wins: any.
Longest(S) == {z \in S : \A y \in S : Length[y] <= Length[z]}

\* lookupHostedZone
LookupCached ==
  /\ pc = "lookup"
  /\ cache[name] # NULL
  /\ zone' = cache[name]
  /\ pc' = "records"
  /\ UNCHANGED <<world, cache, args, attempt, took, faults, edits>>

\* The listing starts at the name asked for and one page of it is read:
\* which of the candidates it has is left open.
LookupListed ==
  /\ pc = "lookup"
  /\ cache[name] = NULL
  /\ \/ \E listed \in SUBSET Candidates(name), z \in Candidates(name) :
          /\ z \in Longest(listed)
          /\ zone' = z
          /\ cache' = [cache EXCEPT ![name] = z]
          /\ pc' = "records"
          /\ UNCHANGED <<args, attempt, took>>
     \/ AttemptFails /\ UNCHANGED cache
  /\ UNCHANGED <<world, faults, edits>>

\* Faulty: the records of the zone are not looked for.
UpsertUnseen ==
  /\ pc = "records"
  /\ IF zone \in hosted
     THEN pc' = "change" /\ UNCHANGED <<args, attempt, zone, took>>
     ELSE AttemptFails
  /\ UNCHANGED <<world, cache, faults, edits>>

\* fetchWeightedRecords
FetchWeightedRecords ==
  /\ pc = "records"
  /\ IF zone \in hosted /\ records[zone][name] # NULL
     THEN pc' = "change" /\ UNCHANGED <<args, attempt, zone, took>>
     ELSE AttemptFails
  /\ UNCHANGED <<world, cache, faults, edits>>

\* The backup weight of a pair, if there is one.
Backup(pair) == IF pair = NULL THEN 0 ELSE pair[2]

\* Faulty: the batch lacks the backup record.
ChangePrimaryOnly ==
  /\ pc = "change"
  /\ zone \in hosted
  /\ records' = [records EXCEPT ![zone][name] = <<want[1], Backup(@)>>]
  /\ dropped' = dropped \ {<<zone, name>>}
  /\ took' = TRUE
  /\ pc' = "reply"
  /\ UNCHANGED <<hosted, fresh, late, cache, args, attempt, zone, faults, edits>>

\* ChangeResourceRecordSets upserts both records or neither.
ChangeTakes ==
  /\ pc = "change"
  /\ zone \in hosted
  /\ records' = [records EXCEPT ![zone][name] = want]
  /\ dropped' = dropped \ {<<zone, name>>}
  /\ took' = TRUE
  /\ pc' = "reply"
  /\ UNCHANGED <<hosted, fresh, late, cache, args, attempt, zone, faults, edits>>

ChangeRefused ==
  /\ pc = "change"
  /\ zone \notin hosted
  /\ AttemptFails
  /\ UNCHANGED <<world, cache, faults, edits>>

ReplyOk ==
  /\ pc = "reply"
  /\ Done
  /\ UNCHANGED <<world, cache, faults, edits>>

-----------------------------------------------------------------------------
(* Failures.                                                               *)
Fault == faults < MaxFaults /\ faults' = faults + 1

\* A request fails without effect; a cached lookup sends none.
RequestFails ==
  /\ Fault
  /\ pc \in {"records", "change"} \/ (pc = "lookup" /\ cache[name] = NULL)
  /\ AttemptFails
  /\ UNCHANGED <<world, cache, edits>>

\* Route 53 has made the change and the answer is lost.
ReplyLost ==
  /\ Fault
  /\ pc = "reply"
  /\ AttemptFails
  /\ UNCHANGED <<world, cache, edits>>

\* The attempt ends while its change request is on its way.
ChangeLingers ==
  /\ Fault
  /\ pc = "change"
  /\ late' = [late EXCEPT ![<<zone, name, want>>] = @ + 1]
  /\ AttemptFails
  /\ UNCHANGED <<hosted, fresh, records, dropped, cache, edits>>

\* The caller's five seconds are over, before an attempt or while it sleeps.
ContextDone ==
  /\ Fault
  /\ pc = "lookup"
  /\ Done
  /\ UNCHANGED <<world, cache, edits>>

\* The process dies and is started again, with an empty cache.
Crash ==
  /\ Fault
  /\ Done
  /\ cache' = [n \in Names |-> NULL]
  /\ UNCHANGED <<world, edits>>

-----------------------------------------------------------------------------
(* Route 53 and the customer.                                              *)

TakeLate(c) ==
  /\ late[c] > 0
  /\ late' = [late EXCEPT ![c] = @ - 1]
  /\ IF c[1] \in hosted
     THEN /\ records' = [records EXCEPT ![c[1]][c[2]] = c[3]]
          /\ dropped' = dropped \ {<<c[1], c[2]>>}
     ELSE UNCHANGED <<records, dropped>>
  /\ UNCHANGED <<hosted, fresh, cache, pc, args, attempt, zone, took, faults, edits>>

Edit == edits < MaxEdits /\ edits' = edits + 1

locals == <<late, cache, pc, args, attempt, zone, took, faults>>

CreateZone(z) ==
  /\ Edit
  /\ z \in fresh
  /\ hosted' = hosted \cup {z}
  /\ fresh' = fresh \ {z}
  /\ UNCHANGED <<records, dropped, locals>>

DeleteZone(z) ==
  /\ Edit
  /\ z \in hosted
  /\ hosted' = hosted \ {z}
  /\ records' = [records EXCEPT ![z] = [n \in Names |-> NULL]]
  /\ dropped' = {d \in dropped : d[1] # z}
  /\ UNCHANGED <<fresh, locals>>

\* "create two weighted records inside the matching hosted zone" (README).
CreateRecords(z, n) ==
  /\ Edit
  /\ z \in hosted /\ n \in Within[z]
  /\ records[z][n] = NULL
  /\ \E g \in Given : records' = [records EXCEPT ![z][n] = g]
  /\ dropped' = dropped \ {<<z, n>>}
  /\ UNCHANGED <<hosted, fresh, locals>>

\* A change to the pair is about to be made, or is late.
Awaited(z, n) ==
  \/ pc = "change" /\ zone = z /\ name = n
  \/ \E w \in Weights : late[<<z, n, w>>] > 0

\* Both records are deleted while their zone stays.
DeleteRecords(z, n) ==
  /\ Edit
  /\ records[z][n] # NULL
  /\ records' = [records EXCEPT ![z][n] = NULL]
  /\ dropped' = IF Awaited(z, n) THEN dropped \cup {<<z, n>>} ELSE dropped
  /\ UNCHANGED <<hosted, fresh, locals>>

-----------------------------------------------------------------------------
Step ==
  \/ LookupCached \/ LookupListed \/ FetchWeightedRecords
  \/ ChangeTakes \/ ChangeRefused \/ ReplyOk

Next ==
  \/ \E n \in Names, w \in Weights : SetWeights(n, w)
  \/ Step
  \/ RequestFails \/ ReplyLost \/ ChangeLingers \/ ContextDone \/ Crash
  \/ \E c \in Change : TakeLate(c)
  \/ \E z \in Zones : CreateZone(z) \/ DeleteZone(z)
  \/ \E z \in Zones, n \in Names : CreateRecords(z, n) \/ DeleteRecords(z, n)

Spec == Init /\ [][Next]_vars

\* Requests are answered; the operator calls for each of its names again.
Fairness == WF_vars(Step) /\ \A n \in Names : SF_vars(\E w \in Weights : SetWeights(n, w))

FairSpec == Spec /\ Fairness

-----------------------------------------------------------------------------
(* The shape of the state: no more than MaxAttempts attempts are made, a   *)
(* zone that is cached, in use or sent a change has existed, and records   *)
(* only stand under the names of their zone, whatever zone HasSuffix found *)
(* (route53.go:35-104, 177).                                               *)
TypeOK ==
  /\ hosted \subseteq Zones /\ fresh \subseteq Zones \ hosted
  /\ records \in [Zones -> [Names -> Weights \cup Given \cup {NULL}]]
  /\ dropped \subseteq Zones \X Names
  /\ late \in [Change -> Nat]
  /\ cache \in [Names -> (Zones \ fresh) \cup {NULL}]
  /\ pc \in {"idle", "lookup", "records", "change", "reply"}
  /\ attempt \in 0 .. MaxAttempts
  /\ took \in BOOLEAN
  /\ faults \in Nat /\ edits \in Nat
  /\ IF pc = "idle" THEN attempt = 0
     ELSE attempt > 0 /\ name \in Names /\ want \in Weights
  /\ pc \in {"records", "change", "reply"} => zone \in Zones \ fresh
  /\ pc = "reply" => took
  /\ \A c \in Change : late[c] > 0 => c[1] \notin fresh
  /\ \A z \in Zones, n \in Names : records[z][n] # NULL => z \in hosted /\ n \in Within[z]
  /\ \A d \in dropped : d[1] \in hosted /\ d[2] \in Within[d[1]]

(* An UPSERT creates what is not there, and the records may be deleted     *)
(* after they were read.  Nothing else brings records into being: a change *)
(* to a zone that exists, in progress or late, finds the records there,    *)
(* unless the customer deleted them while this change or another to them   *)
(* was on its way (route53.go:127-146, 243-245).                           *)
OnlyDroppedReturn ==
  \A z \in hosted, n \in Names :
    Awaited(z, n) => records[z][n] # NULL \/ <<z, n>> \in dropped

(* The abstract provider, in terms of this state.                          *)
call == IF pc = "idle" THEN NULL ELSE [name |-> name, weights |-> want, done |-> took]

Abstract == INSTANCE WeightProvider WITH served <- records

(* SetWeights keeps what dns.Provider promises: it changes both weights of *)
(* a name at once, in one zone, never those of another name, and returns   *)
(* nil only after its change took effect, across retries, a cached zone    *)
(* that was deleted or hides another, records that are deleted, lost       *)
(* answers and requests that take effect late (route53.go:79-152).         *)
Implements == Abstract!ProviderSpec

(* Every call returns: the attempts are counted, whatever fails and        *)
(* whatever the customer does to the zones (route53.go:86-103).            *)
CallReturns == (pc # "idle") ~> (pc = "idle")
=============================================================================
