------------------------- MODULE StormEngineProofs -------------------------
(***************************************************************************)
(* Proofs about StormEngine for any set of probers, services, policies and *)
(* settings, and any bounds.                                               *)
(***************************************************************************)
EXTENDS StormEngine, FiniteSetTheorems, TLAPS

-----------------------------------------------------------------------------
(* What the queries return. *)

\* GetStormPoliciesForService returns well-formed rows of the service asked.
LEMMA PoliciesOfType ==
  ASSUME TypeOK, NEW s \in Services
  PROVE  PoliciesOf(s) \in SUBSET PolicyRow
<1> SUFFICES ASSUME NEW p \in Policies, policy[p] # NULL
             PROVE  RowOf(p) \in PolicyRow
  BY DEF PoliciesOf
<1>1. policy[p] \in Settings
  BY DEF TypeOK
<1>2. policy[p] \in [kind : Kinds, threshold : Nat, cooldown : Nat]
  BY <1>1, SettingsAssumption
<1> QED
  BY <1>2, PolicyServiceAssumption DEF RowOf, PolicyRow

\* The newest rows of a set of rows are rows of the set.
LEMMA NewestSubset ==
  ASSUME NEW S
  PROVE  Newest(S) \subseteq S
BY DEF Newest

\* The key of a policy row is a service and a kind.
LEMMA StormKeyType ==
  ASSUME NEW r \in PolicyRow
  PROVE  StormKey(r) \in Keys
BY DEF PolicyRow, StormKey, Keys

-----------------------------------------------------------------------------
(* Type correctness. *)

\* A step writes the table of storms well: the rows there keep what identifies them.
StormsKept ==
  /\ storms' \in Seq(Storm)
  /\ \A i \in DOMAIN storms :
       /\ i \in DOMAIN storms'
       /\ storms'[i].service = storms[i].service
       /\ storms'[i].kind = storms[i].kind

LEMMA StormsUnchanged ==
  ASSUME TypeOK, UNCHANGED storms
  PROVE  StormsKept
BY DEF TypeOK, StormsKept

\* A kept row answers the same queries.
LEMMA KeptStormsOf ==
  ASSUME StormsKept, NEW key, NEW i \in StormsOf(key)
  PROVE  i \in StormsOf(key)'
BY DEF StormsKept, StormsOf

LEMMA WriteStartKeeps ==
  ASSUME TypeOK, NEW e \in Engines, WriteStart(e)
  PROVE  StormsKept
<1>1. NewStorm(row[e]) \in Storm
  BY DEF TypeOK, WriteStart, NewStorm, PolicyRow, Storm
<1> QED
  BY <1>1 DEF TypeOK, WriteStart, StormsKept

LEMMA WriteEndKeeps ==
  ASSUME TypeOK, NEW e \in Engines, WriteEnd(e)
  PROVE  StormsKept
<1>1. seen[e] \in DOMAIN storms /\ now[e] \in Nat
  BY DEF TypeOK, WriteEnd, StormsOf
<1>2. storms[seen[e]] \in Storm
  BY <1>1 DEF TypeOK
<1>3. [storms[seen[e]] EXCEPT !.ended = now[e]] \in Storm
  BY <1>1, <1>2 DEF Storm
<1> QED
  BY <1>1, <1>2, <1>3 DEF TypeOK, WriteEnd, StormsKept, Storm

\* Return, after a well-formed write or none, keeps the types.
LEMMA ReturnType ==
  ASSUME TypeOK, NEW e \in Engines, Return(e), UNCHANGED <<world, todo, batch>>,
         StormsKept, faults' \in Nat, gauge' \in [Engines -> SUBSET Keys]
  PROVE  TypeOK'
<1>1. pc' \in [Engines -> {"idle", "tick", "active", "last", "insert", "resolve"}]
  BY DEF TypeOK, Return
<1>2. row' \in [Engines -> PolicyRow \cup {NULL}]
  BY DEF TypeOK, Return
<1>3. /\ level' \in [Engines -> Nat]
      /\ seen' \in [Engines -> Nat]
      /\ now' \in [Engines -> Nat]
  BY DEF TypeOK, Return
<1>4. ASSUME NEW d \in Engines
      PROVE  /\ pc'[d] \in {"active", "last", "insert", "resolve"} => row'[d] \in PolicyRow
             /\ pc'[d] = "resolve" => seen'[d] \in StormsOf(StormKey(row[d]))'
  <2>1. CASE d = e
    BY <2>1 DEF TypeOK, Return
  <2>2. CASE d # e
    <3>1. pc'[d] = pc[d] /\ row'[d] = row[d] /\ seen'[d] = seen[d]
      BY <2>2 DEF TypeOK, Return
    <3>2. pc[d] = "resolve" => seen[d] \in StormsOf(StormKey(row[d]))
      BY DEF TypeOK
    <3>3. pc[d] = "resolve" => seen[d] \in StormsOf(StormKey(row[d]))'
      BY <3>1, <3>2, KeptStormsOf DEF StormsKept, StormsOf, StormKey
    <3> QED
      BY <3>1, <3>3 DEF TypeOK, StormsOf, StormKey
  <2> QED
    BY <2>1, <2>2
<1>5. /\ policy' \in [Policies -> Settings \cup {NULL}]
      /\ live' \subseteq Services
      /\ avail' \in [Policies -> Levels]
      /\ clock' \in Nat
      /\ edits' \in Nat
      /\ todo' \in [Engines -> SUBSET Services]
      /\ batch' \in [Engines -> SUBSET PolicyRow]
  BY DEF TypeOK, world
<1> QED
  BY <1>1, <1>2, <1>3, <1>4, <1>5 DEF TypeOK, StormsKept

LEMMA InitType == Init => TypeOK
BY SettingsAssumption, LevelsAssumption DEF Init, TypeOK, Storm, StormsOf

\* The steps of Tick and of its faults.
LEMMA TickType ==
  ASSUME TypeOK, NEW e \in Engines,
         \/ BeginTick(e) \/ EndTick(e) \/ ReadPolicies(e)
         \/ PoliciesReadFails(e) \/ AvailabilityFails(e) \/ Crash(e)
  PROVE  TypeOK'
<1>1. CASE BeginTick(e)
  BY <1>1, SMTT(30) DEF TypeOK, BeginTick, world, StormsOf, StormKey
<1>2. CASE EndTick(e)
  BY <1>2, SMTT(30) DEF TypeOK, EndTick, world, StormsOf, StormKey
<1>3. CASE ReadPolicies(e)
  <2> PICK s \in Services :
        /\ NextService(e, s)
        /\ batch' = [batch EXCEPT ![e] = PoliciesOf(s)]
        /\ UNCHANGED <<storms, world, faults, pc, row, level, seen, now, gauge>>
    BY <1>3 DEF ReadPolicies
  <2>1. PoliciesOf(s) \in SUBSET PolicyRow
    BY PoliciesOfType
  <2> QED
    BY <2>1, SMTT(30) DEF TypeOK, NextService, world, StormsOf, StormKey
<1>4. CASE PoliciesReadFails(e)
  BY <1>4, SMTT(30) DEF TypeOK, PoliciesReadFails, NextService, Fault, world, StormsOf, StormKey
<1>5. CASE AvailabilityFails(e)
  BY <1>5, SMTT(30) DEF TypeOK, AvailabilityFails, NextPolicy, Fault, world, StormsOf, StormKey
<1>6. CASE Crash(e)
  BY <1>6, SMTT(30) DEF TypeOK, Crash, Fault, world, StormsOf, StormKey
<1> QED
  BY <1>1, <1>2, <1>3, <1>4, <1>5, <1>6

\* The steps of evaluatePolicy that go on to another of its statements.
LEMMA EvaluateType ==
  ASSUME TypeOK, NEW e \in Engines,
         ReadAvailability(e) \/ FindRecovered(e) \/ FindBreach(e)
  PROVE  TypeOK'
<1>1. CASE ReadAvailability(e)
  <2> PICK r \in batch[e] :
        /\ NextPolicy(e, r)
        /\ row' = [row EXCEPT ![e] = r]
        /\ level' = [level EXCEPT ![e] = avail[r.id]]
        /\ pc' = [pc EXCEPT ![e] = "active"]
        /\ UNCHANGED <<storms, world, faults, todo, seen, now, gauge>>
    BY <1>1 DEF ReadAvailability
  <2>1. r \in PolicyRow
    BY DEF TypeOK
  <2>2. avail[r.id] \in Nat
    BY <2>1, LevelsAssumption DEF TypeOK, PolicyRow
  <2>3. /\ row' \in [Engines -> PolicyRow \cup {NULL}]
        /\ level' \in [Engines -> Nat]
        /\ batch' \in [Engines -> SUBSET PolicyRow]
        /\ pc' \in [Engines -> {"idle", "tick", "active", "last", "insert", "resolve"}]
    BY <2>1, <2>2 DEF TypeOK, NextPolicy
  <2>4. ASSUME NEW d \in Engines
        PROVE  /\ pc'[d] \in {"active", "last", "insert", "resolve"} => row'[d] \in PolicyRow
               /\ pc'[d] = "resolve" => pc[d] = "resolve" /\ row'[d] = row[d]
    BY <2>1 DEF TypeOK
  <2> QED
    BY <2>3, <2>4 DEF TypeOK, world, StormsOf, StormKey
<1>2. CASE FindRecovered(e)
  <2> PICK i \in Newest(Active(StormKey(row[e]))) : seen' = [seen EXCEPT ![e] = i]
    BY <1>2 DEF FindRecovered
  <2>1. i \in StormsOf(StormKey(row[e]))
    BY NewestSubset DEF Active
  <2>2. i \in Nat
    BY <2>1 DEF StormsOf, TypeOK
  <2> QED
    BY <1>2, <2>1, <2>2, SMTT(30) DEF TypeOK, FindRecovered, world, StormsOf, StormKey
<1>3. CASE FindBreach(e)
  BY <1>3, SMTT(30) DEF TypeOK, FindBreach, world, StormsOf, StormKey
<1> QED
  BY <1>1, <1>2, <1>3

\* The steps that return from evaluatePolicy.
LEMMA ReturnsType ==
  ASSUME TypeOK, NEW e \in Engines,
         \/ FindOngoing(e) \/ FindHealthy(e) \/ InsertStorm(e) \/ ResolveStorm(e)
         \/ StatementFails(e) \/ ReplyLost(e)
  PROVE  TypeOK'
<1>1. CASE FindOngoing(e)
  <2>1. StormKey(row[e]) \in Keys
    BY <1>1, StormKeyType DEF FindOngoing, TypeOK
  <2>2. gauge' \in [Engines -> SUBSET Keys]
    BY <1>1, <2>1 DEF FindOngoing, TypeOK
  <2> QED
    BY <1>1, <2>2, ReturnType, StormsUnchanged DEF FindOngoing, TypeOK
<1>2. CASE FindHealthy(e)
  BY <1>2, ReturnType, StormsUnchanged DEF FindHealthy, TypeOK
<1>3. CASE InsertStorm(e)
  <2>1. StormKey(row[e]) \in Keys
    BY <1>3, StormKeyType DEF InsertStorm, WriteStart, TypeOK
  <2>2. gauge' \in [Engines -> SUBSET Keys]
    BY <1>3, <2>1 DEF InsertStorm, TypeOK
  <2> QED
    BY <1>3, <2>2, ReturnType, WriteStartKeeps DEF InsertStorm, TypeOK
<1>4. CASE ResolveStorm(e)
  <2>1. gauge' \in [Engines -> SUBSET Keys]
    BY <1>4 DEF ResolveStorm, TypeOK
  <2> QED
    BY <1>4, <2>1, ReturnType, WriteEndKeeps DEF ResolveStorm, TypeOK
<1>5. CASE StatementFails(e)
  <2>1. faults' \in Nat /\ gauge' \in [Engines -> SUBSET Keys]
    BY <1>5 DEF StatementFails, Fault, TypeOK
  <2>2. StormsKept
    BY <1>5, StormsUnchanged DEF StatementFails
  <2> QED
    BY <1>5, <2>1, <2>2, ReturnType DEF StatementFails
<1>6. CASE ReplyLost(e)
  <2>1. StormsKept
    BY <1>6, WriteStartKeeps, WriteEndKeeps DEF ReplyLost
  <2>2. faults' \in Nat /\ gauge' \in [Engines -> SUBSET Keys]
    BY <1>6 DEF ReplyLost, Fault, TypeOK
  <2> QED
    BY <1>6, <2>1, <2>2, ReturnType DEF ReplyLost
<1> QED
  BY <1>1, <1>2, <1>3, <1>4, <1>5, <1>6

LEMMA ReadLastStormType ==
  ASSUME TypeOK, NEW e \in Engines, ReadLastStorm(e)
  PROVE  TypeOK'
<1>1. CASE Return(e)
  BY <1>1, ReturnType, StormsUnchanged DEF ReadLastStorm, TypeOK
<1>2. CASE pc' = [pc EXCEPT ![e] = "insert"] /\ UNCHANGED <<row, level, seen, now>>
  BY <1>2, SMTT(30) DEF ReadLastStorm, TypeOK, world, StormsOf, StormKey
<1> QED
  BY <1>1, <1>2 DEF ReadLastStorm

LEMMA EnvironmentType ==
  ASSUME TypeOK, Environment
  PROVE  TypeOK'
<1>1. ASSUME NEW p \in Policies, PutPolicy(p)
      PROVE  TypeOK'
  BY <1>1, SMTT(30) DEF PutPolicy, Edit, TypeOK, locals, StormsOf, StormKey
<1>2. ASSUME NEW p \in Policies, DeletePolicy(p)
      PROVE  TypeOK'
  BY <1>2, SMTT(30) DEF DeletePolicy, Edit, TypeOK, locals, StormsOf, StormKey
<1>3. ASSUME NEW p \in Policies, HealthChange(p)
      PROVE  TypeOK'
  BY <1>3, SMTT(30) DEF HealthChange, TypeOK, locals, StormsOf, StormKey
<1>4. ASSUME NEW s \in Services, SoftDelete(s)
      PROVE  TypeOK'
  BY <1>4, SMTT(30) DEF SoftDelete, Edit, TypeOK, locals, StormsOf, StormKey
<1>5. CASE ClockTick
  BY <1>5, SMTT(30) DEF ClockTick, TypeOK, locals, StormsOf, StormKey
<1> QED
  BY <1>1, <1>2, <1>3, <1>4, <1>5 DEF Environment

LEMMA StutterType ==
  ASSUME TypeOK, UNCHANGED vars
  PROVE  TypeOK'
BY SMTT(30) DEF TypeOK, vars, StormsOf, StormKey

LEMMA NextType ==
  ASSUME TypeOK, [Next]_vars
  PROVE  TypeOK'
BY TickType, EvaluateType, ReturnsType, ReadLastStormType, EnvironmentType, StutterType
   DEF Next, Step, FaultStep

\* The state always has its types, and an engine about to resolve a storm holds
\* the id of a storm of the service and kind of the policy it evaluates.
THEOREM TypeCorrect == Spec => []TypeOK
BY InitType, NextType, PTL DEF Spec

-----------------------------------------------------------------------------
(* The race between probers. *)

LEMMA ActiveFinite ==
  ASSUME TypeOK, NEW key
  PROVE  IsFiniteSet(Active(key))
<1>1. DOMAIN storms = 1 .. Len(storms) /\ Len(storms) \in Nat
  BY DEF TypeOK
<1>2. IsFiniteSet(1 .. Len(storms))
  BY <1>1, FS_Interval
<1>3. Active(key) \subseteq 1 .. Len(storms)
  BY <1>1 DEF Active, StormsOf
<1> QED
  BY <1>2, <1>3, FS_Subset

LEMMA PastCheckFinite ==
  ASSUME NEW key
  PROVE  /\ IsFiniteSet(PastCheck(key))
         /\ Cardinality(PastCheck(key)) \in Nat
         /\ Cardinality(PastCheck(key)) <= Cardinality(Engines)
<1>1. PastCheck(key) \subseteq Engines
  BY DEF PastCheck
<1> QED
  BY <1>1, EnginesAssumption, FS_Subset, FS_CardinalityType

\* The storms of a key and the probers that may add to them only get fewer.
Shrinks(key) ==
  Active(key)' \subseteq Active(key) /\ PastCheck(key)' \subseteq PastCheck(key)

LEMMA ShrinksBound ==
  ASSUME TypeOK, RaceBounded, NEW key \in Keys, Shrinks(key)
  PROVE  Cardinality(Active(key)') + Cardinality(PastCheck(key)') <= Cardinality(Engines)
<1>1. /\ IsFiniteSet(Active(key)')
      /\ Cardinality(Active(key)') <= Cardinality(Active(key))
      /\ Cardinality(Active(key)) \in Nat
      /\ Cardinality(Active(key)') \in Nat
  BY ActiveFinite, FS_Subset, FS_CardinalityType DEF Shrinks
<1>2. /\ Cardinality(PastCheck(key)') <= Cardinality(PastCheck(key))
      /\ Cardinality(PastCheck(key)) \in Nat
      /\ Cardinality(PastCheck(key)') \in Nat
  BY PastCheckFinite, FS_Subset, FS_CardinalityType DEF Shrinks
<1>3. Cardinality(Engines) \in Nat
  BY EnginesAssumption, FS_CardinalityType
<1>4. Cardinality(Active(key)) + Cardinality(PastCheck(key)) <= Cardinality(Engines)
  BY DEF RaceBounded
<1> QED
  BY <1>1, <1>2, <1>3, <1>4

\* A step that writes no storm and takes no prober past its check.
LEMMA QuietShrinks ==
  ASSUME NEW key, UNCHANGED storms,
         \A d \in Engines : pc'[d] \in {"last", "insert"} =>
                              pc[d] \in {"last", "insert"} /\ row'[d] = row[d]
  PROVE  Shrinks(key)
BY DEF Shrinks, Active, StormsOf, PastCheck, StormKey

\* A prober that returns is not past its check, the others stay where they are.
LEMMA ReturnMoves ==
  ASSUME TypeOK, NEW e \in Engines, Return(e), NEW d \in Engines
  PROVE  /\ pc'[e] = "tick"
         /\ d # e => pc'[d] = pc[d] /\ row'[d] = row[d]
BY DEF TypeOK, Return

LEMMA WriteEndShrinks ==
  ASSUME TypeOK, NEW e \in Engines, WriteEnd(e), Return(e), NEW key
  PROVE  Shrinks(key)
<1>1. seen[e] \in DOMAIN storms /\ now[e] \in Nat
  BY DEF TypeOK, WriteEnd, StormsOf
<1>2. DOMAIN storms' = DOMAIN storms
  BY DEF WriteEnd
<1>3. ASSUME NEW i \in DOMAIN storms
      PROVE  /\ storms'[i].service = storms[i].service
             /\ storms'[i].kind = storms[i].kind
             /\ storms'[i].ended = NULL => storms[i].ended = NULL
  <2>1. CASE i = seen[e]
    <3>1. storms'[i] = [storms[i] EXCEPT !.ended = now[e]]
      BY <1>1, <2>1 DEF WriteEnd
    <3>2. storms[i] \in Storm
      BY DEF TypeOK
    <3>3. storms'[i].ended = now[e]
      BY <3>1, <3>2 DEF Storm
    <3>4. storms'[i].service = storms[i].service /\ storms'[i].kind = storms[i].kind
      BY <3>1, <3>2 DEF Storm
    <3> QED
      BY <1>1, <3>3, <3>4, NullAssumption
  <2>2. CASE i # seen[e]
    BY <2>2 DEF WriteEnd
  <2> QED
    BY <2>1, <2>2
<1>4. Active(key)' \subseteq Active(key)
  BY <1>2, <1>3 DEF Active, StormsOf
<1>5. PastCheck(key)' \subseteq PastCheck(key)
  BY ReturnMoves DEF PastCheck, StormKey
<1> QED
  BY <1>4, <1>5 DEF Shrinks

\* An insert turns a prober past its check into an active storm.
LEMMA WriteStartBound ==
  ASSUME TypeOK, RaceBounded, NEW e \in Engines, WriteStart(e), Return(e), NEW key \in Keys
  PROVE  Cardinality(Active(key)') + Cardinality(PastCheck(key)') <= Cardinality(Engines)
<1> DEFINE n == Len(storms) + 1
<1>1. /\ DOMAIN storms = 1 .. Len(storms)
      /\ DOMAIN storms' = 1 .. n
      /\ Len(storms) \in Nat
      /\ \A i \in DOMAIN storms : storms'[i] = storms[i]
      /\ storms'[n] = NewStorm(row[e])
  BY WriteStartKeeps DEF TypeOK, WriteStart
<1>2. CASE key = StormKey(row[e])
  <2>1. Active(key)' = Active(key) \cup {n} /\ n \notin Active(key)
    BY <1>1, <1>2 DEF Active, StormsOf, NewStorm, StormKey
  <2>2. Cardinality(Active(key)') = Cardinality(Active(key)) + 1
    BY <2>1, ActiveFinite, FS_AddElement
  <2>3. PastCheck(key)' \subseteq PastCheck(key) \ {e} /\ e \in PastCheck(key)
    BY <1>2, ReturnMoves DEF PastCheck, StormKey, WriteStart
  <2>4. /\ IsFiniteSet(PastCheck(key) \ {e})
        /\ Cardinality(PastCheck(key) \ {e}) = Cardinality(PastCheck(key)) - 1
    BY <2>3, PastCheckFinite, FS_RemoveElement
  <2>5. /\ Cardinality(PastCheck(key)') <= Cardinality(PastCheck(key)) - 1
        /\ Cardinality(PastCheck(key)') \in Nat
    BY <2>3, <2>4, FS_Subset, FS_CardinalityType
  <2>6. Cardinality(Active(key)) + Cardinality(PastCheck(key)) <= Cardinality(Engines)
    BY DEF RaceBounded
  <2>7. Cardinality(Active(key)) \in Nat /\ Cardinality(Engines) \in Nat
        /\ Cardinality(PastCheck(key)) \in Nat
    BY ActiveFinite, PastCheckFinite, EnginesAssumption, FS_CardinalityType
  <2> QED
    BY <2>2, <2>5, <2>6, <2>7
<1>3. CASE key # StormKey(row[e])
  <2>1. Active(key)' \subseteq Active(key)
    BY <1>1, <1>3 DEF Active, StormsOf, NewStorm, StormKey, Keys
  <2>2. PastCheck(key)' \subseteq PastCheck(key)
    BY ReturnMoves DEF PastCheck, StormKey
  <2> QED
    BY <2>1, <2>2, ShrinksBound DEF Shrinks
<1> QED
  BY <1>2, <1>3

\* A prober passes its check only while no storm of its key is active.
LEMMA FindBreachBound ==
  ASSUME TypeOK, RaceBounded, NEW e \in Engines, FindBreach(e), NEW key \in Keys
  PROVE  Cardinality(Active(key)') + Cardinality(PastCheck(key)') <= Cardinality(Engines)
<1>1. /\ UNCHANGED <<storms, row>>
      /\ \A d \in Engines : d # e => pc'[d] = pc[d]
  BY DEF FindBreach, TypeOK
<1>2. CASE key = StormKey(row[e])
  <2>1. Active(key)' = {}
    BY <1>1, <1>2 DEF FindBreach, Active, StormsOf, StormKey
  <2>2. PastCheck(key)' \subseteq Engines
    BY DEF PastCheck
  <2>3. /\ Cardinality(PastCheck(key)') <= Cardinality(Engines)
        /\ Cardinality(PastCheck(key)') \in Nat
    BY <2>2, EnginesAssumption, FS_Subset, FS_CardinalityType
  <2> QED
    BY <2>1, <2>3, FS_EmptySet
<1>3. CASE key # StormKey(row[e])
  <2>1. Shrinks(key)
    BY <1>1, <1>3 DEF Shrinks, Active, StormsOf, PastCheck, StormKey
  <2> QED
    BY <2>1, ShrinksBound
<1> QED
  BY <1>2, <1>3

LEMMA InitRace == Init => RaceBounded
<1> SUFFICES ASSUME Init, NEW key \in Keys
             PROVE  Cardinality(Active(key)) + Cardinality(PastCheck(key)) <= Cardinality(Engines)
  BY DEF RaceBounded
<1>1. Active(key) = {} /\ PastCheck(key) = {}
  BY DEF Init, Active, StormsOf, PastCheck
<1> QED
  BY <1>1, FS_EmptySet, EnginesAssumption, FS_CardinalityType

LEMMA NextRace ==
  ASSUME TypeOK, RaceBounded, [Next]_vars
  PROVE  RaceBounded'
<1> SUFFICES ASSUME NEW key \in Keys
             PROVE  Cardinality(Active(key)') + Cardinality(PastCheck(key)') <= Cardinality(Engines)
  BY DEF RaceBounded
<1>1. ASSUME NEW e \in Engines, BeginTick(e) \/ EndTick(e) \/ ReadPolicies(e)
      PROVE  Shrinks(key)
  BY <1>1, QuietShrinks DEF BeginTick, EndTick, ReadPolicies, TypeOK
<1>2. ASSUME NEW e \in Engines, ReadAvailability(e) \/ FindRecovered(e)
      PROVE  Shrinks(key)
  BY <1>2, QuietShrinks DEF ReadAvailability, FindRecovered, TypeOK
<1>3. ASSUME NEW e \in Engines, FindOngoing(e) \/ FindHealthy(e) \/ StatementFails(e)
      PROVE  Shrinks(key)
  BY <1>3, QuietShrinks, ReturnMoves DEF FindOngoing, FindHealthy, StatementFails
<1>4. ASSUME NEW e \in Engines, ReadLastStorm(e)
      PROVE  Shrinks(key)
  <2>1. CASE Return(e)
    BY <1>4, <2>1, QuietShrinks, ReturnMoves DEF ReadLastStorm
  <2>2. CASE pc' = [pc EXCEPT ![e] = "insert"] /\ UNCHANGED row
    BY <1>4, <2>2, QuietShrinks DEF ReadLastStorm, TypeOK
  <2> QED
    BY <1>4, <2>1, <2>2 DEF ReadLastStorm
<1>5. ASSUME NEW e \in Engines, PoliciesReadFails(e) \/ AvailabilityFails(e) \/ Crash(e)
      PROVE  Shrinks(key)
  BY <1>5, QuietShrinks DEF PoliciesReadFails, AvailabilityFails, Crash, TypeOK
<1>6. ASSUME Environment \/ UNCHANGED vars
      PROVE  Shrinks(key)
  BY <1>6, QuietShrinks
     DEF Environment, PutPolicy, DeletePolicy, HealthChange, SoftDelete, ClockTick, locals, vars
<1>7. ASSUME NEW e \in Engines, ResolveStorm(e) \/ (ReplyLost(e) /\ WriteEnd(e))
      PROVE  Shrinks(key)
  BY <1>7, WriteEndShrinks DEF ResolveStorm, ReplyLost
<1>8. ASSUME NEW e \in Engines, InsertStorm(e) \/ (ReplyLost(e) /\ WriteStart(e))
      PROVE  Cardinality(Active(key)') + Cardinality(PastCheck(key)') <= Cardinality(Engines)
  BY <1>8, WriteStartBound DEF InsertStorm, ReplyLost
<1> QED
  BY <1>1, <1>2, <1>3, <1>4, <1>5, <1>6, <1>7, <1>8, FindBreachBound, ShrinksBound
     DEF Next, Step, FaultStep, ReplyLost

LEMMA RaceImpliesBound ==
  ASSUME TypeOK, RaceBounded
  PROVE  ActiveBounded
<1> SUFFICES ASSUME NEW key \in Keys
             PROVE  Cardinality(Active(key)) <= Cardinality(Engines)
  BY DEF ActiveBounded
<1>1. Cardinality(Active(key)) \in Nat /\ Cardinality(PastCheck(key)) \in Nat
      /\ Cardinality(Engines) \in Nat
  BY ActiveFinite, PastCheckFinite, EnginesAssumption, FS_CardinalityType
<1>2. Cardinality(Active(key)) + Cardinality(PastCheck(key)) <= Cardinality(Engines)
  BY DEF RaceBounded
<1> QED
  BY <1>1, <1>2

\* However many probers run, and whatever fails, the storms active for one
\* service and kind never outnumber the probers: each lost check-then-insert
\* race costs at most one duplicate, and duplicates do not accumulate.
THEOREM DuplicatesBounded == Spec => []ActiveBounded
<1>1. Init => TypeOK /\ RaceBounded
  BY InitType, InitRace
<1>2. TypeOK /\ RaceBounded /\ [Next]_vars => (TypeOK /\ RaceBounded)'
  BY NextType, NextRace
<1>3. TypeOK /\ RaceBounded => ActiveBounded
  BY RaceImpliesBound
<1> QED
  BY <1>1, <1>2, <1>3, PTL DEF Spec

-----------------------------------------------------------------------------
(* Time. *)

\* Nothing recorded lies in the future, and a prober about to resolve a storm
\* took its time stamp after the storm started.
TimesOK ==
  /\ \A i \in DOMAIN storms :
       /\ storms[i].started <= clock
       /\ storms[i].ended # NULL => storms[i].started <= storms[i].ended
                                    /\ storms[i].ended <= clock
  /\ \A e \in Engines :
       /\ now[e] <= clock
       /\ pc[e] = "resolve" => storms[seen[e]].started <= now[e]

\* A row of the table of storms holds a start, and an end or NULL.
LEMMA StormFields ==
  ASSUME TypeOK, NEW i \in DOMAIN storms
  PROVE  storms[i].started \in Nat /\ storms[i].ended \in Nat \cup {NULL}
<1>1. storms[i] \in Storm
  BY DEF TypeOK
<1> QED
  BY <1>1 DEF Storm

\* A step that writes no storm and keeps the time stamps.
LEMMA QuietTimes ==
  ASSUME TypeOK, TypeOK', TimesOK, UNCHANGED storms, clock <= clock',
         \A d \in Engines : /\ now'[d] = now[d] \/ now'[d] = 0
                            /\ pc'[d] = "resolve" => /\ pc[d] = "resolve"
                                                     /\ seen'[d] = seen[d]
                                                     /\ now'[d] = now[d]
  PROVE  TimesOK'
<1>1. ASSUME NEW i \in DOMAIN storms
      PROVE  /\ storms[i].started <= clock'
             /\ storms[i].ended # NULL => storms[i].started <= storms[i].ended
                                          /\ storms[i].ended <= clock'
  <2>1. storms[i].started \in Nat /\ storms[i].ended \in Nat \cup {NULL}
    BY StormFields
  <2>2. clock \in Nat /\ clock' \in Nat
    BY DEF TypeOK
  <2>3. storms[i].started <= clock'
    BY <2>1, <2>2 DEF TimesOK
  <2>4. ASSUME storms[i].ended # NULL
        PROVE  storms[i].started <= storms[i].ended /\ storms[i].ended <= clock'
    <3>1. storms[i].ended \in Nat
      BY <2>1, <2>4
    <3>2. storms[i].started <= storms[i].ended /\ storms[i].ended <= clock
      BY <2>4 DEF TimesOK
    <3> QED
      BY <2>2, <3>1, <3>2
  <2> QED
    BY <2>3, <2>4
<1>2. ASSUME NEW d \in Engines
      PROVE  /\ now'[d] <= clock'
             /\ pc'[d] = "resolve" => storms'[seen'[d]].started <= now'[d]
  <2>1. clock \in Nat /\ clock' \in Nat /\ now[d] \in Nat
    BY DEF TypeOK
  <2> QED
    BY <2>1 DEF TimesOK
<1> QED
  BY <1>1, <1>2 DEF TimesOK

\* Return drops the prober's time stamp and leaves the others' alone.
LEMMA ReturnStamps ==
  ASSUME TypeOK, NEW e \in Engines, Return(e), NEW d \in Engines
  PROVE  /\ now'[d] = now[d] \/ now'[d] = 0
         /\ pc'[d] = "resolve" => /\ d # e
                                  /\ pc[d] = "resolve"
                                  /\ seen'[d] = seen[d]
                                  /\ now'[d] = now[d]
                                  /\ row'[d] = row[d]
<1>1. CASE d = e
  BY <1>1 DEF TypeOK, Return
<1>2. CASE d # e
  BY <1>2 DEF TypeOK, Return
<1> QED
  BY <1>1, <1>2

LEMMA WriteStartTimes ==
  ASSUME TypeOK, TimesOK, NEW e \in Engines, WriteStart(e), Return(e), UNCHANGED clock
  PROVE  TimesOK'
<1> DEFINE n == Len(storms) + 1
<1>1. /\ DOMAIN storms = 1 .. Len(storms)
      /\ DOMAIN storms' = 1 .. n
      /\ \A i \in DOMAIN storms : storms'[i] = storms[i]
      /\ storms'[n] = NewStorm(row[e])
  BY WriteStartKeeps DEF TypeOK, WriteStart
<1>2. storms'[n].started = clock /\ storms'[n].ended = NULL
  BY <1>1 DEF NewStorm
<1>3. clock \in Nat /\ Len(storms) \in Nat
  BY DEF TypeOK
<1>4. ASSUME NEW i \in DOMAIN storms'
      PROVE  /\ storms'[i].started <= clock
             /\ storms'[i].ended # NULL => storms'[i].started <= storms'[i].ended
                                           /\ storms'[i].ended <= clock
  BY <1>1, <1>2, <1>3 DEF TimesOK
<1>5. ASSUME NEW d \in Engines
      PROVE  /\ now'[d] <= clock
             /\ pc'[d] = "resolve" => storms'[seen'[d]].started <= now'[d]
  <2>1. now'[d] <= clock
    BY <1>3, ReturnStamps DEF TimesOK
  <2>2. ASSUME pc'[d] = "resolve"
        PROVE  storms'[seen'[d]].started <= now'[d]
    <3>1. pc[d] = "resolve" /\ seen'[d] = seen[d] /\ now'[d] = now[d]
      BY <2>2, ReturnStamps
    <3>2. seen[d] \in DOMAIN storms
      BY <3>1 DEF TypeOK, StormsOf
    <3> QED
      BY <1>1, <3>1, <3>2 DEF TimesOK
  <2> QED
    BY <2>1, <2>2
<1> QED
  BY <1>4, <1>5 DEF TimesOK

\* What a resolve leaves of every storm.
LEMMA WriteEndStorms ==
  ASSUME TypeOK, NEW e \in Engines, WriteEnd(e)
  PROVE  /\ DOMAIN storms' = DOMAIN storms
         /\ seen[e] \in DOMAIN storms
         /\ now[e] \in Nat
         /\ storms'[seen[e]].ended = now[e]
         /\ \A i \in DOMAIN storms :
              /\ storms'[i].service = storms[i].service
              /\ storms'[i].kind = storms[i].kind
              /\ storms'[i].started = storms[i].started
              /\ i # seen[e] => storms'[i] = storms[i]
<1>1. seen[e] \in DOMAIN storms /\ now[e] \in Nat
  BY DEF TypeOK, WriteEnd, StormsOf
<1>2. storms[seen[e]] \in Storm
  BY <1>1 DEF TypeOK
<1>3. DOMAIN storms' = DOMAIN storms /\ storms'[seen[e]] = [storms[seen[e]] EXCEPT !.ended = now[e]]
  BY <1>1 DEF WriteEnd
<1>4. /\ storms'[seen[e]].ended = now[e]
      /\ storms'[seen[e]].service = storms[seen[e]].service
      /\ storms'[seen[e]].kind = storms[seen[e]].kind
      /\ storms'[seen[e]].started = storms[seen[e]].started
  BY <1>2, <1>3 DEF Storm
<1>5. \A i \in DOMAIN storms : i # seen[e] => storms'[i] = storms[i]
  BY DEF WriteEnd
<1> QED
  BY <1>1, <1>3, <1>4, <1>5

LEMMA WriteEndTimes ==
  ASSUME TypeOK, TimesOK, NEW e \in Engines, WriteEnd(e), Return(e), UNCHANGED clock
  PROVE  TimesOK'
<1>1. storms[seen[e]].started <= now[e] /\ now[e] <= clock
  BY DEF TimesOK, WriteEnd
<1>2. ASSUME NEW i \in DOMAIN storms'
      PROVE  /\ storms'[i].started <= clock
             /\ storms'[i].ended # NULL => storms'[i].started <= storms'[i].ended
                                           /\ storms'[i].ended <= clock
  BY <1>1, WriteEndStorms DEF TimesOK
<1>3. ASSUME NEW d \in Engines
      PROVE  /\ now'[d] <= clock
             /\ pc'[d] = "resolve" => storms'[seen'[d]].started <= now'[d]
  <2>1. now'[d] <= clock
    <3>1. clock \in Nat
      BY DEF TypeOK
    <3> QED
      BY <3>1, ReturnStamps DEF TimesOK
  <2>2. ASSUME pc'[d] = "resolve"
        PROVE  storms'[seen'[d]].started <= now'[d]
    <3>1. pc[d] = "resolve" /\ seen'[d] = seen[d] /\ now'[d] = now[d]
      BY <2>2, ReturnStamps
    <3>2. seen[d] \in DOMAIN storms
      BY <3>1 DEF TypeOK, StormsOf
    <3> QED
      BY <3>1, <3>2, WriteEndStorms DEF TimesOK
  <2> QED
    BY <2>1, <2>2
<1> QED
  BY <1>2, <1>3 DEF TimesOK

\* FindRecovered and FindBreach take the time stamp.
LEMMA StampTimes ==
  ASSUME TypeOK, TimesOK, NEW e \in Engines, FindRecovered(e) \/ FindBreach(e)
  PROVE  TimesOK'
<1>1. /\ UNCHANGED <<storms, clock>>
      /\ now' = [now EXCEPT ![e] = clock]
      /\ clock \in Nat
  BY DEF FindRecovered, FindBreach, world, TypeOK
<1>2. ASSUME NEW d \in Engines
      PROVE  /\ now'[d] <= clock
             /\ pc'[d] = "resolve" => storms[seen'[d]].started <= now'[d]
  <2>1. CASE d # e
    BY <1>1, <2>1 DEF FindRecovered, FindBreach, TypeOK, TimesOK
  <2>2. CASE d = e
    <3>1. now'[d] = clock
      BY <1>1, <2>2 DEF TypeOK
    <3>2. ASSUME pc'[d] = "resolve"
          PROVE  storms[seen'[d]].started <= clock
      <4>1. FindRecovered(e)
        BY <2>2, <3>2 DEF FindBreach, TypeOK
      <4>2. seen'[d] \in DOMAIN storms
        BY <2>2, <4>1, NewestSubset DEF FindRecovered, TypeOK, Active, StormsOf
      <4> QED
        BY <4>2 DEF TimesOK
    <3> QED
      BY <1>1, <3>1, <3>2
  <2> QED
    BY <2>1, <2>2
<1> QED
  BY <1>1, <1>2 DEF TimesOK

LEMMA InitTimes == Init => TimesOK
BY DEF Init, TimesOK

LEMMA NextTimes ==
  ASSUME TypeOK, TypeOK', TimesOK, [Next]_vars
  PROVE  TimesOK'
<1>0. clock \in Nat
  BY DEF TypeOK
<1>1. ASSUME NEW e \in Engines, BeginTick(e) \/ EndTick(e) \/ ReadPolicies(e) \/ ReadAvailability(e)
      PROVE  TimesOK'
  <2>1. CASE BeginTick(e) \/ EndTick(e)
    <3>1. UNCHANGED <<storms, clock, now, seen>>
      BY <2>1 DEF BeginTick, EndTick, world
    <3>2. \A d \in Engines : pc'[d] = "resolve" => pc[d] = "resolve"
      BY <2>1 DEF BeginTick, EndTick, TypeOK
    <3> QED
      BY <1>0, <3>1, <3>2, QuietTimes
  <2>2. CASE ReadPolicies(e)
    BY <1>0, <2>2, QuietTimes DEF ReadPolicies, world
  <2>3. CASE ReadAvailability(e)
    BY <1>0, <2>3, QuietTimes DEF ReadAvailability, world, TypeOK
  <2> QED
    BY <1>1, <2>1, <2>2, <2>3
<1>2. ASSUME NEW e \in Engines, FindOngoing(e) \/ FindHealthy(e) \/ StatementFails(e)
      PROVE  TimesOK'
  BY <1>0, <1>2, QuietTimes, ReturnStamps, SMTT(60)
     DEF FindOngoing, FindHealthy, StatementFails, world
<1>3. ASSUME NEW e \in Engines, ReadLastStorm(e)
      PROVE  TimesOK'
  <2>1. CASE Return(e)
    BY <1>0, <1>3, <2>1, QuietTimes, ReturnStamps DEF ReadLastStorm, world
  <2>2. CASE pc' = [pc EXCEPT ![e] = "insert"] /\ UNCHANGED <<row, level, seen, now>>
    BY <1>0, <1>3, <2>2, QuietTimes DEF ReadLastStorm, world, TypeOK
  <2> QED
    BY <1>3, <2>1, <2>2 DEF ReadLastStorm
<1>4. ASSUME NEW e \in Engines, PoliciesReadFails(e) \/ AvailabilityFails(e) \/ Crash(e)
      PROVE  TimesOK'
  <2>1. CASE PoliciesReadFails(e)
    BY <1>0, <2>1, QuietTimes DEF PoliciesReadFails, world
  <2>2. CASE AvailabilityFails(e)
    BY <1>0, <2>2, QuietTimes DEF AvailabilityFails, world
  <2>3. CASE Crash(e)
    BY <1>0, <2>3, QuietTimes DEF Crash, world, TypeOK
  <2> QED
    BY <1>4, <2>1, <2>2, <2>3
<1>5. ASSUME Environment \/ UNCHANGED vars
      PROVE  TimesOK'
  BY <1>0, <1>5, QuietTimes
     DEF Environment, PutPolicy, DeletePolicy, HealthChange, SoftDelete, ClockTick, locals, vars
<1>6. ASSUME NEW e \in Engines, InsertStorm(e) \/ ResolveStorm(e) \/ ReplyLost(e)
      PROVE  TimesOK'
  BY <1>6, WriteStartTimes, WriteEndTimes DEF InsertStorm, ResolveStorm, ReplyLost, world
<1> QED
  BY <1>1, <1>2, <1>3, <1>4, <1>5, <1>6, StampTimes DEF Next, Step, FaultStep

\* However many probers run, a storm never ends before it started, also when
\* it is resolved twice.
THEOREM EndsAfterStarts == Spec => []EndNotBeforeStart
<1>1. Init => TypeOK /\ TimesOK
  BY InitType, InitTimes
<1>2. TypeOK /\ TimesOK /\ [Next]_vars => (TypeOK /\ TimesOK)'
  BY NextType, NextTimes
<1>3. TimesOK => EndNotBeforeStart
  BY DEF TimesOK, EndNotBeforeStart
<1> QED
  BY <1>1, <1>2, <1>3, PTL DEF Spec

-----------------------------------------------------------------------------
(* One prober: storms of a key are sequential and cooled down. *)

\* The cooldown of every row an engine holds is that of a setting of its kind,
\* whatever patches were made since the row was read.
FromSettings(r) == \E x \in Settings : x.kind = r.kind /\ x.cooldown = r.cooldown

RowsOK ==
  \A e \in Engines :
    /\ \A r \in batch[e] : FromSettings(r)
    /\ pc[e] \in {"active", "last", "insert"} => FromSettings(row[e])

\* What the prober knows between its check and its insert, or its resolve.
CheckOK ==
  \A e \in Engines :
    /\ pc[e] \in {"last", "insert"} =>
         \A i \in StormsOf(StormKey(row[e])) : storms[i].ended # NULL
    /\ pc[e] = "last" =>
         \A i \in StormsOf(StormKey(row[e])) : storms[i].ended <= now[e]
    /\ pc[e] = "insert" =>
         \A i \in StormsOf(StormKey(row[e])) : Cooled(i, row[e].kind, clock)
    /\ pc[e] = "resolve" => storms[seen[e]].ended = NULL

Sequential == CooldownKept /\ CheckOK

\* The rows of GetStormPoliciesForService hold settings.
LEMMA PoliciesOfSettings ==
  ASSUME TypeOK, NEW s \in Services, NEW r \in PoliciesOf(s)
  PROVE  FromSettings(r)
<1> PICK p \in Policies : policy[p] # NULL /\ r = RowOf(p)
  BY DEF PoliciesOf
<1>1. policy[p] \in Settings
  BY DEF TypeOK
<1>2. r.kind = policy[p].kind /\ r.cooldown = policy[p].cooldown
  BY DEF RowOf
<1> QED
  BY <1>1, <1>2 DEF FromSettings

\* A step that reads no row of the table and starts no evaluation.
LEMMA QuietRows ==
  ASSUME RowsOK,
         \A d \in Engines :
           /\ batch'[d] \subseteq batch[d]
           /\ pc'[d] \in {"active", "last", "insert"} =>
                pc[d] \in {"active", "last", "insert"} /\ row'[d] = row[d]
  PROVE  RowsOK'
BY DEF RowsOK, FromSettings

LEMMA NextRows ==
  ASSUME TypeOK, RowsOK, [Next]_vars
  PROVE  RowsOK'
<1>1. ASSUME NEW e \in Engines, BeginTick(e) \/ EndTick(e)
      PROVE  RowsOK'
  BY <1>1, QuietRows DEF BeginTick, EndTick, TypeOK
<1>2. ASSUME NEW e \in Engines, ReadPolicies(e)
      PROVE  RowsOK'
  <2> PICK s \in Services : batch' = [batch EXCEPT ![e] = PoliciesOf(s)]
    BY <1>2 DEF ReadPolicies
  <2> QED
    BY <1>2, PoliciesOfSettings DEF ReadPolicies, RowsOK, TypeOK, FromSettings
<1>3. ASSUME NEW e \in Engines, ReadAvailability(e)
      PROVE  RowsOK'
  <2> PICK r \in batch[e] : NextPolicy(e, r) /\ row' = [row EXCEPT ![e] = r]
    BY <1>3 DEF ReadAvailability
  <2>1. FromSettings(r)
    BY DEF RowsOK
  <2>2. \A d \in Engines : batch'[d] \subseteq batch[d]
    BY DEF NextPolicy, TypeOK
  <2>3. \A d \in Engines : d # e => pc'[d] = pc[d] /\ row'[d] = row[d]
    BY <1>3 DEF ReadAvailability, TypeOK
  <2>4. row'[e] = r
    BY DEF TypeOK
  <2> QED
    BY <2>1, <2>2, <2>3, <2>4 DEF RowsOK, FromSettings
<1>4. ASSUME NEW e \in Engines, FindRecovered(e) \/ FindBreach(e)
      PROVE  RowsOK'
  BY <1>4, QuietRows DEF FindRecovered, FindBreach, TypeOK
<1>5. ASSUME NEW e \in Engines, Return(e), UNCHANGED batch
      PROVE  RowsOK'
  BY <1>5, QuietRows, ReturnMoves
<1>6. ASSUME NEW e \in Engines, ReadLastStorm(e), ~Return(e)
      PROVE  RowsOK'
  BY <1>6, QuietRows DEF ReadLastStorm, TypeOK
<1>7. ASSUME NEW e \in Engines, PoliciesReadFails(e) \/ Crash(e)
      PROVE  RowsOK'
  BY <1>7, QuietRows DEF PoliciesReadFails, Crash, TypeOK
<1>8. ASSUME NEW e \in Engines, AvailabilityFails(e)
      PROVE  RowsOK'
  BY <1>8, QuietRows DEF AvailabilityFails, NextPolicy, TypeOK
<1>9. ASSUME Environment \/ UNCHANGED vars
      PROVE  RowsOK'
  BY <1>9, QuietRows
     DEF Environment, PutPolicy, DeletePolicy, HealthChange, SoftDelete, ClockTick, locals, vars
<1> QED
  BY <1>1, <1>2, <1>3, <1>4, <1>5, <1>6, <1>7, <1>8, <1>9
     DEF Next, Step, FaultStep, FindOngoing, FindHealthy, InsertStorm, ResolveStorm,
         StatementFails, ReplyLost, ReadLastStorm

\* A step that writes no storm and takes no decision.
LEMMA QuietSequential ==
  ASSUME TypeOK, TypeOK', Sequential, UNCHANGED storms, clock <= clock',
         \A d \in Engines :
           pc'[d] \in {"last", "insert", "resolve"} =>
             /\ pc'[d] = pc[d]
             /\ row'[d] = row[d]
             /\ seen'[d] = seen[d]
             /\ now'[d] = now[d]
  PROVE  Sequential'
<1>1. CooldownKept'
  BY DEF Sequential, CooldownKept, Cooled
<1>2. ASSUME NEW d \in Engines, pc'[d] = "insert", NEW i \in StormsOf(StormKey(row[d]))
      PROVE  Cooled(i, row[d].kind, clock')
  <2>1. Cooled(i, row[d].kind, clock) /\ storms[i].ended # NULL
    BY <1>2 DEF Sequential, CheckOK
  <2>2. storms[i].ended \in Nat
    BY <1>2, <2>1, StormFields DEF StormsOf
  <2>3. clock \in Nat /\ clock' \in Nat
    BY DEF TypeOK
  <2>4. \A x \in Settings : x.cooldown \in Nat
    BY SettingsAssumption
  <2> QED
    BY <2>1, <2>2, <2>3, <2>4 DEF Cooled
<1>3. CheckOK'
  BY <1>2 DEF Sequential, CheckOK, StormsOf, StormKey, Cooled
<1> QED
  BY <1>1, <1>3 DEF Sequential

\* GetLastStormEvent's answer speaks for every storm of the key: if the newest
\* one has cooled down, all have.
LEMMA CooldownCheck ==
  ASSUME TypeOK, RowsOK, TimesOK, Sequential, NEW e \in Engines,
         pc[e] = "last",
         NEW i \in Newest(StormsOf(StormKey(row[e]))), ~Cooling(e, i),
         NEW j \in StormsOf(StormKey(row[e]))
  PROVE  Cooled(j, row[e].kind, clock)
<1> DEFINE key == StormKey(row[e])
<1>1. i \in StormsOf(key) /\ i \in DOMAIN storms /\ j \in DOMAIN storms
  BY NewestSubset DEF StormsOf
<1>2. storms[i].ended # NULL /\ storms[j].ended # NULL
  BY <1>1 DEF Sequential, CheckOK
<1>3. /\ storms[i].ended \in Nat /\ storms[j].ended \in Nat
      /\ storms[i].started \in Nat /\ storms[j].started \in Nat
      /\ clock \in Nat /\ now[e] \in Nat
  BY <1>1, <1>2, StormFields DEF TypeOK
<1>4. /\ storms[i].started <= storms[i].ended
      /\ storms[j].ended <= now[e]
      /\ storms[i].ended <= now[e]
      /\ now[e] <= clock
  BY <1>1, <1>2 DEF TimesOK, Sequential, CheckOK
<1>5. /\ storms[i].service = storms[j].service
      /\ storms[i].kind = storms[j].kind
      /\ storms[i].kind = row[e].kind
  BY <1>1 DEF StormsOf, StormKey
<1>6. storms[j].started <= storms[i].started
  BY DEF Newest
<1>7. PICK x \in Settings : x.kind = row[e].kind /\ x.cooldown = row[e].cooldown
  BY DEF RowsOK, FromSettings
<1>8. \A y \in Settings : y.cooldown \in Nat
  BY SettingsAssumption
<1>9. CASE j = i
  <2>1. storms[i].ended + row[e].cooldown <= now[e]
    <3>1. row[e].cooldown \in Nat
      BY <1>7, <1>8
    <3>2. CASE row[e].cooldown = 0
      BY <1>3, <1>4, <3>2
    <3>3. CASE row[e].cooldown > 0
      BY <1>2, <1>3, <3>1, <3>3 DEF Cooling, Reference
    <3> QED
      BY <3>1, <3>2, <3>3
  <2> QED
    BY <1>3, <1>4, <1>7, <1>8, <1>9, <2>1 DEF Cooled
<1>10. CASE j < i
  <2>1. Cooled(j, storms[i].kind, storms[i].started)
    BY <1>1, <1>5, <1>10 DEF Sequential, CooldownKept
  <2> QED
    BY <1>3, <1>4, <1>5, <1>8, <2>1 DEF Cooled
<1>11. CASE i < j
  <2>1. PICK y \in Settings : y.kind = storms[j].kind /\ storms[i].ended + y.cooldown <= storms[j].started
    BY <1>1, <1>5, <1>11 DEF Sequential, CooldownKept, Cooled
  <2>2. y.cooldown = 0
    BY <1>3, <1>4, <1>6, <1>8, <2>1
  <2>3. storms[j].ended + y.cooldown <= clock
    BY <1>3, <1>4, <2>2
  <2> QED
    BY <1>5, <2>1, <2>3 DEF Cooled
<1> QED
  BY <1>1, <1>9, <1>10, <1>11 DEF TypeOK

\* The steps that take a decision.
LEMMA DecideSequential ==
  ASSUME TypeOK, RowsOK, TimesOK, Sequential, NEW e \in Engines, Engines = {e},
         FindBreach(e) \/ FindRecovered(e) \/ (ReadLastStorm(e) /\ ~Return(e))
  PROVE  Sequential'
<1>1. UNCHANGED <<storms, clock, row>>
  BY DEF FindBreach, FindRecovered, ReadLastStorm, world
<1>2. CooldownKept'
  BY <1>1 DEF Sequential, CooldownKept, Cooled
<1>3. CASE FindBreach(e)
  <2>1. pc'[e] = "last" /\ now'[e] = clock
    BY <1>3 DEF FindBreach, TypeOK
  <2>2. ASSUME NEW i \in StormsOf(StormKey(row[e]))
        PROVE  storms[i].ended # NULL /\ storms[i].ended <= clock
    <3>1. storms[i].ended # NULL
      BY <1>3 DEF FindBreach, Active
    <3> QED
      BY <3>1 DEF TimesOK, StormsOf
  <2>3. CheckOK'
    BY <1>1, <2>1, <2>2 DEF CheckOK, StormsOf, StormKey
  <2> QED
    BY <1>2, <2>3 DEF Sequential
<1>4. CASE FindRecovered(e)
  <2>1. pc'[e] = "resolve" /\ storms[seen'[e]].ended = NULL
    BY <1>4, NewestSubset DEF FindRecovered, TypeOK, Active
  <2>2. CheckOK'
    BY <1>1, <2>1 DEF CheckOK
  <2> QED
    BY <1>2, <2>2 DEF Sequential
<1>5. CASE ReadLastStorm(e) /\ ~Return(e)
  <2>1. pc[e] = "last" /\ pc'[e] = "insert"
    BY <1>5 DEF ReadLastStorm, TypeOK
  <2>2. ASSUME NEW j \in StormsOf(StormKey(row[e]))
        PROVE  storms[j].ended # NULL /\ Cooled(j, row[e].kind, clock)
    <3>1. storms[j].ended # NULL
      BY <2>1 DEF Sequential, CheckOK
    <3>2. PICK i \in Newest(StormsOf(StormKey(row[e]))) : ~Cooling(e, i)
      BY <1>5 DEF ReadLastStorm
    <3> QED
      BY <2>1, <3>1, <3>2, CooldownCheck
  <2>3. CheckOK'
    BY <1>1, <2>1, <2>2 DEF CheckOK, StormsOf, StormKey, Cooled
  <2> QED
    BY <1>2, <2>3 DEF Sequential
<1> QED
  BY <1>3, <1>4, <1>5

\* A prober that has returned has nothing to remember.
LEMMA ReturnedCheck ==
  ASSUME TypeOK, NEW e \in Engines, Engines = {e}, Return(e)
  PROVE  CheckOK'
BY ReturnMoves DEF CheckOK

LEMMA WriteStartSequential ==
  ASSUME TypeOK, Sequential, NEW e \in Engines, Engines = {e}, WriteStart(e), Return(e)
  PROVE  Sequential'
<1> DEFINE n == Len(storms) + 1
<1>1. /\ DOMAIN storms = 1 .. Len(storms)
      /\ DOMAIN storms' = 1 .. n
      /\ Len(storms) \in Nat
      /\ \A i \in DOMAIN storms : storms'[i] = storms[i]
      /\ storms'[n] = NewStorm(row[e])
  BY WriteStartKeeps DEF TypeOK, WriteStart
<1>2. ASSUME NEW i \in DOMAIN storms', NEW j \in DOMAIN storms', i < j,
             storms'[i].service = storms'[j].service, storms'[i].kind = storms'[j].kind
      PROVE  storms'[i].ended # NULL /\ Cooled(i, storms[j].kind, storms[j].started)'
  <2>1. i \in DOMAIN storms
    BY <1>1, <1>2
  <2>2. CASE j \in DOMAIN storms
    BY <1>1, <1>2, <2>1, <2>2 DEF Sequential, CooldownKept, Cooled
  <2>3. CASE j = n
    <3>1. storms'[j].kind = row[e].kind /\ storms'[j].service = row[e].service
          /\ storms'[j].started = clock
      BY <1>1, <2>3 DEF NewStorm
    <3>2. i \in StormsOf(StormKey(row[e]))
      BY <1>1, <1>2, <2>1, <3>1 DEF StormsOf, StormKey
    <3>3. storms[i].ended # NULL /\ Cooled(i, row[e].kind, clock)
      BY <3>2 DEF Sequential, CheckOK, WriteStart
    <3> QED
      BY <1>1, <2>1, <3>1, <3>3 DEF Cooled
  <2> QED
    BY <1>1, <1>2, <2>2, <2>3
<1>3. CooldownKept'
  BY <1>2 DEF CooldownKept
<1> QED
  BY <1>3, ReturnedCheck DEF Sequential

LEMMA WriteEndSequential ==
  ASSUME TypeOK, Sequential, NEW e \in Engines, Engines = {e}, WriteEnd(e), Return(e)
  PROVE  Sequential'
<1>1. storms[seen[e]].ended = NULL
  BY DEF Sequential, CheckOK, WriteEnd
<1>2. ASSUME NEW i \in DOMAIN storms', NEW j \in DOMAIN storms', i < j,
             storms'[i].service = storms'[j].service, storms'[i].kind = storms'[j].kind
      PROVE  storms'[i].ended # NULL /\ Cooled(i, storms[j].kind, storms[j].started)'
  <2>1. /\ i \in DOMAIN storms /\ j \in DOMAIN storms
        /\ storms[i].service = storms[j].service /\ storms[i].kind = storms[j].kind
    BY <1>2, WriteEndStorms
  <2>2. storms[i].ended # NULL /\ Cooled(i, storms[j].kind, storms[j].started)
    BY <1>2, <2>1 DEF Sequential, CooldownKept
  <2>3. storms'[i] = storms[i]
    BY <1>1, <2>1, <2>2, WriteEndStorms
  <2>4. storms'[j].kind = storms[j].kind /\ storms'[j].started = storms[j].started
    BY <2>1, WriteEndStorms
  <2> QED
    BY <2>2, <2>3, <2>4 DEF Cooled
<1>3. CooldownKept'
  BY <1>2 DEF CooldownKept
<1> QED
  BY <1>3, ReturnedCheck DEF Sequential

LEMMA InitSequential == Init => RowsOK /\ Sequential
BY DEF Init, RowsOK, Sequential, CooldownKept, CheckOK

LEMMA NextSequential ==
  ASSUME TypeOK, TypeOK', RowsOK, TimesOK, Sequential, NEW only, Engines = {only}, [Next]_vars
  PROVE  Sequential'
<1>0. clock \in Nat
  BY DEF TypeOK
<1>1. ASSUME NEW e \in Engines, BeginTick(e) \/ EndTick(e)
      PROVE  Sequential'
  BY <1>0, <1>1, QuietSequential DEF BeginTick, EndTick, world, TypeOK
<1>2. ASSUME NEW e \in Engines, ReadPolicies(e)
      PROVE  Sequential'
  BY <1>0, <1>2, QuietSequential DEF ReadPolicies, world
<1>3. ASSUME NEW e \in Engines, ReadAvailability(e)
      PROVE  Sequential'
  <2>1. UNCHANGED <<storms, clock, seen, now>> /\ pc' = [pc EXCEPT ![e] = "active"]
    BY <1>3 DEF ReadAvailability, world
  <2>2. \A d \in Engines : d = e
    OBVIOUS
  <2> QED
    BY <1>0, <2>1, <2>2, QuietSequential DEF TypeOK
<1>4. ASSUME NEW e \in Engines, FindOngoing(e) \/ FindHealthy(e) \/ StatementFails(e)
      PROVE  Sequential'
  <2>1. UNCHANGED <<storms, clock>> /\ Return(e)
    BY <1>4 DEF FindOngoing, FindHealthy, StatementFails, world
  <2> QED
    BY <1>0, <2>1, QuietSequential, ReturnMoves
<1>5. ASSUME NEW e \in Engines, ReadLastStorm(e)
      PROVE  Sequential'
  <2>1. CASE Return(e)
    BY <1>0, <1>5, <2>1, QuietSequential, ReturnMoves DEF ReadLastStorm, world
  <2> QED
    BY <1>5, <2>1, DecideSequential
<1>6. ASSUME NEW e \in Engines, FindBreach(e) \/ FindRecovered(e)
      PROVE  Sequential'
  BY <1>6, DecideSequential
<1>7. ASSUME NEW e \in Engines, InsertStorm(e) \/ ResolveStorm(e) \/ ReplyLost(e)
      PROVE  Sequential'
  BY <1>7, WriteStartSequential, WriteEndSequential DEF InsertStorm, ResolveStorm, ReplyLost
<1>8. ASSUME NEW e \in Engines, PoliciesReadFails(e)
      PROVE  Sequential'
  BY <1>0, <1>8, QuietSequential DEF PoliciesReadFails, world
<1>9. ASSUME NEW e \in Engines, AvailabilityFails(e)
      PROVE  Sequential'
  BY <1>0, <1>9, QuietSequential DEF AvailabilityFails, world
<1>10. ASSUME NEW e \in Engines, Crash(e)
      PROVE  Sequential'
  BY <1>0, <1>10, QuietSequential DEF Crash, world, TypeOK
<1>11. ASSUME Environment \/ UNCHANGED vars
      PROVE  Sequential'
  BY <1>0, <1>11, QuietSequential
     DEF Environment, PutPolicy, DeletePolicy, HealthChange, SoftDelete, ClockTick, locals, vars
<1> QED
  BY <1>1, <1>2, <1>3, <1>4, <1>5, <1>6, <1>7, <1>8, <1>9, <1>10, <1>11
     DEF Next, Step, FaultStep

OneProber == TypeOK /\ RowsOK /\ TimesOK /\ Sequential

LEMMA OneProberInvariant ==
  ASSUME NEW only, Engines = {only}
  PROVE  Spec => []OneProber
<1>1. Init => OneProber
  BY InitType, InitTimes, InitSequential DEF OneProber
<1>2. OneProber /\ [Next]_vars => OneProber'
  BY NextType, NextRows, NextTimes, NextSequential DEF OneProber
<1> QED
  BY <1>1, <1>2, PTL DEF Spec

\* With one prober, two storms of a service and kind never overlap, and a
\* cooldown of that kind lies between the end of one and the start of the next,
\* through failed statements, lost replies, restarts and policy edits.
THEOREM CooldownAlwaysKept ==
  ASSUME NEW only, Engines = {only}
  PROVE  Spec => []CooldownKept
<1>1. OneProber => CooldownKept
  BY DEF OneProber, Sequential
<1> QED
  BY <1>1, OneProberInvariant, PTL

\* Only the writes of a prober touch the table.
LEMMA StormsWritten ==
  ASSUME [Next]_vars, storms' # storms
  PROVE  \E e \in Engines : WriteStart(e) \/ WriteEnd(e)
<1>1. ASSUME NEW e \in Engines, Step(e)
      PROVE  WriteStart(e) \/ WriteEnd(e)
  BY <1>1 DEF Step, BeginTick, ReadPolicies, EndTick, ReadAvailability, FindOngoing,
     FindRecovered, FindBreach, FindHealthy, ReadLastStorm, InsertStorm, ResolveStorm
<1>2. ASSUME NEW e \in Engines, FaultStep(e)
      PROVE  WriteStart(e) \/ WriteEnd(e)
  BY <1>2 DEF FaultStep, PoliciesReadFails, AvailabilityFails, StatementFails, ReplyLost, Crash
<1>3. ~Environment
  BY DEF Environment, PutPolicy, DeletePolicy, HealthChange, SoftDelete, ClockTick
<1> QED
  BY <1>1, <1>2, <1>3 DEF Next, vars

\* With one prober, no step changes a storm whose end is recorded.
THEOREM EndsAreFinal ==
  ASSUME NEW only, Engines = {only}
  PROVE  Spec => EndedIsFinal
<1> DEFINE Final == \A i \in DOMAIN storms : storms[i].ended # NULL => storms'[i] = storms[i]
<1>1. ASSUME OneProber, [Next]_vars
      PROVE  Final
  <2>1. CASE storms' = storms
    BY <2>1
  <2>2. CASE storms' # storms
    <3> PICK e \in Engines : WriteStart(e) \/ WriteEnd(e)
      BY <1>1, <2>2, StormsWritten
    <3>1. CASE WriteStart(e)
      BY <1>1, <3>1 DEF OneProber, TypeOK, WriteStart
    <3>2. CASE WriteEnd(e)
      <4>1. storms[seen[e]].ended = NULL
        BY <1>1, <3>2 DEF OneProber, Sequential, CheckOK, WriteEnd
      <4> QED
        BY <1>1, <3>2, <4>1, WriteEndStorms DEF OneProber
    <3> QED
      BY <3>1, <3>2
  <2> QED
    BY <2>1, <2>2
<1>2. OneProber /\ [Next]_vars => [Final]_vars
  BY <1>1
<1> QED
  BY <1>2, OneProberInvariant, PTL DEF Spec, EndedIsFinal
=============================================================================
