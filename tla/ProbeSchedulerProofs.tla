------------------------ MODULE ProbeSchedulerProofs ------------------------
(***************************************************************************)
(* Proofs about ProbeScheduler for any services, domains and CDNs and any  *)
(* number of goroutines, failures and edits.                               *)
(***************************************************************************)
EXTENDS ProbeScheduler, WellFoundedInduction, TLAPS

-----------------------------------------------------------------------------
(* Slots.                                                                  *)

\* A set of natural numbers that is not empty contains its Min.
LEMMA MinOfNat ==
  ASSUME NEW S \in SUBSET Nat, S # {}
  PROVE  Min(S) \in S
<1> DEFINE Less == {ss \in Nat \X Nat : ss[1] < ss[2]}
<1>1. IsWellFoundedOn(Less, Nat)
  BY NatLessThanWellFounded, Zenon DEF OpToRel
<1>2. \A a, b \in Nat : a < b => <<a, b>> \in Less
  OBVIOUS
<1> HIDE DEF Less
<1>3. PICK m \in S : \A v \in S : ~(<<v, m>> \in Less)
  BY <1>1, WFMin, Zenon
<1>4. ASSUME NEW v \in S PROVE m <= v
  <2>1. v \in Nat /\ m \in Nat
    OBVIOUS
  <2>2. ~(v < m)
    BY <1>2, <1>3, <2>1, Zenon
  <2> QED BY <2>1, <2>2
<1> QED BY <1>4 DEF Min

\* A started loop takes a slot that is free.
LEMMA FreeSlot ==
  ASSUME NEW k \in Keys, Free(k) # {}
  PROVE  /\ Min(Free(k)) \in Slots
         /\ at[<<k, Min(Free(k))>>] = "none"
<1>1. Free(k) \in SUBSET Nat
  BY ConstantsAssumption DEF Free
<1>2. Min(Free(k)) \in Free(k)
  BY <1>1, MinOfNat
<1> QED BY <1>2 DEF Free

-----------------------------------------------------------------------------
(* Type correctness.                                                       *)

\* The part of the type that the tables of the control plane are in.
TablesOK ==
  /\ live \subseteq Services
  /\ domains \subseteq DomainIds
  /\ unused \subseteq DomainIds \ domains
  /\ routes \in [Services -> SUBSET Cdns]

RoundOK ==
  /\ pc \in {"list", "services", "wait", "return", "returned"}
  /\ DOMAIN todo \subseteq Services
  /\ \A s \in DOMAIN todo : todo[s] \subseteq Cdns
  /\ active \subseteq Keys

LoopsOK ==
  /\ loops \in [Keys -> Slots \cup {NULL}]
  /\ at \in [Goroutines -> {"none", "probe", "ok", "failed", "wait"}]
  /\ cancelled \subseteq {g \in Goroutines : Running(g)}

SamplesOK == done \in BOOLEAN /\ failures \subseteq Keys /\ gone \subseteq Keys

LEMMA TypeParts == TypeOK <=> TablesOK /\ RoundOK /\ LoopsOK /\ SamplesOK
BY DEF TypeOK, TablesOK, RoundOK, LoopsOK, SamplesOK

LEMMA TypePartsNext == TypeOK' <=> TablesOK' /\ RoundOK' /\ LoopsOK' /\ SamplesOK'
BY DEF TypeOK, TablesOK, RoundOK, LoopsOK, SamplesOK

LEMMA QuietTables == TablesOK /\ UNCHANGED tables => TablesOK'
BY DEF TablesOK, tables

LEMMA QuietRound == RoundOK /\ UNCHANGED <<pc, todo, active>> => RoundOK'
BY DEF RoundOK

LEMMA QuietLoops == LoopsOK /\ UNCHANGED <<loops, at, cancelled>> => LoopsOK'
BY DEF LoopsOK, Running

LEMMA QuietSamples == SamplesOK /\ UNCHANGED <<done, failures, gone>> => SamplesOK'
BY DEF SamplesOK

LEMMA InitType == Init => TypeOK
<1> SUFFICES ASSUME Init PROVE TypeOK
  OBVIOUS
<1>1. TablesOK /\ RoundOK /\ SamplesOK
  BY ConstantsAssumption DEF Init, TablesOK, RoundOK, SamplesOK
<1>2. LoopsOK
  BY DEF Init, LoopsOK, Running
<1> QED BY <1>1, <1>2, TypeParts

\* What a goroutine does alone.
LEMMA MoveLoops ==
  ASSUME LoopsOK, UNCHANGED loops, NEW g \in Goroutines,
         NEW to \in {"none", "probe", "ok", "failed", "wait"},
         at' = [at EXCEPT ![g] = to],
         cancelled' \subseteq cancelled, g \in cancelled' => to # "none"
  PROVE  LoopsOK'
BY DEF LoopsOK, Running

LEMMA CancelType ==
  ASSUME LoopsOK, NEW T \in SUBSET Keys, CancelLoops(T), UNCHANGED at
  PROVE  LoopsOK'
BY DEF LoopsOK, CancelLoops, Stop, Running, Goroutines

LEMMA StartType ==
  ASSUME LoopsOK, NEW T \in SUBSET Keys, StartLoops(T), UNCHANGED cancelled
  PROVE  LoopsOK'
<1>1. \A k \in T : Min(Free(k)) \in Slots
  BY FreeSlot DEF StartLoops
<1>2. loops' \in [Keys -> Slots \cup {NULL}]
  BY <1>1 DEF LoopsOK, StartLoops
<1>3. at' \in [Goroutines -> {"none", "probe", "ok", "failed", "wait"}]
  BY DEF LoopsOK, StartLoops
<1>4. \A g \in Goroutines : at[g] # "none" => at'[g] # "none"
  BY DEF LoopsOK, StartLoops
<1> QED BY <1>2, <1>3, <1>4 DEF LoopsOK, Running

LEMMA NextType == TypeOK /\ [Next]_vars => TypeOK'
<1> SUFFICES ASSUME TablesOK, RoundOK, LoopsOK, SamplesOK, [Next]_vars
             PROVE  TablesOK' /\ RoundOK' /\ LoopsOK' /\ SamplesOK'
  BY TypeParts, TypePartsNext
<1>0. CASE UNCHANGED vars
  BY <1>0, QuietTables, QuietRound, QuietLoops, QuietSamples DEF vars, run, probes
<1>1. CASE ListServices
  <2>1. RoundOK'
    BY <1>1 DEF ListServices, TablesOK, RoundOK
  <2>2. SamplesOK'
    BY <1>1 DEF ListServices, SamplesOK
  <2> QED BY <1>1, <2>1, <2>2, QuietTables, QuietLoops DEF ListServices, probes
<1>2. CASE ListFails
  <2>1. RoundOK'
    BY <1>2 DEF ListFails, Pause, RoundOK
  <2> QED BY <1>2, <2>1, QuietTables, QuietLoops, QuietSamples DEF ListFails, probes
<1>3. ASSUME NEW s \in Services, ProbeService(s)
      PROVE  TablesOK' /\ RoundOK' /\ LoopsOK' /\ SamplesOK'
  <2>1. Targets(s, todo[s]) \subseteq Keys
    BY DEF Targets, KeysOf
  <2>2. RoundOK'
    BY <1>3, <2>1 DEF ProbeService, NextService, RoundOK
  <2>3. LoopsOK'
    BY <1>3, <2>1, StartType DEF ProbeService, EnsureLoops
  <2> QED BY <1>3, <2>2, <2>3, QuietTables, QuietSamples DEF ProbeService
<1>4. ASSUME NEW s \in Services, ReadFails(s)
      PROVE  TablesOK' /\ RoundOK' /\ LoopsOK' /\ SamplesOK'
  <2>1. RoundOK'
    BY <1>4 DEF ReadFails, NextService, PreserveExistingLoops, KeysOf, RoundOK
  <2> QED BY <1>4, <2>1, QuietTables, QuietLoops, QuietSamples DEF ReadFails, probes
<1>5. CASE StopMissingLoops
  <2>1. LoopsOK'
    BY <1>5, CancelType DEF StopMissingLoops
  <2>2. RoundOK'
    BY <1>5 DEF StopMissingLoops, Pause, RoundOK
  <2> QED BY <1>5, <2>1, <2>2, QuietTables, QuietSamples DEF StopMissingLoops
<1>6. CASE NextRound
  <2>1. RoundOK'
    BY <1>6 DEF NextRound, RoundOK
  <2> QED BY <1>6, <2>1, QuietTables, QuietLoops, QuietSamples DEF NextRound, probes
<1>7. CASE Return
  <2>1. LoopsOK'
    BY <1>7, CancelType DEF Return
  <2>2. RoundOK'
    BY <1>7 DEF Return, RoundOK
  <2> QED BY <1>7, <2>1, <2>2, QuietTables, QuietSamples DEF Return
<1>8. ASSUME NEW g \in Goroutines, Probe(g) \/ CutProbe(g) \/ Elapse(g) \/ Quit(g)
      PROVE  TablesOK' /\ RoundOK' /\ LoopsOK' /\ SamplesOK'
  <2>1. LoopsOK'
    BY <1>8, MoveLoops DEF Probe, CutProbe, Elapse, Quit, Move, run
  <2> QED
    BY <1>8, <2>1, QuietTables, QuietRound, QuietSamples
    DEF Probe, CutProbe, Elapse, Quit, Move, run
<1>9. ASSUME NEW g \in Goroutines, RecordProbe(g)
      PROVE  TablesOK' /\ RoundOK' /\ LoopsOK' /\ SamplesOK'
  <2>1. LoopsOK'
    BY <1>9, MoveLoops DEF RecordProbe, Rest, run
  <2>2. SamplesOK'
    BY <1>9 DEF RecordProbe, InsertProbeSample, SamplesOK, Goroutines
  <2> QED BY <1>9, <2>1, <2>2, QuietTables, QuietRound DEF RecordProbe, run
<1>10. CASE Interrupt
  <2>1. SamplesOK'
    BY <1>10 DEF Interrupt, SamplesOK
  <2> QED BY <1>10, <2>1, QuietTables, QuietRound, QuietLoops DEF Interrupt, run, probes
<1>11. CASE Restart
  <2>1. LoopsOK'
    BY <1>11 DEF Restart, LoopsOK, Running
  <2>2. RoundOK' /\ SamplesOK'
    BY <1>11 DEF Restart, RoundOK, SamplesOK
  <2> QED BY <1>11, <2>1, <2>2, QuietTables DEF Restart
<1>12. ASSUME NEW s \in Services, PatchCdns(s) \/ DeleteService(s)
       PROVE  TablesOK' /\ RoundOK' /\ LoopsOK' /\ SamplesOK'
  <2>1. TablesOK'
    BY <1>12 DEF PatchCdns, DeleteService, TablesOK
  <2>2. SamplesOK'
    BY <1>12 DEF PatchCdns, DeleteService, Edit, SamplesOK
  <2> QED
    BY <1>12, <2>1, <2>2, QuietRound, QuietLoops
    DEF PatchCdns, DeleteService, Edit, run, probes
<1>13. ASSUME NEW d \in DomainIds, AddDomain(d) \/ DeleteDomain(d)
       PROVE  TablesOK' /\ RoundOK' /\ LoopsOK' /\ SamplesOK'
  <2>1. TablesOK'
    BY <1>13 DEF AddDomain, DeleteDomain, TablesOK
  <2>2. SamplesOK'
    BY <1>13 DEF AddDomain, DeleteDomain, Edit, SamplesOK
  <2> QED
    BY <1>13, <2>1, <2>2, QuietRound, QuietLoops
    DEF AddDomain, DeleteDomain, Edit, run, probes
<1> QED
  BY <1>0, <1>1, <1>2, <1>3, <1>4, <1>5, <1>6, <1>7, <1>8, <1>9, <1>10, <1>11, <1>12, <1>13
  DEF Next, Round, ProbeLoop

(* The variables keep their types, and only goroutines that run are held   *)
(* cancelled (monitor.go:80-148).                                          *)
THEOREM TypeCorrect == Spec => []TypeOK
BY InitType, NextType, PTL DEF Spec

-----------------------------------------------------------------------------
(* The map and the goroutines.                                             *)

LEMMA QuietOneLoop ==
  OneLoopPerTarget /\ UNCHANGED <<loops, at, cancelled, done>> => OneLoopPerTarget'
BY DEF OneLoopPerTarget, Running

\* A goroutine that is where it was, running or not, and cancelled or not.
LEMMA MoveOneLoop ==
  ASSUME LoopsOK, OneLoopPerTarget, UNCHANGED <<loops, done>>, NEW g \in Goroutines,
         NEW to \in {"none", "probe", "ok", "failed", "wait"},
         at' = [at EXCEPT ![g] = to],
         at[g] # "none",
         to = "none" => Cancelled(g),
         \/ cancelled' = cancelled /\ to # "none"
         \/ cancelled' = cancelled \ {g} /\ (Cancelled(g) => to = "none")
  PROVE  OneLoopPerTarget'
BY DEF LoopsOK, OneLoopPerTarget, Running, Cancelled

LEMMA CancelOneLoop ==
  ASSUME LoopsOK, OneLoopPerTarget, NEW T \in SUBSET Keys, CancelLoops(T),
         UNCHANGED <<at, done>>
  PROVE  OneLoopPerTarget'
<1> SUFFICES ASSUME ~done, NEW g \in Goroutines
             PROVE  (Running(g)' /\ g \notin cancelled') <=> loops'[g[1]] = g[2]
  BY DEF OneLoopPerTarget
<1>1. g[1] \in Keys /\ g[2] \in Slots /\ g[2] # NULL
  BY ConstantsAssumption DEF Goroutines
<1>2. (Running(g) /\ g \notin cancelled) <=> loops[g[1]] = g[2]
  BY DEF OneLoopPerTarget
<1>3. CASE g[1] \in T
  <2>1. loops'[g[1]] # g[2]
    BY <1>1, <1>3 DEF CancelLoops
  <2>2. g \in T \X Slots
    BY <1>1, <1>3 DEF Goroutines
  <2>3. Running(g) => g \in cancelled'
    BY <1>2, <2>2 DEF CancelLoops, Stop, Running
  <2> QED BY <2>1, <2>3 DEF Running
<1>4. CASE g[1] \notin T
  <2>1. loops'[g[1]] = loops[g[1]]
    BY <1>1, <1>4 DEF CancelLoops
  <2>2. g \in cancelled' <=> g \in cancelled
    BY <1>4 DEF CancelLoops, Stop
  <2> QED BY <1>2, <2>1, <2>2 DEF Running
<1> QED BY <1>3, <1>4

LEMMA StartOneLoop ==
  ASSUME LoopsOK, OneLoopPerTarget, NEW T \in SUBSET Keys, EnsureLoops(T),
         UNCHANGED <<cancelled, done>>
  PROVE  OneLoopPerTarget'
<1> SUFFICES ASSUME ~done, NEW g \in Goroutines
             PROVE  (Running(g)' /\ g \notin cancelled') <=> loops'[g[1]] = g[2]
  BY DEF OneLoopPerTarget
<1> DEFINE N == {k \in T : loops[k] = NULL}
<1>1. g[1] \in Keys /\ g[2] \in Slots /\ g[2] # NULL /\ g = <<g[1], g[2]>>
  BY ConstantsAssumption DEF Goroutines
<1>2. (Running(g) /\ g \notin cancelled) <=> loops[g[1]] = g[2]
  BY DEF OneLoopPerTarget
<1>3. CASE g[1] \in N /\ g[2] = Min(Free(g[1]))
  <2>1. at[g] = "none"
    BY <1>1, <1>3, FreeSlot DEF EnsureLoops, StartLoops
  <2>2. at'[g] = "probe" /\ loops'[g[1]] = g[2]
    BY <1>1, <1>3 DEF EnsureLoops, StartLoops
  <2>3. g \notin cancelled'
    BY <2>1 DEF LoopsOK, Running
  <2> QED BY <2>2, <2>3 DEF Running
<1>4. CASE g[1] \in N /\ g[2] # Min(Free(g[1]))
  <2>1. at'[g] = at[g] /\ loops'[g[1]] # g[2]
    BY <1>1, <1>4 DEF EnsureLoops, StartLoops
  <2>2. loops[g[1]] # g[2]
    BY <1>1, <1>4
  <2> QED BY <1>2, <2>1, <2>2 DEF Running
<1>5. CASE g[1] \notin N
  <2>1. at'[g] = at[g] /\ loops'[g[1]] = loops[g[1]]
    BY <1>1, <1>5 DEF EnsureLoops, StartLoops
  <2> QED BY <1>2, <2>1 DEF Running
<1> QED BY <1>3, <1>4, <1>5

LEMMA NextOneLoop == TypeOK /\ OneLoopPerTarget /\ [Next]_vars => OneLoopPerTarget'
<1> SUFFICES ASSUME LoopsOK, OneLoopPerTarget, [Next]_vars PROVE OneLoopPerTarget'
  BY TypeParts
<1>0. CASE UNCHANGED vars
  BY <1>0, QuietOneLoop DEF vars, run, probes
<1>1. CASE ListServices \/ ListFails \/ NextRound
  BY <1>1, QuietOneLoop DEF ListServices, ListFails, NextRound, probes
<1>2. ASSUME NEW s \in Services, ProbeService(s) PROVE OneLoopPerTarget'
  <2>1. Targets(s, todo[s]) \subseteq Keys
    BY DEF Targets, KeysOf
  <2> QED BY <1>2, <2>1, StartOneLoop DEF ProbeService
<1>3. ASSUME NEW s \in Services, ReadFails(s) PROVE OneLoopPerTarget'
  BY <1>3, QuietOneLoop DEF ReadFails, probes
<1>4. CASE StopMissingLoops
  BY <1>4, CancelOneLoop DEF StopMissingLoops
<1>5. CASE Return
  BY <1>5, CancelOneLoop DEF Return
<1>6. ASSUME NEW g \in Goroutines, Probe(g) \/ CutProbe(g) \/ Elapse(g) PROVE OneLoopPerTarget'
  <2>1. PICK to \in {"probe", "ok", "failed"} : at' = [at EXCEPT ![g] = to]
    BY <1>6 DEF Probe, CutProbe, Elapse, Move
  <2>2. at[g] # "none" /\ UNCHANGED <<loops, done, cancelled>>
    BY <1>6 DEF Probe, CutProbe, Elapse, Move, run
  <2> QED BY <2>1, <2>2, MoveOneLoop
<1>7. ASSUME NEW g \in Goroutines, Quit(g) PROVE OneLoopPerTarget'
  BY <1>7, MoveOneLoop DEF Quit, Move, run
<1>8. ASSUME NEW g \in Goroutines, RecordProbe(g) PROVE OneLoopPerTarget'
  <2>1. at[g] # "none" /\ UNCHANGED <<loops, done>> /\ cancelled' = cancelled \ {g}
    BY <1>8 DEF RecordProbe, Rest, run
  <2>2. CASE Cancelled(g)
    BY <1>8, <2>1, <2>2, MoveOneLoop DEF RecordProbe, Rest
  <2>3. CASE ~Cancelled(g)
    BY <1>8, <2>1, <2>3, MoveOneLoop DEF RecordProbe, Rest
  <2> QED BY <2>2, <2>3
<1>9. CASE Interrupt
  BY <1>9 DEF Interrupt, OneLoopPerTarget
<1>10. CASE Restart
  BY <1>10, ConstantsAssumption DEF Restart, OneLoopPerTarget, Running, Goroutines
<1>11. ASSUME NEW s \in Services, PatchCdns(s) \/ DeleteService(s) PROVE OneLoopPerTarget'
  BY <1>11, QuietOneLoop DEF PatchCdns, DeleteService, Edit, run, probes
<1>12. ASSUME NEW d \in DomainIds, AddDomain(d) \/ DeleteDomain(d) PROVE OneLoopPerTarget'
  BY <1>12, QuietOneLoop DEF AddDomain, DeleteDomain, Edit, run, probes
<1> QED
  BY <1>0, <1>1, <1>2, <1>3, <1>4, <1>5, <1>6, <1>7, <1>8, <1>9, <1>10, <1>11, <1>12
  DEF Next, Round, ProbeLoop

(* However rounds, restarts and cancelled goroutines overlap, a target has *)
(* at most one loop that goes on, and it is the one in the map             *)
(* (ensureProbeLoop and stopMissingLoops, monitor.go:80-102).              *)
THEOREM OneLoop == Spec => []OneLoopPerTarget
<1>1. Init => OneLoopPerTarget
  BY ConstantsAssumption DEF Init, OneLoopPerTarget, Running, Goroutines
<1> QED BY <1>1, InitType, NextType, NextOneLoop, PTL DEF Spec

-----------------------------------------------------------------------------
(* Samples.                                                                *)

\* A goroutine that is about to report a failure has seen one, or is cancelled.
ReportInv ==
  \A g \in Goroutines : at[g] = "failed" => g[1][2] \in Down \/ Cancelled(g)

SampleInv == NoFalseFailure /\ ReportInv

LEMMA QuietSample ==
  ASSUME SampleInv, UNCHANGED <<at, failures>>, done => done', cancelled \subseteq cancelled'
  PROVE  SampleInv'
BY DEF SampleInv, NoFalseFailure, ReportInv, Cancelled

\* A goroutine that goes on elsewhere.
LEMMA MoveSample ==
  ASSUME LoopsOK, SampleInv, UNCHANGED done, NoFalseFailure', NEW g \in Goroutines,
         NEW to \in {"none", "probe", "ok", "failed", "wait"},
         at' = [at EXCEPT ![g] = to],
         to = "failed" => g[1][2] \in Down \/ Cancelled(g)',
         cancelled \ {g} \subseteq cancelled'
  PROVE  SampleInv'
BY DEF LoopsOK, SampleInv, ReportInv, Cancelled

LEMMA NextSample == TypeOK /\ SampleInv /\ [Next]_vars => SampleInv'
<1> SUFFICES ASSUME LoopsOK, SampleInv, [Next]_vars PROVE SampleInv'
  BY TypeParts
<1>0. CASE UNCHANGED vars
  BY <1>0, QuietSample DEF vars, run, probes
<1>1. CASE ListServices \/ ListFails \/ NextRound
  BY <1>1, QuietSample DEF ListServices, ListFails, NextRound, probes
<1>2. ASSUME NEW s \in Services, ProbeService(s) PROVE SampleInv'
  <2>1. \A g \in Goroutines : at'[g] = "failed" => at[g] = "failed"
    BY <1>2 DEF LoopsOK, ProbeService, EnsureLoops, StartLoops
  <2> QED
    BY <1>2, <2>1 DEF ProbeService, SampleInv, NoFalseFailure, ReportInv, Cancelled
<1>3. ASSUME NEW s \in Services, ReadFails(s) PROVE SampleInv'
  BY <1>3, QuietSample DEF ReadFails, probes
<1>4. CASE StopMissingLoops
  BY <1>4, QuietSample DEF StopMissingLoops, CancelLoops, Stop
<1>5. CASE Return
  BY <1>5, QuietSample DEF Return, CancelLoops, Stop
<1>6. ASSUME NEW g \in Goroutines, Probe(g) \/ CutProbe(g) \/ Elapse(g) \/ Quit(g)
      PROVE  SampleInv'
  <2>1. NoFalseFailure'
    BY <1>6 DEF Probe, CutProbe, Elapse, Quit, SampleInv, NoFalseFailure
  <2>2. CASE Probe(g)
    <3>1. PICK to \in {"ok", "failed"} :
            at' = [at EXCEPT ![g] = to] /\ (to = "failed" => g[1][2] \in Down)
      BY <2>2 DEF Probe, Move
    <3>2. UNCHANGED <<done, cancelled>>
      BY <2>2 DEF Probe
    <3> QED BY <2>1, <3>1, <3>2, MoveSample
  <2>3. CASE CutProbe(g)
    BY <2>1, <2>3, MoveSample DEF CutProbe, Move, Cancelled
  <2>4. CASE Elapse(g) \/ Quit(g)
    BY <2>1, <2>4, MoveSample DEF Elapse, Quit, Move
  <2> QED BY <1>6, <2>2, <2>3, <2>4
<1>7. ASSUME NEW g \in Goroutines, RecordProbe(g) PROVE SampleInv'
  <2>1. failures' \subseteq failures \cup {g[1]}
    BY <1>7 DEF RecordProbe, InsertProbeSample
  <2>2. failures' # failures => g[1][2] \in Down
    BY <1>7 DEF RecordProbe, InsertProbeSample, SampleInv, ReportInv
  <2>3. NoFalseFailure'
    BY <2>1, <2>2 DEF SampleInv, NoFalseFailure
  <2>4. PICK to \in {"none", "wait"} : at' = [at EXCEPT ![g] = to]
    BY <1>7 DEF RecordProbe, Rest
  <2>5. UNCHANGED done /\ cancelled' = cancelled \ {g}
    BY <1>7 DEF RecordProbe, Rest
  <2> QED BY <2>3, <2>4, <2>5, MoveSample
<1>8. CASE Interrupt
  BY <1>8, QuietSample DEF Interrupt, probes
<1>9. CASE Restart
  BY <1>9 DEF Restart, SampleInv, NoFalseFailure, ReportInv
<1>10. ASSUME NEW s \in Services, PatchCdns(s) \/ DeleteService(s) PROVE SampleInv'
  BY <1>10, QuietSample DEF PatchCdns, DeleteService, Edit, run, probes
<1>11. ASSUME NEW d \in DomainIds, AddDomain(d) \/ DeleteDomain(d) PROVE SampleInv'
  BY <1>11, QuietSample DEF AddDomain, DeleteDomain, Edit, run, probes
<1> QED
  BY <1>0, <1>1, <1>2, <1>3, <1>4, <1>5, <1>6, <1>7, <1>8, <1>9, <1>10, <1>11
  DEF Next, Round, ProbeLoop

(* A probe that a cancel or a shutdown cuts short never becomes a failed   *)
(* sample of its target: the sample needs the context that was cancelled   *)
(* (probeLoop, monitor.go:124-148; postgres_metrics.go:24-36).             *)
THEOREM FailuresAreReal == Spec => []NoFalseFailure
<1>1. Init => SampleInv
  BY DEF Init, SampleInv, NoFalseFailure, ReportInv
<1>2. SampleInv => NoFalseFailure
  BY DEF SampleInv
<1> QED BY <1>1, <1>2, InitType, NextType, NextSample, PTL DEF Spec

-----------------------------------------------------------------------------
(* What a round stops.                                                     *)

\* Between its queries, a round has seen every held target that was wanted all
\* along, or still has its service, with its CDNs, to read.
RoundInv ==
  /\ pc = "return" => done
  /\ pc = "services" =>
       /\ Keys \ Wanted \subseteq gone
       /\ \A k \in Keys \ gone :
            /\ loops[k] # NULL /\ ~done => k \in active \/ Owner[k[1]] \in DOMAIN todo
            /\ Owner[k[1]] \in DOMAIN todo =>
                 k[2] \in {Direct} \cup (todo[Owner[k[1]]] \ Malformed)

\* What Wanted says of one target.
LEMMA WantedKey ==
  ASSUME NEW k \in Wanted
  PROVE  /\ k \in Keys
         /\ Owner[k[1]] \in live
         /\ k[1] \in domains
         /\ k[2] \in {Direct} \cup (routes[Owner[k[1]]] \ Malformed)
BY DEF Wanted, Targets, KeysOf

\* The goroutines do not touch what a round works with.
LEMMA QuietRoundInv ==
  ASSUME RoundInv, UNCHANGED <<tables, pc, todo, active, loops, gone>>, done => done'
  PROVE  RoundInv'
<1>1. UNCHANGED Wanted
  BY DEF tables, Wanted, Targets
<1> QED BY <1>1 DEF RoundInv

\* An edit in the round is noted in gone.
LEMMA EditRoundInv == RoundInv /\ Edit => RoundInv'
BY DEF RoundInv, Edit, run

LEMMA NextRoundInv == TypeOK /\ RoundInv /\ [Next]_vars => RoundInv'
<1> SUFFICES ASSUME TablesOK, RoundOK, LoopsOK, RoundInv, [Next]_vars PROVE RoundInv'
  BY TypeParts
<1>0. CASE UNCHANGED vars
  BY <1>0, QuietRoundInv DEF vars, run
<1>1. CASE ListServices
  <2>1. ASSUME NEW k \in Keys \ gone' PROVE
          /\ Owner[k[1]] \in DOMAIN todo'
          /\ k[2] \in {Direct} \cup (todo'[Owner[k[1]]] \ Malformed)
    BY <1>1, <2>1, WantedKey DEF ListServices
  <2>2. UNCHANGED Wanted
    BY <1>1 DEF ListServices, tables, Wanted, Targets
  <2> QED BY <1>1, <2>1, <2>2 DEF ListServices, RoundInv
<1>2. CASE ListFails
  BY <1>2 DEF ListFails, Pause, RoundInv
<1>3. ASSUME NEW s \in Services, ProbeService(s) PROVE RoundInv'
  <2>1. UNCHANGED Wanted
    BY <1>3 DEF ProbeService, tables, Wanted, Targets
  <2>2. pc = "services" /\ UNCHANGED <<pc, gone, done>>
    BY <1>3 DEF ProbeService, NextService
  <2>3. DOMAIN todo' = DOMAIN todo \ {s} /\ \A t \in DOMAIN todo' : todo'[t] = todo[t]
    BY <1>3 DEF ProbeService, NextService
  <2>4. ASSUME NEW k \in Keys \ gone, Owner[k[1]] = s PROVE k \in active'
    <3>1. k \in Wanted /\ Owner[k[1]] \in DOMAIN todo
      BY <1>3, <2>2, <2>4 DEF RoundInv, ProbeService, NextService
    <3>2. k \in Targets(s, todo[s])
      BY <2>2, <2>4, <3>1, WantedKey DEF RoundInv, Targets, KeysOf
    <3> QED BY <1>3, <3>2 DEF ProbeService
  <2>5. ASSUME NEW k \in Keys \ gone, loops'[k] # NULL
        PROVE  k \in active' \/ Owner[k[1]] \in DOMAIN todo'
    <3>1. CASE loops[k] = NULL
      <4>1. k \in Targets(s, todo[s])
        BY <1>3, <2>5, <3>1 DEF ProbeService, EnsureLoops, StartLoops
      <4> QED BY <1>3, <4>1 DEF ProbeService
    <3>2. CASE loops[k] # NULL
      <4>1. k \in active \/ Owner[k[1]] \in DOMAIN todo
        BY <1>3, <2>2, <3>2 DEF RoundInv, ProbeService
      <4> QED BY <1>3, <2>3, <2>4, <4>1 DEF ProbeService
    <3> QED BY <3>1, <3>2
  <2> QED BY <2>1, <2>2, <2>3, <2>5 DEF RoundInv
<1>4. ASSUME NEW s \in Services, ReadFails(s) PROVE RoundInv'
  <2>1. UNCHANGED Wanted
    BY <1>4 DEF ReadFails, tables, Wanted, Targets
  <2>2. pc = "services" /\ UNCHANGED <<pc, gone, done, loops>>
    BY <1>4 DEF ReadFails, NextService
  <2>3. DOMAIN todo' = DOMAIN todo \ {s} /\ \A t \in DOMAIN todo' : todo'[t] = todo[t]
    BY <1>4 DEF ReadFails, NextService
  <2>4. ASSUME NEW k \in Keys, Owner[k[1]] = s, loops[k] # NULL PROVE k \in active'
    BY <1>4, <2>4 DEF ReadFails, PreserveExistingLoops, KeysOf
  <2>5. active \subseteq active'
    BY <1>4 DEF ReadFails, PreserveExistingLoops
  <2> QED BY <2>1, <2>2, <2>3, <2>4, <2>5 DEF RoundInv
<1>5. CASE StopMissingLoops \/ NextRound \/ Return
  BY <1>5 DEF StopMissingLoops, NextRound, Return, Pause, RoundInv
<1>6. ASSUME NEW g \in Goroutines, ProbeLoop(g) \/ CutProbe(g) \/ Quit(g) PROVE RoundInv'
  BY <1>6, QuietRoundInv DEF ProbeLoop, Probe, RecordProbe, Elapse, CutProbe, Quit, run
<1>7. CASE Interrupt
  BY <1>7, QuietRoundInv DEF Interrupt, run
<1>8. CASE Restart
  BY <1>8 DEF Restart, RoundInv
<1>9. ASSUME NEW s \in Services, PatchCdns(s) \/ DeleteService(s) PROVE RoundInv'
  BY <1>9, EditRoundInv DEF PatchCdns, DeleteService
<1>10. ASSUME NEW d \in DomainIds, AddDomain(d) \/ DeleteDomain(d) PROVE RoundInv'
  BY <1>10, EditRoundInv DEF AddDomain, DeleteDomain
<1> QED
  BY <1>0, <1>1, <1>2, <1>3, <1>4, <1>5, <1>6, <1>7, <1>8, <1>9, <1>10 DEF Next, Round

\* Whose loops a step cancels.
LEMMA StopsGone ==
  TypeOK /\ RoundInv /\ [Next]_vars =>
    (~done => \A g \in cancelled' \ cancelled : g[1] \in gone)
<1> SUFFICES ASSUME TypeOK, RoundInv, [Next]_vars, ~done, NEW g \in cancelled' \ cancelled
             PROVE  g[1] \in gone
  OBVIOUS
<1>1. CASE UNCHANGED cancelled
  BY <1>1
<1>2. CASE StopMissingLoops
  <2>1. g[1] \in Keys \ active /\ loops[g[1]] = g[2] /\ g[2] \in Slots
    BY <1>2 DEF StopMissingLoops, CancelLoops, Stop
  <2>2. loops[g[1]] # NULL
    BY <2>1, ConstantsAssumption
  <2> QED BY <1>2, <2>1, <2>2 DEF StopMissingLoops, RoundInv
<1>3. CASE Return
  BY <1>3 DEF Return, RoundInv
<1>4. CASE ~(UNCHANGED cancelled \/ StopMissingLoops \/ Return)
  <2>1. cancelled' \subseteq cancelled
    BY <1>4
    DEF Next, vars, run, probes, Round, ProbeLoop, ListServices, ListFails, ProbeService,
        ReadFails, NextRound, Probe, CutProbe, RecordProbe, Rest, Elapse, Quit, Interrupt,
        Restart, PatchCdns, AddDomain, DeleteDomain, DeleteService, Edit
  <2> QED BY <2>1
<1> QED BY <1>2, <1>3, <1>4, <1>1

(* A query that fails stops no loop: a round that is not the last cancels  *)
(* a loop only when at some time since it read the services the tables did *)
(* not ask for its target (preserveExistingLoops, monitor.go:46-70,        *)
(* 92-113).                                                                *)
THEOREM NothingElseIsStopped == Spec => OnlyGoneAreStopped
<1>1. Init => RoundInv
  BY DEF Init, RoundInv
<1> QED
  BY <1>1, InitType, NextType, NextRoundInv, StopsGone, PTL DEF Spec, OnlyGoneAreStopped
=============================================================================
