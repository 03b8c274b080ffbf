-------------------------- MODULE MigrationsProofs --------------------------
(***************************************************************************)
(* Proofs about Migrations for any set of processes, any binaries and any  *)
(* number of failures.                                                     *)
(***************************************************************************)
EXTENDS Migrations, WellFoundedInduction, TLAPS

-----------------------------------------------------------------------------
(* The next file. *)

\* A set of natural numbers that is not empty has a least element, its Min.
LEMMA MinOfNat ==
  ASSUME NEW S \in SUBSET Nat, S # {}
  PROVE  Min(S) \in S /\ \A v \in S : Min(S) <= v
<1> DEFINE Less == {ss \in Nat \X Nat : ss[1] < ss[2]}
<1>1. IsWellFoundedOn(Less, Nat)
  BY NatLessThanWellFounded, Zenon DEF OpToRel
<1>2. \A a, b \in Nat : a < b => <<a, b>> \in Less
  OBVIOUS
<1> HIDE DEF Less
<1>3. PICK m \in S : \A v \in S : ~(<<v, m>> \in Less)
  BY <1>1, WFMin, Zenon
<1>4. ASSUME NEW v \in S PROVE m <= v
  <2>1. v \in Nat /\ m \in Nat
    OBVIOUS
  <2>2. ~(v < m)
    BY <1>2, <1>3, <2>1, Zenon
  <2> QED BY <2>1, <2>2
<1> QED BY <1>3, <1>4 DEF Min

\* The file a loop is at is one of those left, and all before it are not left.
LEMMA NextFile ==
  ASSUME TypeOK, NEW p \in Processes, left[p] # {}
  PROVE  /\ File(p) \in left[p]
         /\ File(p) \in Files(p)
         /\ File(p) \in Nat
         /\ \A u \in 1 .. File(p) : u = File(p) \/ u \in Files(p) \ left[p]
<1>1. left[p] \in SUBSET Nat /\ left[p] \subseteq Files(p) /\ Embedded[p] \in Nat
  BY MigrationsAssumption DEF TypeOK
<1>2. File(p) \in left[p] /\ \A v \in left[p] : File(p) <= v
  BY <1>1, MinOfNat DEF File
<1>3. File(p) \in Files(p) /\ File(p) \in Nat
  BY <1>1, <1>2
<1>4. \A u \in 1 .. File(p) : u \in Files(p) /\ (u \in left[p] => u = File(p))
  BY <1>1, <1>2, <1>3 DEF Files
<1> QED BY <1>2, <1>3, <1>4

-----------------------------------------------------------------------------
(* Type correctness. *)

LEMMA InitType == Init => TypeOK
BY MigrationsAssumption DEF Init, TypeOK, Points

LEMMA NextType == TypeOK /\ [Next]_vars => TypeOK'
<1> SUFFICES ASSUME TypeOK, [Next]_vars PROVE TypeOK'
  OBVIOUS
<1> USE MigrationsAssumption
<1>0. CASE UNCHANGED vars
  BY <1>0 DEF vars, TypeOK
<1>1. ASSUME NEW p \in Processes, AcquireLock(p) PROVE TypeOK'
  BY <1>1 DEF TypeOK, AcquireLock, TakeLock, At, Points
<1>2. ASSUME NEW p \in Processes, ListApplied(p) PROVE TypeOK'
  BY <1>2 DEF TypeOK, ListApplied, At, Points, Files
<1>3. ASSUME NEW p \in Processes, CreateTables(p) PROVE TypeOK'
  BY <1>3 DEF TypeOK, CreateTables, At, Points
<1>4. ASSUME NEW p \in Processes, ApplyMigration(p) PROVE TypeOK'
  <2>1. left[p] # {}
    BY <1>4 DEF TypeOK, ApplyMigration, At
  <2> QED BY <1>4, <2>1, NextFile DEF TypeOK, ApplyMigration, Commit, At, Points
<1>5. ASSUME NEW p \in Processes, Unlock(p) PROVE TypeOK'
  BY <1>5 DEF TypeOK, Unlock, Release, At, Points
<1>6. ASSUME NEW p \in Processes, BodyFails(p) PROVE TypeOK'
  BY <1>6 DEF TypeOK, BodyFails, Release, At, Points
<1>7. ASSUME NEW p \in Processes, Crash(p) PROVE TypeOK'
  BY <1>7 DEF TypeOK, Crash, Fault, Release, Points
<1>8. ASSUME NEW p \in Processes, LosesCommit(p) PROVE TypeOK'
  <2>1. left[p] # {}
    BY <1>8 DEF TypeOK, LosesCommit, At
  <2>2. tables' \subseteq Nat /\ recorded' \subseteq Nat
    BY <1>8, <2>1, NextFile DEF TypeOK, LosesCommit, Commit
  <2> QED BY <1>8, <2>2 DEF TypeOK, LosesCommit, Fault, Release, At, Points, Files
<1>9. ASSUME NEW p \in Processes, LosesSession(p) PROVE TypeOK'
  BY <1>9 DEF TypeOK, LosesSession, Fault, Release
<1>10. ASSUME NEW p \in Processes, Restart(p) PROVE TypeOK'
  BY <1>10 DEF TypeOK, Restart, At, Points
<1> QED
  BY <1>0, <1>1, <1>2, <1>3, <1>4, <1>5, <1>6, <1>7, <1>8, <1>9, <1>10 DEF Next, Open

THEOREM TypeCorrect == Spec => []TypeOK
BY InitType, NextType, PTL DEF Spec

-----------------------------------------------------------------------------
(* The order of the files. *)

\* What a loop has passed is recorded, with the lock or without it.
Passed ==
  \A p \in Processes :
    pc[p] \in {"apply", "commit"} => Files(p) \ left[p] \subseteq recorded

OrderInv == SchemaInOrder /\ Passed

\* A committed file extends the prefix that is recorded.
LEMMA CommitOrder ==
  ASSUME TypeOK, OrderInv, NEW p \in Processes, pc[p] = "commit", Commit(p)
  PROVE  /\ Prefix(recorded)'
         /\ tables' = recorded' \cup Existing
         /\ recorded \subseteq recorded'
         /\ File(p) \in recorded'
<1>1. left[p] # {}
  BY DEF TypeOK
<1>2. \A u \in 1 .. File(p) : u \in recorded'
  BY <1>1, NextFile DEF OrderInv, Passed, Commit
<1>3. ASSUME NEW v \in recorded' PROVE 1 .. v \subseteq recorded'
  BY <1>2, <1>3 DEF OrderInv, SchemaInOrder, Prefix, Commit
<1> QED
  BY <1>3 DEF OrderInv, SchemaInOrder, Prefix, Commit

\* Where nothing is written, only the places of the processes matter.
LEMMA QuietOrder ==
  ASSUME TypeOK, OrderInv, UNCHANGED <<tables, recorded>>,
         \A p \in Processes : pc'[p] = "serving" => Ready(p),
         \A p \in Processes : pc'[p] \in {"apply", "commit"} => Files(p) \ left'[p] \subseteq recorded
  PROVE  OrderInv'
BY DEF OrderInv, SchemaInOrder, Passed, Prefix, Ready, Files

LEMMA NextOrder == TypeOK /\ OrderInv /\ [Next]_vars => OrderInv'
<1> SUFFICES ASSUME TypeOK, OrderInv, [Next]_vars PROVE OrderInv'
  OBVIOUS
<1>0. CASE UNCHANGED vars
  BY <1>0, QuietOrder DEF vars, OrderInv, SchemaInOrder, Passed
<1>1. ASSUME NEW p \in Processes, AcquireLock(p) PROVE OrderInv'
  BY <1>1, QuietOrder DEF TypeOK, AcquireLock, At, OrderInv, SchemaInOrder, Passed
<1>2. ASSUME NEW p \in Processes, ListApplied(p) PROVE OrderInv'
  BY <1>2, QuietOrder DEF TypeOK, ListApplied, At, OrderInv, SchemaInOrder, Passed
<1>3. ASSUME NEW p \in Processes, CreateTables(p) PROVE OrderInv'
  BY <1>3, QuietOrder DEF TypeOK, CreateTables, At, OrderInv, SchemaInOrder, Passed
<1>4. ASSUME NEW p \in Processes, ApplyMigration(p) PROVE OrderInv'
  <2>1. /\ Prefix(recorded)'
        /\ tables' = recorded' \cup Existing
        /\ recorded \subseteq recorded'
        /\ File(p) \in recorded'
    BY <1>4, CommitOrder DEF ApplyMigration, At
  <2>2. \A q \in Processes : (pc[q] = "serving" => Ready(q))'
    BY <1>4, <2>1 DEF TypeOK, ApplyMigration, At, OrderInv, SchemaInOrder, Ready, Files
  <2>3. Passed'
    BY <1>4, <2>1 DEF TypeOK, ApplyMigration, At, OrderInv, Passed, Files
  <2> QED BY <2>1, <2>2, <2>3 DEF OrderInv, SchemaInOrder
<1>5. ASSUME NEW p \in Processes, Unlock(p) PROVE OrderInv'
  <2>1. Ready(p)
    BY <1>5 DEF Unlock, At, OrderInv, Passed, Ready
  <2> QED
    BY <1>5, <2>1, QuietOrder DEF TypeOK, Unlock, At, OrderInv, SchemaInOrder, Passed
<1>6. ASSUME NEW p \in Processes, BodyFails(p) PROVE OrderInv'
  BY <1>6, QuietOrder DEF TypeOK, BodyFails, At, OrderInv, SchemaInOrder, Passed
<1>7. ASSUME NEW p \in Processes, Crash(p) PROVE OrderInv'
  BY <1>7, QuietOrder DEF TypeOK, Crash, OrderInv, SchemaInOrder, Passed
<1>8. ASSUME NEW p \in Processes, LosesCommit(p) PROVE OrderInv'
  <2>1. /\ Prefix(recorded)'
        /\ tables' = recorded' \cup Existing
        /\ recorded \subseteq recorded'
    BY <1>8, CommitOrder DEF LosesCommit, At
  <2>2. \A q \in Processes : (pc[q] = "serving" => Ready(q))'
    BY <1>8, <2>1 DEF TypeOK, LosesCommit, At, OrderInv, SchemaInOrder, Ready, Files
  <2>3. Passed'
    BY <1>8, <2>1 DEF TypeOK, LosesCommit, At, OrderInv, Passed, Files
  <2> QED BY <2>1, <2>2, <2>3 DEF OrderInv, SchemaInOrder
<1>9. ASSUME NEW p \in Processes, LosesSession(p) PROVE OrderInv'
  BY <1>9, QuietOrder DEF LosesSession, OrderInv, SchemaInOrder, Passed
<1>10. ASSUME NEW p \in Processes, Restart(p) PROVE OrderInv'
  BY <1>10, QuietOrder DEF TypeOK, Restart, At, OrderInv, SchemaInOrder, Passed
<1> QED
  BY <1>0, <1>1, <1>2, <1>3, <1>4, <1>5, <1>6, <1>7, <1>8, <1>9, <1>10 DEF Next, Open

(* The files are applied in order and recorded exactly when their tables   *)
(* exist, and a process that serves finds its schema: runMigrations keeps  *)
(* it whatever fails, and also when the advisory lock is lost on the way   *)
(* (open.go:32-110, ready.go:14-69).                                       *)
THEOREM InOrder == Spec => []SchemaInOrder
<1>1. Init => OrderInv
  BY DEF Init, OrderInv, SchemaInOrder, Passed, Prefix
<1>2. OrderInv => SchemaInOrder
  BY DEF OrderInv
<1> QED BY <1>1, <1>2, InitType, NextType, NextOrder, PTL DEF Spec

-----------------------------------------------------------------------------
(* The lock. *)

Migrating(p) == pc[p] \in {"list", "apply", "commit"}

\* Without a fault, whoever migrates holds the lock, and what is left to it is
\* what is not recorded yet.
LockInv ==
  faults = 0 =>
    \A p \in Processes :
      /\ pc[p] # "dead"
      /\ Migrating(p) => holder = p
      /\ pc[p] \in {"apply", "commit"} => left[p] = Files(p) \ recorded

LEMMA NextLock ==
  Existing = {} /\ TypeOK /\ OrderInv /\ LockInv /\ [Next]_vars => LockInv'
<1> SUFFICES ASSUME Existing = {}, TypeOK, OrderInv, LockInv, [Next]_vars, faults' = 0
             PROVE  LockInv'
  BY DEF LockInv
<1> USE MigrationsAssumption
<1>0. CASE UNCHANGED vars
  BY <1>0 DEF vars, LockInv, Migrating, Files
<1>1. ASSUME NEW p \in Processes, AcquireLock(p) PROVE LockInv'
  BY <1>1 DEF TypeOK, AcquireLock, TakeLock, At, LockInv, Migrating, Files
<1>2. ASSUME NEW p \in Processes, ListApplied(p) PROVE LockInv'
  BY <1>2 DEF TypeOK, ListApplied, At, LockInv, Migrating, Files
<1>3. ASSUME NEW p \in Processes, CreateTables(p) PROVE LockInv'
  BY <1>3 DEF TypeOK, CreateTables, At, LockInv, Migrating, Files
<1>4. ASSUME NEW p \in Processes, ApplyMigration(p) PROVE LockInv'
  <2>1. \A q \in Processes \ {p} : ~Migrating(q)
    BY <1>4 DEF ApplyMigration, At, LockInv, Migrating
  <2>2. left'[p] = Files(p) \ recorded'
    BY <1>4 DEF TypeOK, ApplyMigration, Commit, At, LockInv, Files
  <2> QED BY <1>4, <2>1, <2>2 DEF TypeOK, ApplyMigration, At, LockInv, Migrating, Files
<1>5. ASSUME NEW p \in Processes, Unlock(p) PROVE LockInv'
  <2>1. \A q \in Processes \ {p} : ~Migrating(q)
    BY <1>5 DEF Unlock, At, LockInv, Migrating
  <2> QED BY <1>5, <2>1 DEF TypeOK, Unlock, At, LockInv, Migrating, Files
<1>6. ASSUME NEW p \in Processes, BodyFails(p) PROVE LockInv'
  <2>1. faults = 0 /\ pc[p] = "apply" /\ left[p] # {} /\ File(p) \in tables
    BY <1>6 DEF BodyFails, At
  <2>2. File(p) \in recorded
    BY <2>1 DEF OrderInv, SchemaInOrder
  <2>3. File(p) \notin recorded
    BY <2>1, NextFile DEF LockInv
  <2> QED BY <2>2, <2>3
<1>7. ASSUME NEW p \in Processes, Crash(p) PROVE LockInv'
  BY <1>7 DEF Crash, Fault, TypeOK
<1>8. ASSUME NEW p \in Processes, LosesCommit(p) PROVE LockInv'
  BY <1>8 DEF LosesCommit, Fault, TypeOK
<1>9. ASSUME NEW p \in Processes, LosesSession(p) PROVE LockInv'
  BY <1>9 DEF LosesSession, Fault, TypeOK
<1>10. ASSUME NEW p \in Processes, Restart(p) PROVE LockInv'
  BY <1>10 DEF Restart, At, LockInv
<1> QED
  BY <1>0, <1>1, <1>2, <1>3, <1>4, <1>5, <1>6, <1>7, <1>8, <1>9, <1>10 DEF Next, Open

(* On a database without tables of its own, processes that start together  *)
(* never make one another fail: the advisory lock keeps the list of a      *)
(* process true until it has applied what it found missing                 *)
(* (open.go:34-42, 51-89).                                                 *)
THEOREM NobodyFailsAlone == ASSUME Existing = {} PROVE Spec => []OnlyFaultsFail
<1>1. Init => OrderInv /\ LockInv
  BY DEF Init, OrderInv, SchemaInOrder, Passed, Prefix, LockInv, Migrating
<1>2. LockInv => OnlyFaultsFail
  BY DEF LockInv, OnlyFaultsFail
<1>3. TypeOK /\ OrderInv /\ LockInv /\ [Next]_vars => LockInv'
  BY NextLock
<1> QED BY <1>1, <1>2, <1>3, InitType, NextType, NextOrder, PTL DEF Spec
=============================================================================
