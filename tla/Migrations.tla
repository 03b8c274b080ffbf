----------------------------- MODULE Migrations -----------------------------
(***************************************************************************)
(* How the programs bring the schema up: runMigrations of                  *)
(* internal/db/open.go and Ready of internal/db/ready.go, for processes    *)
(* that start together, of which some may embed fewer files than others.   *)
(*                                                                         *)
(* The files are numbers, in the order of their names.  The bodies are     *)
(* plain CREATE statements: one waits for an open transaction that creates *)
(* the same tables and fails when they exist.  The advisory lock belongs   *)
(* to a session; when the session ends, the pool opens another one and the *)
(* process goes on without the lock.                                       *)
(***************************************************************************)
EXTENDS Integers, FiniteSets, FiniteSetsExt

CONSTANTS
  Processes,
  Embedded,   \* the number of files in each process's binary
  Existing,   \* files whose tables exist at the start and are not recorded
  MaxFaults,  \* bound on failures
  NULL

ASSUME MigrationsAssumption ==
  /\ Embedded \in [Processes -> Nat]
  /\ Existing \subseteq Nat
  /\ MaxFaults \in Nat
  /\ NULL \notin Processes

VARIABLES
  tables,    \* files whose tables are in the schema
  recorded,  \* schema_migrations
  holder,    \* the process whose session holds the advisory lock
  pc,        \* where each process is in Open
  left,      \* files its loop still has to apply
  faults

vars == <<tables, recorded, holder, pc, left, faults>>

Files(p) == 1 .. Embedded[p]

Init ==
  /\ tables = Existing
  /\ recorded = {}
  /\ holder = NULL
  /\ pc = [p \in Processes |-> "start"]
  /\ left = [p \in Processes |-> {}]
  /\ faults = 0

Fault == faults < MaxFaults /\ faults' = faults + 1

At(p, from, to) == pc[p] = from /\ pc' = [pc EXCEPT ![p] = to]

\* The session of p ends, or p unlocks in it; without the lock it is a warning.
Release(p) == holder' = IF holder = p THEN NULL ELSE holder

\* Faulty: pg_try_advisory_lock, with its answer ignored.
TryLock(p) == holder' = IF holder = NULL THEN p ELSE holder

\* pg_advisory_lock
TakeLock(p) == holder = NULL /\ holder' = p

AcquireLock(p) ==
  /\ At(p, "start", "list")
  /\ TakeLock(p)
  /\ UNCHANGED <<tables, recorded, left, faults>>

\* SELECT version: the loop will skip these files.
ListApplied(p) ==
  /\ At(p, "list", "apply")
  /\ left' = [left EXCEPT ![p] = Files(p) \ recorded]
  /\ UNCHANGED <<tables, recorded, holder, faults>>

File(p) == Min(left[p])

\* A transaction of another process that has created the same tables.
Blocked(p) == \E q \in Processes \ {p} : pc[q] = "commit" /\ File(q) = File(p)

\* The body of the next file, at the start of its transaction.
CreateTables(p) ==
  /\ left[p] # {}
  /\ ~Blocked(p)
  /\ File(p) \notin tables
  /\ At(p, "apply", "commit")
  /\ UNCHANGED <<tables, recorded, holder, left, faults>>

\* Faulty: the file is not recorded.
CommitTables(p) ==
  /\ tables' = tables \cup {File(p)}
  /\ UNCHANGED recorded

\* INSERT INTO schema_migrations and COMMIT: both changes, or neither.
Commit(p) ==
  /\ tables' = tables \cup {File(p)}
  /\ recorded' = recorded \cup {File(p)}

ApplyMigration(p) ==
  /\ At(p, "commit", "apply")
  /\ Commit(p)
  /\ left' = [left EXCEPT ![p] = @ \ {File(p)}]
  /\ UNCHANGED <<holder, faults>>

\* Faulty: the unlock runs on another session of the pool.
UnlockElsewhere(p) ==
  /\ left[p] = {}
  /\ At(p, "apply", "serving")
  /\ UNCHANGED <<tables, recorded, holder, left, faults>>

\* The deferred unlock, on the session that took the lock.
Unlock(p) ==
  /\ left[p] = {}
  /\ At(p, "apply", "serving")
  /\ Release(p)
  /\ UNCHANGED <<tables, recorded, left, faults>>

-----------------------------------------------------------------------------
(* Failures                                                                *)

\* The tables exist: rollback, unlock, conn.Close, and main ends the process.
BodyFails(p) ==
  /\ left[p] # {}
  /\ ~Blocked(p)
  /\ File(p) \in tables
  /\ At(p, "apply", "dead")
  /\ Release(p)
  /\ UNCHANGED <<tables, recorded, left, faults>>

\* The process dies or a statement fails; the server ends the session.
Crash(p) ==
  /\ Fault
  /\ pc[p] # "dead"
  /\ pc' = [pc EXCEPT ![p] = "dead"]
  /\ Release(p)
  /\ UNCHANGED <<tables, recorded, left>>

\* COMMIT is done, and its answer lost: applyMigration returns the error.
LosesCommit(p) ==
  /\ Fault
  /\ At(p, "commit", "dead")
  /\ Commit(p)
  /\ Release(p)
  /\ UNCHANGED left

\* An idle session ends on the server: database/sql discards it, and the next
\* statement opens another.
LosesSession(p) ==
  /\ Fault
  /\ pc[p] \in {"list", "apply"}
  /\ Release(p)
  /\ UNCHANGED <<tables, recorded, pc, left>>

\* Whoever runs the programs starts them again.
Restart(p) ==
  /\ At(p, "dead", "start")
  /\ UNCHANGED <<tables, recorded, holder, left, faults>>

-----------------------------------------------------------------------------
\* Open: one statement after the other.
Open(p) ==
  \/ AcquireLock(p)
  \/ ListApplied(p)
  \/ CreateTables(p)
  \/ ApplyMigration(p)
  \/ Unlock(p)

Next ==
  \E p \in Processes :
    \/ Open(p)
    \/ BodyFails(p)
    \/ Crash(p)
    \/ LosesCommit(p)
    \/ LosesSession(p)
    \/ Restart(p)

Spec == Init /\ [][Next]_vars

\* Statements end, in commit or in an error, a process that ended is started
\* again, and PostgreSQL hands the lock to those that wait for it in turn.
FairSpec ==
  /\ Spec
  /\ \A p \in Processes :
       /\ SF_vars(AcquireLock(p))
       /\ WF_vars(Open(p) \/ BodyFails(p))
       /\ WF_vars(Restart(p))

-----------------------------------------------------------------------------
(* Properties                                                              *)

Points == {"start", "list", "apply", "commit", "serving", "dead"}

TypeOK ==
  /\ tables \subseteq Nat
  /\ recorded \subseteq Nat
  /\ holder \in Processes \cup {NULL}
  /\ pc \in [Processes -> Points]
  /\ left \in [Processes -> SUBSET Nat]
  /\ \A p \in Processes : left[p] \subseteq Files(p)
  /\ \A p \in Processes : pc[p] = "commit" => left[p] # {}
  /\ faults \in 0 .. MaxFaults

\* Ready: every embedded file is recorded.
Ready(p) == Files(p) \subseteq recorded

Prefix(S) == \A v \in S : 1 .. v \subseteq S

\* Whichever processes die, lose their sessions or overlap: the files are
\* applied in the order of their names, and a file is recorded if and only if
\* its tables exist, so that a process that serves finds its schema.
SchemaInOrder ==
  /\ Prefix(recorded)
  /\ tables = recorded \cup Existing
  /\ \A p \in Processes : pc[p] = "serving" => Ready(p)

\* Processes that start together do not make one another fail: each starts at
\* the first attempt unless something breaks.
OnlyFaultsFail == faults = 0 => \A p \in Processes : pc[p] # "dead"

\* Every process serves in the end, and goes on to: no lock is left behind, and
\* a crash between two files is made up for at the next start.
Starts == \A p \in Processes : <>[](pc[p] = "serving" /\ Ready(p))
=============================================================================
