--------------------------- MODULE BillingProofs ---------------------------
(***************************************************************************)
(* What holds of internal/billing/engine.go.  Of Billing, for any workers, *)
(* services, snapshots, rates and policies: the type invariant, that no    *)
(* snapshot is billed twice, that a line states the bytes stored when it   *)
(* is committed, one factor an invoice, credits that stay right, and that  *)
(* locked runs implement the atomic runs of Ledger.                        *)
(* Of CoverageRatio, for any window and any storms: that the merge is      *)
(* right, and that its result is the coverage Billing reads.               *)
(***************************************************************************)
EXTENDS Billing, CoverageRatio, FiniteSetTheorems, SequenceTheorems, TLAPS

LEMMA RoundedNat ==
  ASSUME NEW n \in Nat, NEW d \in Nat \ {0}
  PROVE  Rounded(n, d) \in Nat
<1>. DEFINE N == 2 * n + d
            D == 2 * d
<1>1. N \in Nat /\ D \in Nat /\ D > 0
  OBVIOUS
<1>2. N \div D \in Nat
  <2>. HIDE DEF N, D
  <2>. QED BY <1>1
<1>. QED BY <1>2 DEF Rounded

LEMMA ChargeNat ==
  ASSUME NEW b \in Bytes
  PROVE  chargeForBytes(b) \in Nat
<1>1. b * CentsPerGB \in Nat
  BY AmountsAssumption
<1>. QED BY <1>1, RoundedNat, AmountsAssumption DEF chargeForBytes

LEMMA CoveredNat ==
  ASSUME NEW s \in Snaps
  PROVE  Covered(s) \in Nat
<1>. DEFINE W == Window[s].start .. Window[s].end - 1
            C == {t \in W : \E st \in storms[Window[s].service] : ActiveAt(st, t)}
<1>1. IsFiniteSet(W)
  <2>1. Window[s].start \in Int /\ Window[s].end - 1 \in Int
    BY WindowAssumption
  <2>. QED BY <2>1, FS_Interval
<1>2. C \subseteq W
  OBVIOUS
<1>3. IsFiniteSet(C)
  <2>. HIDE DEF W, C
  <2>. QED BY <1>1, <1>2, FS_Subset
<1>4. Cardinality(C) \in Nat
  <2>. HIDE DEF W, C
  <2>. QED BY <1>3, FS_CardinalityType
<1>. QED BY <1>4 DEF Covered, CoveredTime

LEMMA DiscountBounds ==
  ASSUME NEW s \in Snaps, NEW p \in Bytes, NEW b \in Bytes, NEW c \in Nat, NEW f \in Nat
  PROVE  /\ Discount(p, b, c, f, Window[s].end - Window[s].start) \in Nat
         /\ Discount(p, b, c, f, Window[s].end - Window[s].start)
              <= chargeForBytes(p) + chargeForBytes(b)
<1>. DEFINE D == Window[s].end - Window[s].start
            N == chargeForBytes(b) * DiscountPct * c * f
<1>1. D \in Nat \ {0}
  BY WindowAssumption
<1>2. N \in Nat
  <2>1. chargeForBytes(b) * DiscountPct \in Nat
    BY ChargeNat, AmountsAssumption
  <2>2. chargeForBytes(b) * DiscountPct * c \in Nat
    BY <2>1
  <2>. QED BY <2>2
<1>3. Rounded(N, 10000 * D) \in Nat
  <2>1. 10000 * D \in Nat \ {0}
    BY <1>1
  <2>. HIDE DEF D, N
  <2>. QED BY <1>2, <2>1, RoundedNat
<1>4. chargeForBytes(p) + chargeForBytes(b) \in Nat
  BY ChargeNat
<1>5. Discount(p, b, c, f, D) = Least(Rounded(N, 10000 * D), chargeForBytes(p) + chargeForBytes(b))
  BY DEF Discount
<1>. HIDE DEF D, N
<1>6. /\ Discount(p, b, c, f, D) \in Nat
      /\ Discount(p, b, c, f, D) <= chargeForBytes(p) + chargeForBytes(b)
  BY <1>3, <1>4, <1>5 DEF Least
<1>. QED BY <1>6 DEF D

LEMMA LineItemType ==
  ASSUME NEW c \in Reading, NEW f \in Factors
  PROVE  LineItem(c, f) \in Item
<1>1. /\ c.row.snap \in Snaps /\ c.row.primary \in Bytes /\ c.row.backup \in Bytes
      /\ c.covered \in Nat /\ c.settled \in BOOLEAN /\ f \in Nat
  BY AmountsAssumption DEF Reading, Read
<1>2. chargeForBytes(c.row.primary) + chargeForBytes(c.row.backup) \in Nat
  BY <1>1, ChargeNat
<1>3. Discount(c.row.primary, c.row.backup, c.covered, f,
               Window[c.row.snap].end - Window[c.row.snap].start) \in Nat
  BY <1>1, DiscountBounds
<1>. QED BY <1>1, <1>2, <1>3 DEF LineItem, Item

LEMMA FactorType ==
  ASSUME TypeOK, NEW w \in Workers, NEW v \in Services
  PROVE  maxCoverageFactor(w, v) \in Factors
BY DEF TypeOK, maxCoverageFactor

-----------------------------------------------------------------------------
\* What a run has read of a snapshot is what the table holds.
Stored(r) == r.primary = row[r.snap].primary /\ r.backup = row[r.snap].backup

(* What the row locks give: workers hold different snapshots, a held       *)
(* snapshot has no invoice, and every held snapshot is in one place of its *)
(* run, with the bytes the table holds.  BilledOnce and BillsStoredBytes   *)
(* are not inductive without it (engine.go:58-61).                         *)
Locking ==
  /\ \A u, w \in Workers : u # w => held[u] \cap held[w] = {}
  /\ \A w \in Workers :
       /\ \A s \in held[w] : row[s] \in SnapRow /\ row[s].invoice = NULL
       /\ \A r \in todo[w] : r.snap \in held[w] /\ Stored(r)
       /\ pc[w] = "factor" =>
            /\ current[w].row.snap \in held[w]
            /\ Stored(current[w].row)
            /\ \A r \in todo[w] : r.snap # current[w].row.snap
            /\ \A i \in build[w] : i.snap # current[w].row.snap
       /\ \A i \in build[w] :
            /\ i.snap \in held[w]
            /\ Stored(i)
            /\ \A j \in build[w] : j.snap = i.snap => j = i
            /\ \A r \in todo[w] : r.snap # i.snap

IInv == TypeOK /\ Locking /\ BilledOnce

LEMMA InitIInv == Init => IInv
BY BoundsAssumption DEF Init, IInv, TypeOK, Locking, BilledOnce, LinesOf, Invoiced

\* Each step keeps the type: the worker's steps.
LEMMA WorkerTypeOK ==
  ASSUME TypeOK, Locking, NEW w \in Workers, WorkerStep(w) \/ Abort(w)
  PROVE  TypeOK'
<1>. USE DEF TypeOK, tables
<1>1. CASE Begin(w)
  BY <1>1 DEF Begin
<1>2. CASE LockUnbilled(w)
  <2>1. PICK busy \in SUBSET Inserting :
          LET free == {s \in Unbilled(now[w]) : /\ ~Locked(Window[s].service)
                                                /\ Window[s].service \notin busy}
          IN  /\ held' = [held EXCEPT ![w] = @ \cup free]
              /\ todo' = [todo EXCEPT ![w] = {AsRead(s) : s \in free}]
              /\ pc' = [pc EXCEPT ![w] = IF free = {} THEN "idle" ELSE "storms"]
    BY <1>2 DEF LockUnbilled
  <2>. DEFINE free == {s \in Unbilled(now[w]) : /\ ~Locked(Window[s].service)
                                                /\ Window[s].service \notin busy}
  <2>2. free \subseteq {s \in Snaps : row[s] # NULL}
    BY DEF Unbilled
  <2>3. {AsRead(s) : s \in free} \in SUBSET Read
    <3>1. \A s \in free : row[s] \in SnapRow
      BY <2>2
    <3>. HIDE DEF free
    <3>. QED BY <2>2, <3>1 DEF AsRead, Read, SnapRow
  <2>4. /\ held' = [held EXCEPT ![w] = @ \cup free]
        /\ todo' = [todo EXCEPT ![w] = {AsRead(s) : s \in free}]
        /\ pc' = [pc EXCEPT ![w] = IF free = {} THEN "idle" ELSE "storms"]
    BY <2>1
  <2>5. /\ cache' = [cache EXCEPT ![w] = {}]
        /\ pc[w] = "lock"
        /\ UNCHANGED <<tables, write, clock, upserts, faults, now, current, build>>
    BY <1>2 DEF LockUnbilled
  <2>. HIDE DEF free
  <2>6. free \subseteq Snaps
    BY <2>2
  <2>7. /\ held' \in [Workers -> SUBSET Snaps]
        /\ todo' \in [Workers -> SUBSET Read]
        /\ pc' \in [Workers -> {"idle", "lock", "storms", "factor", "commit"}]
        /\ cache' \in [Workers -> SUBSET (Services \X Factors)]
    BY <2>3, <2>4, <2>5, <2>6
  <2>8. ASSUME NEW u \in Workers
        PROVE  /\ pc'[u] \in {"idle", "lock"} => held'[u] = {} /\ todo'[u] = {} /\ build'[u] = {}
               /\ pc'[u] = "commit" => todo'[u] = {}
               /\ IF pc'[u] = "factor" THEN current'[u] \in Reading ELSE current'[u] = NULL
    <3>1. CASE u = w
      BY <3>1, <2>4, <2>5
    <3>2. CASE u # w
      BY <3>2, <2>4, <2>5
    <3>. QED BY <3>1, <3>2
  <2>. QED BY <2>5, <2>7, <2>8
<1>3. CASE ReadStorms(w)
  <2>1. PICK r \in todo[w] :
          /\ todo' = [todo EXCEPT ![w] = @ \ {r}]
          /\ current' = [current EXCEPT ![w] =
               [row     |-> r,
                covered |-> Covered(r.snap),
                settled |-> write[Window[r.snap].service] = NULL]]
    BY <1>3 DEF ReadStorms
  <2>2. r \in Read
    OBVIOUS
  <2>3. current'[w] \in Reading
    <3>1. r.snap \in Snaps
      BY <2>2 DEF Read
    <3>2. Covered(r.snap) \in Nat
      BY <3>1, CoveredNat
    <3>. QED BY <2>1, <2>2, <3>2 DEF Reading
  <2>4. /\ todo' \in [Workers -> SUBSET Read]
        /\ current' \in [Workers -> Reading \cup {NULL}]
    <3>1. todo' \in [Workers -> SUBSET Read]
      BY <2>1
    <3>2. ASSUME NEW u \in Workers
          PROVE  current'[u] \in Reading \cup {NULL}
      BY <2>1, <2>3
    <3>. QED BY <2>1, <3>1, <3>2
  <2>5. ASSUME NEW u \in Workers
        PROVE  /\ pc'[u] \in {"idle", "lock"} => held'[u] = {} /\ todo'[u] = {} /\ build'[u] = {}
               /\ pc'[u] = "commit" => todo'[u] = {}
               /\ IF pc'[u] = "factor" THEN current'[u] \in Reading ELSE current'[u] = NULL
    <3>1. CASE u = w
      BY <3>1, <1>3, <2>3 DEF ReadStorms
    <3>2. CASE u # w
      BY <3>2, <1>3, <2>1 DEF ReadStorms
    <3>. QED BY <3>1, <3>2
  <2>. QED BY <1>3, <2>4, <2>5 DEF ReadStorms
<1>4. CASE BillSnapshot(w)
  <2>. DEFINE v == Window[current[w].row.snap].service
              f == maxCoverageFactor(w, v)
  <2>1. current[w] \in Reading
    BY <1>4 DEF BillSnapshot
  <2>2. v \in Services
    BY <2>1, WindowAssumption DEF Reading, Read
  <2>3. f \in Factors
    BY <2>2, FactorType
  <2>4. LineItem(current[w], f) \in Item
    BY <2>1, <2>3, LineItemType
  <2>5. /\ cache' = [cache EXCEPT ![w] = @ \cup {<<v, f>>}]
        /\ build' = [build EXCEPT ![w] = @ \cup {LineItem(current[w], f)}]
    BY <1>4 DEF BillSnapshot
  <2>. HIDE DEF v, f
  <2>6. /\ cache' \in [Workers -> SUBSET (Services \X Factors)]
        /\ build' \in [Workers -> SUBSET Item]
    BY <2>2, <2>3, <2>4, <2>5
  <2>7. ASSUME NEW u \in Workers
        PROVE  /\ pc'[u] \in {"idle", "lock"} => held'[u] = {} /\ todo'[u] = {} /\ build'[u] = {}
               /\ pc'[u] = "commit" => todo'[u] = {}
               /\ IF pc'[u] = "factor" THEN current'[u] \in Reading ELSE current'[u] = NULL
    <3>1. CASE u = w
      BY <3>1, <1>4, <2>5 DEF BillSnapshot
    <3>2. CASE u # w
      BY <3>2, <1>4, <2>5 DEF BillSnapshot
    <3>. QED BY <3>1, <3>2
  <2>. QED BY <1>4, <2>6, <2>7 DEF BillSnapshot
<1>5. CASE Commit(w)
  <2>1. Invoicing(w) \subseteq [invoice : Nat \X Nat, item : Item]
    BY CustomerAssumption, WindowAssumption DEF Invoicing, InvoiceId, Customer, Item
  <2>2. lines' \subseteq [invoice : Nat \X Nat, item : Item]
    BY <1>5, <2>1 DEF Commit
  <2>3. row' \in [Snaps -> SnapRow \cup {NULL}]
    <3>1. ASSUME NEW s \in Snaps, s \in Billed(w)
          PROVE  [row[s] EXCEPT !.invoice = InvoiceId(batches + 1, Customer(s))]
                   \in SnapRow \cup {NULL}
      <4>1. row[s] \in SnapRow
        BY <3>1 DEF Billed, Locking
      <4>2. InvoiceId(batches + 1, Customer(s)) \in Nat \X Nat
        BY CustomerAssumption, WindowAssumption DEF InvoiceId, Customer
      <4>. QED BY <4>1, <4>2 DEF SnapRow
    <3>. QED BY <1>5, <3>1 DEF Commit
  <2>4. /\ held' = [held EXCEPT ![w] = {}]
        /\ build' = [build EXCEPT ![w] = {}]
        /\ pc' = [pc EXCEPT ![w] = "idle"]
        /\ batches' = batches + 1
        /\ pc[w] = "commit"
        /\ UNCHANGED <<storms, write, factor, clock, upserts, faults, now, todo, current, cache>>
    BY <1>5 DEF Commit, world
  <2>5. todo[w] = {}
    BY <2>4
  <2>6. ASSUME NEW u \in Workers
        PROVE  /\ pc'[u] \in {"idle", "lock"} => held'[u] = {} /\ todo'[u] = {} /\ build'[u] = {}
               /\ pc'[u] = "commit" => todo'[u] = {}
               /\ IF pc'[u] = "factor" THEN current'[u] \in Reading ELSE current'[u] = NULL
    <3>1. CASE u = w
      BY <3>1, <2>4, <2>5
    <3>2. CASE u # w
      BY <3>2, <2>4
    <3>. QED BY <3>1, <3>2
  <2>. QED BY <2>2, <2>3, <2>4, <2>6
<1>6. CASE Abort(w)
  BY <1>6 DEF Abort
<1>. QED BY <1>1, <1>2, <1>3, <1>4, <1>5, <1>6 DEF WorkerStep

EnvironmentStep ==
  \/ \E s \in Snaps : UpsertUsageSnapshot(s)
  \/ \E v \in Services : StampStart(v) \/ StampEnd(v) \/ LandWrite(v) \/ LoseWrite(v) \/ EditPolicy(v)
  \/ Advance

LEMMA EnvironmentTypeOK ==
  ASSUME TypeOK, EnvironmentStep
  PROVE  TypeOK'
<1>. USE DEF TypeOK, tables, locals
<1>1. ASSUME NEW s \in Snaps, UpsertUsageSnapshot(s)
      PROVE  TypeOK'
  <2>1. PICK p \in Bytes, b \in Bytes :
          row' = [row EXCEPT ![s] =
            [primary |-> p, backup |-> b, invoice |-> IF row[s] = NULL THEN NULL ELSE row[s].invoice]]
    BY <1>1 DEF UpsertUsageSnapshot, InvoiceKept
  <2>2. [primary |-> p, backup |-> b, invoice |-> IF row[s] = NULL THEN NULL ELSE row[s].invoice] \in SnapRow
    BY DEF SnapRow
  <2>3. row' \in [Snaps -> SnapRow \cup {NULL}]
    BY <2>1, <2>2
  <2>. QED BY <1>1, <2>3 DEF UpsertUsageSnapshot, InvoiceKept
<1>2. ASSUME NEW v \in Services, StampStart(v)
      PROVE  TypeOK'
  BY <1>2 DEF StampStart, Storm
<1>3. ASSUME NEW v \in Services, StampEnd(v)
      PROVE  TypeOK'
  <2>1. PICK st \in ActiveStorms(v) : write' = [write EXCEPT ![v] = [st EXCEPT !.ended = clock]]
    BY <1>3 DEF StampEnd
  <2>2. [st EXCEPT !.ended = clock] \in Storm
    BY DEF ActiveStorms, Storm
  <2>3. write' \in [Services -> Storm \cup {NULL}]
    BY <2>1, <2>2
  <2>. QED BY <1>3, <2>3 DEF StampEnd
<1>4. ASSUME NEW v \in Services, LandWrite(v)
      PROVE  TypeOK'
  <2>1. write[v] \in Storm
    BY <1>4 DEF LandWrite
  <2>2. storms' \in [Services -> SUBSET Storm]
    BY <1>4, <2>1 DEF LandWrite, ActiveStorms
  <2>. QED BY <1>4, <2>2 DEF LandWrite
<1>5. ASSUME NEW v \in Services, LoseWrite(v)
      PROVE  TypeOK'
  BY <1>5 DEF LoseWrite
<1>6. ASSUME NEW v \in Services, EditPolicy(v)
      PROVE  TypeOK'
  BY <1>6 DEF EditPolicy
<1>7. CASE Advance
  BY <1>7 DEF Advance
<1>. QED BY <1>1, <1>2, <1>3, <1>4, <1>5, <1>6, <1>7 DEF EnvironmentStep

-----------------------------------------------------------------------------
(* The locks.                                                              *)

\* Locking of one worker.
LockingOf(w) ==
  /\ \A s \in held[w] : row[s] \in SnapRow /\ row[s].invoice = NULL
  /\ \A r \in todo[w] : r.snap \in held[w] /\ Stored(r)
  /\ pc[w] = "factor" =>
       /\ current[w].row.snap \in held[w]
       /\ Stored(current[w].row)
       /\ \A r \in todo[w] : r.snap # current[w].row.snap
       /\ \A i \in build[w] : i.snap # current[w].row.snap
  /\ \A i \in build[w] :
       /\ i.snap \in held[w]
       /\ Stored(i)
       /\ \A j \in build[w] : j.snap = i.snap => j = i
       /\ \A r \in todo[w] : r.snap # i.snap

LEMMA LockingParts ==
  Locking <=> /\ \A u, w \in Workers : u # w => held[u] \cap held[w] = {}
              /\ \A w \in Workers : LockingOf(w)
BY DEF Locking, LockingOf

LEMMA LockingPartsNext ==
  Locking' <=> /\ \A u, w \in Workers : u # w => held'[u] \cap held'[w] = {}
               /\ \A w \in Workers : LockingOf(w)'
BY DEF Locking, LockingOf

\* A step that keeps the rows a worker holds and its locals keeps its part.
LEMMA LockingFrame ==
  ASSUME Locking, NEW u \in Workers,
         held'[u] = held[u], todo'[u] = todo[u], current'[u] = current[u],
         build'[u] = build[u], pc'[u] = pc[u],
         \A s \in held[u] : row'[s] = row[s]
  PROVE  LockingOf(u)'
BY DEF Locking, LockingOf, Stored

\* A worker that holds nothing and has nothing to bill.
LEMMA LockingIdle ==
  ASSUME NEW u \in Workers,
         held'[u] = {}, todo'[u] = {}, build'[u] = {}, pc'[u] # "factor"
  PROVE  LockingOf(u)'
BY DEF LockingOf

LEMMA WorkerLocking ==
  ASSUME TypeOK, Locking, NEW w \in Workers, WorkerStep(w) \/ Abort(w)
  PROVE  Locking'
<1>1. CASE Begin(w)
  <2>1. ASSUME NEW u \in Workers PROVE LockingOf(u)'
    <3>1. CASE u = w
      BY <3>1, <1>1, LockingIdle DEF Begin, TypeOK
    <3>2. CASE u # w
      BY <3>2, <1>1, LockingFrame DEF Begin, TypeOK, tables
    <3>. QED BY <3>1, <3>2
  <2>2. held' = held
    BY <1>1 DEF Begin
  <2>. QED BY <2>1, <2>2, LockingParts, LockingPartsNext
<1>2. CASE LockUnbilled(w)
  <2>1. PICK busy \in SUBSET Inserting :
          LET free == {s \in Unbilled(now[w]) : /\ ~Locked(Window[s].service)
                                                /\ Window[s].service \notin busy}
          IN  /\ held' = [held EXCEPT ![w] = @ \cup free]
              /\ todo' = [todo EXCEPT ![w] = {AsRead(s) : s \in free}]
              /\ pc' = [pc EXCEPT ![w] = IF free = {} THEN "idle" ELSE "storms"]
    BY <1>2 DEF LockUnbilled
  <2>. DEFINE free == {s \in Unbilled(now[w]) : /\ ~Locked(Window[s].service)
                                                /\ Window[s].service \notin busy}
  <2>2. \A s \in free : s \in Snaps /\ row[s] # NULL /\ row[s].invoice = NULL
    BY DEF Unbilled
  <2>3. \A s \in free : \A u \in Workers : s \notin held[u]
    BY DEF Locked
  <2>4. /\ held' = [held EXCEPT ![w] = @ \cup free]
        /\ todo' = [todo EXCEPT ![w] = {AsRead(s) : s \in free}]
        /\ pc' = [pc EXCEPT ![w] = IF free = {} THEN "idle" ELSE "storms"]
    BY <2>1
  <2>5. /\ pc[w] = "lock"
        /\ UNCHANGED <<row, current, build>>
    BY <1>2 DEF LockUnbilled, tables
  <2>. HIDE DEF free
  <2>6. /\ held[w] = {} /\ build[w] = {}
        /\ held'[w] = free /\ todo'[w] = {AsRead(s) : s \in free} /\ build'[w] = {}
        /\ pc'[w] # "factor"
    BY <2>4, <2>5 DEF TypeOK
  <2>7. \A s \in free : row[s] \in SnapRow
    BY <2>2 DEF TypeOK
  <2>8. \A r \in todo'[w] : r.snap \in held'[w] /\ Stored(r)'
    BY <2>5, <2>6 DEF AsRead, Stored
  <2>9. LockingOf(w)'
    BY <2>2, <2>5, <2>6, <2>7, <2>8 DEF LockingOf
  <2>10. ASSUME NEW u \in Workers, u # w PROVE LockingOf(u)'
    BY <2>10, <2>4, <2>5, LockingFrame DEF TypeOK
  <2>11. ASSUME NEW u \in Workers, NEW v \in Workers, u # v
         PROVE  held'[u] \cap held'[v] = {}
    BY <2>11, <2>3, <2>4, <2>6 DEF Locking, TypeOK
  <2>. QED BY <2>9, <2>10, <2>11, LockingPartsNext
<1>3. CASE ReadStorms(w)
  <2>1. PICK r \in todo[w] :
          /\ todo' = [todo EXCEPT ![w] = @ \ {r}]
          /\ current' = [current EXCEPT ![w] =
               [row     |-> r,
                covered |-> Covered(r.snap),
                settled |-> write[Window[r.snap].service] = NULL]]
    BY <1>3 DEF ReadStorms
  <2>2. /\ todo'[w] = todo[w] \ {r} /\ current'[w].row = r
        /\ held' = held /\ build' = build /\ row' = row
    BY <1>3, <2>1 DEF ReadStorms, TypeOK, tables
  <2>3. \A q \in todo'[w] : q.snap # r.snap
    <3>1. \A q \in todo[w] : q \in Read
      BY DEF TypeOK
    <3>2. \A q \in todo[w] : q.snap = r.snap => q.primary = r.primary /\ q.backup = r.backup
      BY DEF Locking, Stored
    <3>3. \A q \in todo[w] : q.snap = r.snap => q = r
      BY <3>1, <3>2 DEF Read
    <3>. QED BY <2>2, <3>3
  <2>4. LockingOf(w)'
    BY <2>2, <2>3 DEF Locking, LockingOf, Stored
  <2>5. ASSUME NEW u \in Workers, u # w PROVE LockingOf(u)'
    BY <2>5, <1>3, <2>1, <2>2, LockingFrame DEF ReadStorms, TypeOK
  <2>. QED BY <2>2, <2>4, <2>5, LockingParts, LockingPartsNext
<1>4. CASE BillSnapshot(w)
  <2>. DEFINE v == Window[current[w].row.snap].service
              f == maxCoverageFactor(w, v)
              i == LineItem(current[w], f)
  <2>1. build' = [build EXCEPT ![w] = @ \cup {i}]
    BY <1>4 DEF BillSnapshot
  <2>2. /\ i.snap = current[w].row.snap
        /\ i.primary = current[w].row.primary
        /\ i.backup = current[w].row.backup
    BY DEF LineItem
  <2>3. /\ pc[w] = "factor" /\ pc'[w] # "factor"
        /\ held' = held /\ todo' = todo /\ row' = row
        /\ current' = [current EXCEPT ![w] = NULL]
        /\ pc' = [pc EXCEPT ![w] = IF todo[w] = {} THEN "commit" ELSE "storms"]
    BY <1>4 DEF BillSnapshot, TypeOK, tables
  <2>. HIDE DEF i
  <2>4. build'[w] = build[w] \cup {i}
    BY <2>1 DEF TypeOK
  <2>5. /\ i.snap \in held[w] /\ Stored(i)
        /\ \A r \in todo[w] : r.snap # i.snap
        /\ \A j \in build[w] : j.snap # i.snap
    BY <2>2, <2>3 DEF Locking, Stored
  <2>6. LockingOf(w)'
    BY <2>3, <2>4, <2>5 DEF Locking, LockingOf, Stored
  <2>7. ASSUME NEW u \in Workers, u # w PROVE LockingOf(u)'
    BY <2>7, <2>1, <2>3, LockingFrame DEF TypeOK
  <2>. QED BY <2>3, <2>6, <2>7, LockingParts, LockingPartsNext
<1>5. CASE Commit(w)
  <2>1. /\ held' = [held EXCEPT ![w] = {}] /\ build' = [build EXCEPT ![w] = {}]
        /\ pc' = [pc EXCEPT ![w] = "idle"] /\ todo' = todo /\ current' = current
        /\ pc[w] = "commit"
    BY <1>5 DEF Commit
  <2>2. LockingOf(w)'
    BY <2>1, LockingIdle DEF TypeOK
  <2>3. Billed(w) \subseteq held[w]
    BY DEF Billed, Locking
  <2>4. ASSUME NEW u \in Workers, u # w PROVE LockingOf(u)'
    <3>1. \A s \in held[u] : s \in Snaps /\ s \notin Billed(w)
      BY <2>3, <2>4 DEF Locking, TypeOK
    <3>2. \A s \in held[u] : row'[s] = row[s]
      BY <1>5, <3>1 DEF Commit
    <3>. QED BY <2>1, <2>4, <3>2, LockingFrame DEF TypeOK
  <2>5. \A u \in Workers : held'[u] \subseteq held[u]
    BY <2>1 DEF TypeOK
  <2>. QED BY <2>2, <2>4, <2>5, LockingParts, LockingPartsNext
<1>6. CASE Abort(w)
  <2>1. /\ held' = [held EXCEPT ![w] = {}] /\ build' = [build EXCEPT ![w] = {}]
        /\ pc' = [pc EXCEPT ![w] = "idle"] /\ todo' = [todo EXCEPT ![w] = {}]
        /\ current' = [current EXCEPT ![w] = NULL] /\ row' = row
    BY <1>6 DEF Abort, tables
  <2>2. LockingOf(w)'
    BY <2>1, LockingIdle DEF TypeOK
  <2>3. ASSUME NEW u \in Workers, u # w PROVE LockingOf(u)'
    BY <2>1, <2>3, LockingFrame DEF TypeOK
  <2>4. \A u \in Workers : held'[u] \subseteq held[u]
    BY <2>1 DEF TypeOK
  <2>. QED BY <2>2, <2>3, <2>4, LockingParts, LockingPartsNext
<1>. QED BY <1>1, <1>2, <1>3, <1>4, <1>5, <1>6 DEF WorkerStep

LEMMA EnvironmentLocking ==
  ASSUME TypeOK, Locking, EnvironmentStep
  PROVE  Locking'
<1>1. UNCHANGED locals
  BY DEF EnvironmentStep, UpsertUsageSnapshot, StampStart, StampEnd, LandWrite, LoseWrite,
         EditPolicy, Advance
<1>2. ASSUME NEW u \in Workers, NEW s \in held[u]
      PROVE  row'[s] = row[s]
  <2>1. ASSUME NEW t \in Snaps, UpsertUsageSnapshot(t)
        PROVE  row'[s] = row[s]
    <3>1. row[s] # NULL
      BY NullAssumption, NoRowAssumption DEF Locking
    <3>2. s # t
      BY <2>1, <3>1 DEF UpsertUsageSnapshot, InvoiceKept, Locked
    <3>. QED BY <2>1, <3>2 DEF UpsertUsageSnapshot, InvoiceKept, TypeOK
  <2>2. CASE UNCHANGED row
    BY <2>2
  <2>. QED BY <2>1, <2>2 DEF EnvironmentStep, StampStart, StampEnd, LandWrite, LoseWrite,
                             EditPolicy, Advance, tables
<1>3. ASSUME NEW u \in Workers PROVE LockingOf(u)'
  BY <1>1, <1>2, LockingFrame DEF locals
<1>. QED BY <1>1, <1>3, LockingParts, LockingPartsNext DEF locals

-----------------------------------------------------------------------------
(* Billing.                                                                *)

\* What a commit adds to the line items of a snapshot.
LEMMA CommittedLines ==
  ASSUME TypeOK, Locking, NEW w \in Workers, Commit(w), NEW s \in Snaps
  PROVE  /\ s \notin Billed(w) => row'[s] = row[s] /\ LinesOf(s)' = LinesOf(s)
         /\ s \in Billed(w) =>
              /\ row[s] \in SnapRow
              /\ row[s].invoice = NULL
              /\ row'[s] \in SnapRow
              /\ row'[s].invoice = InvoiceId(batches + 1, Customer(s))
              /\ \E l : /\ l.invoice = InvoiceId(batches + 1, Customer(s))
                        /\ l \in lines'
                        /\ LinesOf(s)' = LinesOf(s) \cup {l}
<1>1. /\ lines' = lines \cup Invoicing(w)
      /\ row'[s] = IF s \in Billed(w)
                   THEN [row[s] EXCEPT !.invoice = InvoiceId(batches + 1, Customer(s))]
                   ELSE row[s]
  BY DEF Commit
<1>2. CASE s \notin Billed(w)
  <2>1. \A l \in Invoicing(w) : l.item.snap # s
    BY <1>2 DEF Invoicing, Billed
  <2>2. LinesOf(s)' = LinesOf(s)
    BY <1>1, <2>1 DEF LinesOf
  <2>. QED BY <1>1, <1>2, <2>2
<1>3. CASE s \in Billed(w)
  <2>1. PICK i \in build[w] : i.snap = s
    BY <1>3 DEF Billed
  <2>2. \A j \in build[w] : j.snap = s => j = i
    BY <2>1 DEF Locking
  <2>3. row[s] \in SnapRow /\ row[s].invoice = NULL
    BY <2>1 DEF Locking
  <2>4. row'[s] \in SnapRow /\ row'[s].invoice = InvoiceId(batches + 1, Customer(s))
    <3>1. InvoiceId(batches + 1, Customer(s)) \in Nat \X Nat
      BY CustomerAssumption, WindowAssumption DEF InvoiceId, Customer, TypeOK
    <3>. QED BY <1>1, <1>3, <2>3, <3>1 DEF SnapRow
  <2>. DEFINE l == [invoice |-> InvoiceId(batches + 1, Customer(i.snap)), item |-> i]
  <2>5. l \in Invoicing(w)
    BY DEF Invoicing
  <2>6. \A k \in Invoicing(w) : k.item.snap = s => k = l
    BY <2>2 DEF Invoicing
  <2>7. l.item.snap = s /\ l.invoice = InvoiceId(batches + 1, Customer(s))
    BY <2>1
  <2>. HIDE DEF l
  <2>8. LinesOf(s)' = LinesOf(s) \cup {l}
    BY <1>1, <2>5, <2>6, <2>7 DEF LinesOf
  <2>. QED BY <1>1, <1>3, <2>3, <2>4, <2>5, <2>7, <2>8
<1>. QED BY <1>2, <1>3

LEMMA StepBilledOnce ==
  ASSUME TypeOK, Locking, BilledOnce, Next
  PROVE  BilledOnce'
<1>1. ASSUME NEW w \in Workers, Commit(w)
      PROVE  BilledOnce'
  <2>1. ASSUME NEW s \in Snaps, s \notin Billed(w)
        PROVE  IF Invoiced(s)'
               THEN \E l \in lines' : LinesOf(s)' = {l} /\ l.invoice = row'[s].invoice
               ELSE LinesOf(s)' = {}
    <3>1. row'[s] = row[s] /\ LinesOf(s)' = LinesOf(s) /\ lines \subseteq lines'
      BY <1>1, <2>1, CommittedLines DEF Commit
    <3>. QED BY <3>1 DEF BilledOnce, Invoiced
  <2>2. ASSUME NEW s \in Snaps, s \in Billed(w)
        PROVE  IF Invoiced(s)'
               THEN \E l \in lines' : LinesOf(s)' = {l} /\ l.invoice = row'[s].invoice
               ELSE LinesOf(s)' = {}
    <3>1. LinesOf(s) = {}
      BY <1>1, <2>2, CommittedLines DEF BilledOnce, Invoiced
    <3>2. \E l \in lines' : LinesOf(s)' = {l} /\ l.invoice = row'[s].invoice
      BY <1>1, <2>2, <3>1, CommittedLines
    <3>3. Invoiced(s)'
      <4>1. row'[s] # NULL
        BY <1>1, <2>2, CommittedLines, NullAssumption, NoRowAssumption
      <4>2. row'[s].invoice # NULL
        <5>1. InvoiceId(batches + 1, Customer(s)) \in Nat \X Nat
          BY CustomerAssumption, WindowAssumption DEF InvoiceId, Customer, TypeOK
        <5>. QED BY <1>1, <2>2, <5>1, CommittedLines, NullAssumption, NoRowAssumption
      <4>. QED BY <4>1, <4>2 DEF Invoiced
    <3>. QED BY <3>2, <3>3
  <2>. QED BY <2>1, <2>2 DEF BilledOnce
<1>2. ASSUME NEW s \in Snaps, UpsertUsageSnapshot(s)
      PROVE  BilledOnce'
  <2>1. lines' = lines
    BY <1>2 DEF UpsertUsageSnapshot, InvoiceKept
  <2>2. \A t \in Snaps : t # s => row'[t] = row[t]
    BY <1>2 DEF UpsertUsageSnapshot, InvoiceKept, TypeOK
  <2>3. row[s] = NULL => row'[s].invoice = NULL
    BY <1>2 DEF UpsertUsageSnapshot, InvoiceKept, TypeOK
  <2>4. row[s] # NULL => row'[s].invoice = row[s].invoice
    BY <1>2 DEF UpsertUsageSnapshot, InvoiceKept, TypeOK
  <2>5. row'[s] # NULL
    <3>1. PICK p \in Bytes, b \in Bytes :
            row' = [row EXCEPT ![s] =
              [primary |-> p, backup |-> b, invoice |-> IF row[s] = NULL THEN NULL ELSE row[s].invoice]]
      BY <1>2 DEF UpsertUsageSnapshot, InvoiceKept
    <3>2. row'[s] \in SnapRow
      BY <3>1 DEF TypeOK, SnapRow
    <3>. QED BY <3>2, NullAssumption, NoRowAssumption
  <2>. QED BY <2>1, <2>2, <2>3, <2>4, <2>5 DEF BilledOnce, LinesOf, Invoiced
<1>3. CASE UNCHANGED <<row, lines>>
  BY <1>3 DEF BilledOnce, LinesOf, Invoiced
<1>. QED BY <1>1, <1>2, <1>3 DEF Next, WorkerStep, Begin, LockUnbilled, ReadStorms, BillSnapshot,
            Abort, StampStart, StampEnd, LandWrite, LoseWrite, EditPolicy, Advance, tables

LEMMA StepIInv ==
  ASSUME IInv, [Next]_vars
  PROVE  IInv'
<1>1. CASE Next
  <2>1. TypeOK'
    BY <1>1, WorkerTypeOK, EnvironmentTypeOK DEF IInv, Next, EnvironmentStep
  <2>2. Locking'
    BY <1>1, WorkerLocking, EnvironmentLocking DEF IInv, Next, EnvironmentStep
  <2>3. BilledOnce'
    BY <1>1, StepBilledOnce DEF IInv
  <2>. QED BY <2>1, <2>2, <2>3 DEF IInv
<1>2. CASE UNCHANGED vars
  BY <1>2 DEF IInv, vars, TypeOK, Locking, Stored, BilledOnce, LinesOf, Invoiced
<1>. QED BY <1>1, <1>2

THEOREM Invariance == Spec => []IInv
BY InitIInv, StepIInv, PTL DEF Spec

(* The type invariant, for any workers, windows, rates and policies        *)
(* (engine.go:49-188).                                                     *)
THEOREM TypeCorrect == Spec => []TypeOK
<1>1. IInv => TypeOK
  BY DEF IInv
<1>. QED BY <1>1, Invariance, PTL

(* No worker ever bills a snapshot twice, and no invoiced snapshot is      *)
(* without its line, for any number of workers (engine.go:58-61, 133-177). *)
THEOREM NeverDoubleBills == Spec => []BilledOnce
<1>1. IInv => BilledOnce
  BY DEF IInv
<1>. QED BY <1>1, Invariance, PTL

\* BillsStoredBytes of one step.
StoredBytesStep ==
  \A l \in lines' \ lines :
    /\ row[l.item.snap] # NULL
    /\ l.item.primary = row[l.item.snap].primary
    /\ l.item.backup = row[l.item.snap].backup

(* What is invoiced is what the table holds when the invoice is committed, *)
(* for any number of workers and any metering (engine.go:117-126, 175).    *)
THEOREM StoredBytesBilled == Spec => BillsStoredBytes
<1>1. ASSUME IInv, [Next]_vars
      PROVE  StoredBytesStep
  <2>1. ASSUME NEW w \in Workers, Commit(w)
        PROVE  StoredBytesStep
    <3>1. SUFFICES ASSUME NEW l \in Invoicing(w)
                   PROVE  /\ row[l.item.snap] # NULL
                          /\ l.item.primary = row[l.item.snap].primary
                          /\ l.item.backup = row[l.item.snap].backup
      BY <2>1 DEF Commit, StoredBytesStep
    <3>2. l.item \in build[w]
      BY DEF Invoicing
    <3>3. l.item.snap \in held[w] /\ Stored(l.item)
      BY <1>1, <3>2 DEF IInv, Locking
    <3>4. row[l.item.snap] \in SnapRow
      BY <1>1, <3>3 DEF IInv, Locking
    <3>. QED BY <3>3, <3>4, NullAssumption, NoRowAssumption DEF Stored
  <2>2. CASE lines' = lines
    BY <2>2 DEF StoredBytesStep
  <2>. QED BY <1>1, <2>1, <2>2 DEF vars, Next, WorkerStep, Begin, LockUnbilled, ReadStorms,
              BillSnapshot, Abort, UpsertUsageSnapshot, StampStart, StampEnd, LandWrite,
              LoseWrite, EditPolicy, Advance, tables
<1>2. [][StoredBytesStep]_vars => BillsStoredBytes
  BY PTL DEF StoredBytesStep, BillsStoredBytes
<1>. QED BY <1>1, <1>2, Invariance, PTL DEF Spec

-----------------------------------------------------------------------------
(* Factors and clamps.                                                     *)

(* A run has one factor for a service in its cache and bills with no       *)
(* other, every line it builds is clamped, and an invoice carries the      *)
(* number of its run.  OneFactorPerInvoice is not inductive without it,    *)
(* and the ledger's bills rest on it (engine.go:93-97, 190-204).           *)
Priced ==
  /\ \A l \in lines : l.invoice[1] <= batches
  /\ \A w \in Workers :
       /\ \A e, g \in cache[w] : e[1] = g[1] => e = g
       /\ \A i \in build[w] :
            /\ i.discount <= i.amount
            /\ <<Window[i.snap].service, i.factor>> \in cache[w]

PricedInv == Priced /\ OneFactorPerInvoice

LEMMA DiscountClamped ==
  ASSUME NEW c \in Reading, NEW f \in Factors
  PROVE  LineItem(c, f).discount <= LineItem(c, f).amount
<1>1. /\ c.row.snap \in Snaps /\ c.row.primary \in Bytes /\ c.row.backup \in Bytes
      /\ c.covered \in Nat /\ f \in Nat
  BY AmountsAssumption DEF Reading, Read
<1>. QED BY <1>1, DiscountBounds DEF LineItem

\* What BillSnapshot adds to the cache is what it holds of the service already.
LEMMA FactorCached ==
  ASSUME TypeOK, Priced, NEW w \in Workers, NEW v \in Services,
         NEW e \in cache[w], e[1] = v
  PROVE  e = <<v, maxCoverageFactor(w, v)>>
<1>1. e \in Services \X Factors
  BY DEF TypeOK
<1>2. <<v, e[2]>> \in cache[w] /\ e[2] \in Factors
  BY <1>1
<1>3. <<v, maxCoverageFactor(w, v)>> \in cache[w]
  BY <1>2 DEF maxCoverageFactor
<1>. QED BY <1>3 DEF Priced

LEMMA InitPriced == Init => PricedInv
BY DEF Init, PricedInv, Priced, OneFactorPerInvoice

LEMMA StepPriced ==
  ASSUME TypeOK, PricedInv, Next
  PROVE  PricedInv'
<1>. USE DEF PricedInv
<1>1. ASSUME NEW w \in Workers, LockUnbilled(w)
      PROVE  PricedInv'
  <2>1. /\ cache' = [cache EXCEPT ![w] = {}]
        /\ build[w] = {}
        /\ UNCHANGED <<lines, batches, build>>
    BY <1>1 DEF LockUnbilled, TypeOK, tables
  <2>2. Priced'
    BY <2>1 DEF Priced, TypeOK
  <2>. QED BY <2>1, <2>2 DEF OneFactorPerInvoice
<1>2. ASSUME NEW w \in Workers, BillSnapshot(w)
      PROVE  PricedInv'
  <2>. DEFINE v == Window[current[w].row.snap].service
              f == maxCoverageFactor(w, v)
              i == LineItem(current[w], f)
  <2>1. current[w] \in Reading
    BY <1>2 DEF BillSnapshot, TypeOK
  <2>2. v \in Services
    BY <2>1, WindowAssumption DEF Reading, Read
  <2>3. f \in Factors
    BY <2>2, FactorType
  <2>4. i.discount <= i.amount
    <3>. HIDE DEF f
    <3>. QED BY <2>1, <2>3, DiscountClamped
  <2>5. Window[i.snap].service = v /\ i.factor = f
    BY DEF LineItem
  <2>6. \A e \in cache[w] : e[1] = v => e = <<v, f>>
    BY <2>2, FactorCached
  <2>7. /\ cache' = [cache EXCEPT ![w] = @ \cup {<<v, f>>}]
        /\ build' = [build EXCEPT ![w] = @ \cup {i}]
        /\ UNCHANGED <<lines, batches>>
    BY <1>2 DEF BillSnapshot, tables
  <2>. HIDE DEF v, f, i
  <2>8. Priced'
    <3>1. ASSUME NEW u \in Workers
          PROVE  /\ \A e, g \in cache'[u] : e[1] = g[1] => e = g
                 /\ \A j \in build'[u] :
                      /\ j.discount <= j.amount
                      /\ <<Window[j.snap].service, j.factor>> \in cache'[u]
      <4>1. CASE u = w
        <5>1. cache'[u] = cache[w] \cup {<<v, f>>} /\ build'[u] = build[w] \cup {i}
          BY <2>7, <4>1 DEF TypeOK
        <5>. QED BY <2>4, <2>5, <2>6, <5>1 DEF Priced
      <4>2. CASE u # w
        <5>1. cache'[u] = cache[u] /\ build'[u] = build[u]
          BY <2>7, <4>2 DEF TypeOK
        <5>. QED BY <5>1 DEF Priced
      <4>. QED BY <4>1, <4>2
    <3>. QED BY <2>7, <3>1 DEF Priced
  <2>. QED BY <2>7, <2>8 DEF OneFactorPerInvoice
<1>3. ASSUME NEW w \in Workers, Commit(w)
      PROVE  PricedInv'
  <2>1. /\ batches' = batches + 1
        /\ lines' = lines \cup Invoicing(w)
        /\ build' = [build EXCEPT ![w] = {}]
        /\ cache' = cache
    BY <1>3 DEF Commit
  <2>2. \A l \in Invoicing(w) : l.item \in build[w] /\ l.invoice[1] = batches + 1
    BY DEF Invoicing, InvoiceId
  <2>3. \A l \in lines : l.invoice[1] \in Nat /\ l.invoice[1] <= batches
    BY DEF Priced, TypeOK
  <2>4. Priced'
    <3>1. \A l \in lines' : l.invoice[1] <= batches'
      BY <2>1, <2>2, <2>3 DEF TypeOK
    <3>. QED BY <2>1, <3>1 DEF Priced, TypeOK
  <2>5. OneFactorPerInvoice'
    <3>1. SUFFICES ASSUME NEW k \in lines', NEW l \in lines', k.invoice = l.invoice,
                          Window[k.item.snap].service = Window[l.item.snap].service
                   PROVE  k.item.factor = l.item.factor
      BY DEF OneFactorPerInvoice
    <3>2. CASE k \in Invoicing(w) /\ l \in Invoicing(w)
      BY <2>2, <3>1, <3>2 DEF Priced
    <3>3. CASE k \in lines /\ l \in lines
      BY <3>1, <3>3 DEF OneFactorPerInvoice
    <3>4. k \in lines <=> l \notin Invoicing(w)
      <4>1. \A m \in lines' : m \in lines <=> m.invoice[1] <= batches
        BY <2>1, <2>2, <2>3 DEF TypeOK
      <4>2. \A m \in lines' : m \in Invoicing(w) <=> ~ (m.invoice[1] <= batches)
        BY <2>1, <2>2, <2>3 DEF TypeOK
      <4>. QED BY <3>1, <4>1, <4>2
    <3>. QED BY <2>1, <3>2, <3>3, <3>4
  <2>. QED BY <2>4, <2>5
<1>4. ASSUME NEW w \in Workers, Abort(w)
      PROVE  PricedInv'
  <2>1. /\ build' = [build EXCEPT ![w] = {}]
        /\ UNCHANGED <<lines, batches, cache>>
    BY <1>4 DEF Abort, tables
  <2>2. Priced'
    BY <2>1 DEF Priced, TypeOK
  <2>. QED BY <2>1, <2>2 DEF OneFactorPerInvoice
<1>5. CASE UNCHANGED <<lines, batches, cache, build>>
  BY <1>5 DEF Priced, OneFactorPerInvoice
<1>. QED BY <1>1, <1>2, <1>3, <1>4, <1>5 DEF Next, WorkerStep, Begin, ReadStorms,
            UpsertUsageSnapshot, StampStart, StampEnd, LandWrite, LoseWrite, EditPolicy,
            Advance, tables, locals

LEMMA PricedInvariance == Spec => []PricedInv
<1>1. ASSUME IInv, PricedInv, [Next]_vars
      PROVE  PricedInv'
  <2>1. CASE Next
    BY <1>1, <2>1, StepPriced DEF IInv
  <2>2. CASE UNCHANGED vars
    BY <1>1, <2>2 DEF vars, PricedInv, Priced, OneFactorPerInvoice
  <2>. QED BY <1>1, <2>1, <2>2
<1>. QED BY <1>1, InitPriced, Invariance, PTL DEF Spec

(* All lines of a service on one invoice use one factor, whatever policies *)
(* change during the run, for any number of workers (engine.go:190-204).   *)
THEOREM OneFactor == Spec => []OneFactorPerInvoice
<1>1. PricedInv => OneFactorPerInvoice
  BY DEF PricedInv
<1>. QED BY <1>1, PricedInvariance, PTL

-----------------------------------------------------------------------------
(* The ledger.                                                             *)

\* A run commits something.
Built == \A w \in Workers : pc[w] = "commit" => build[w] # {}

LEMMA BuiltInvariance == Spec => []Built
<1>1. Init => Built
  BY DEF Init, Built
<1>2. ASSUME IInv, Built, [Next]_vars
      PROVE  Built'
  <2>1. ASSUME NEW w \in Workers, BillSnapshot(w)
        PROVE  Built'
    <3>1. \E i : build' = [build EXCEPT ![w] = @ \cup {i}]
      BY <2>1 DEF BillSnapshot
    <3>2. \A u \in Workers : u # w => pc'[u] = pc[u] /\ build'[u] = build[u]
      BY <1>2, <2>1, <3>1 DEF BillSnapshot, IInv, TypeOK
    <3>3. build'[w] # {}
      BY <1>2, <3>1 DEF IInv, TypeOK
    <3>. QED BY <1>2, <3>2, <3>3 DEF Built
  <2>2. ASSUME NEW w \in Workers, Begin(w) \/ LockUnbilled(w) \/ ReadStorms(w) \/ Commit(w) \/ Abort(w)
        PROVE  Built'
    <3>1. \A u \in Workers : u # w => pc'[u] = pc[u] /\ build'[u] = build[u]
      BY <1>2, <2>2 DEF Begin, LockUnbilled, ReadStorms, Commit, Abort, IInv, TypeOK
    <3>2. pc'[w] # "commit"
      BY <1>2, <2>2 DEF Begin, LockUnbilled, ReadStorms, Commit, Abort, IInv, TypeOK
    <3>. QED BY <1>2, <3>1, <3>2 DEF Built
  <2>3. CASE UNCHANGED <<pc, build>>
    BY <1>2, <2>3 DEF Built
  <2>. QED BY <1>2, <2>1, <2>2, <2>3 DEF Next, WorkerStep, UpsertUsageSnapshot, StampStart, StampEnd,
              LandWrite, LoseWrite, EditPolicy, Advance, locals, vars
<1>. QED BY <1>1, <1>2, Invariance, PTL DEF Spec

\* A line of a run bills its snapshot with the factor of its service.
LEMMA LineBills ==
  ASSUME IInv, PricedInv, NEW w \in Workers, NEW l \in Invoicing(w)
  PROVE  /\ l.item.snap \in Billed(w)
         /\ Promise!Bills(l, l.item.snap, maxCoverageFactor(w, Window[l.item.snap].service))
<1>1. PICK i \in build[w] : l = [invoice |-> InvoiceId(batches + 1, Customer(i.snap)), item |-> i]
  BY DEF Invoicing
<1>2. l.item = i /\ l.invoice = InvoiceId(batches + 1, Customer(i.snap)) /\ i \in Item
  BY <1>1 DEF IInv, TypeOK
<1>3. i.snap \in Snaps /\ Window[i.snap].service \in Services
  BY <1>2, WindowAssumption DEF Item
<1>4. Stored(i) /\ i.discount <= i.amount /\ <<Window[i.snap].service, i.factor>> \in cache[w]
  BY DEF IInv, Locking, PricedInv, Priced
<1>5. i.factor = maxCoverageFactor(w, Window[i.snap].service)
  <2>. DEFINE e == <<Window[i.snap].service, i.factor>>
  <2>1. e \in cache[w] /\ e[1] = Window[i.snap].service /\ e[2] = i.factor
    BY <1>4
  <2>. HIDE DEF e
  <2>2. e = <<Window[i.snap].service, maxCoverageFactor(w, Window[i.snap].service)>>
    BY <1>3, <2>1, FactorCached DEF IInv, PricedInv
  <2>. QED BY <2>1, <2>2
<1>6. l.invoice = Promise!InvoiceOf(i.snap)
  BY <1>2, <1>3 DEF Promise!InvoiceOf, InvoiceId
<1>. QED BY <1>2, <1>4, <1>5, <1>6 DEF Promise!Bills, Billed, Stored

LEMMA CommitBills ==
  ASSUME IInv, PricedInv, Built, NEW w \in Workers, Commit(w)
  PROVE  Promise!LedgerNext
<1>. DEFINE B == Billed(w)
<1>1. /\ batches' = batches + 1 /\ lines' = lines \cup Invoicing(w)
      /\ row' = [s \in Snaps |->
           IF s \in B THEN [row[s] EXCEPT !.invoice = InvoiceId(batches + 1, Customer(s))] ELSE row[s]]
      /\ build[w] # {}
  BY DEF Commit, Built
<1>2. \A i \in build[w] : i.snap \in held[w] /\ i.snap \in Snaps
  BY DEF IInv, TypeOK, Locking
<1>3. B \in (SUBSET Promise!Open) \ {{}}
  <2>1. \A s \in B : s \in Snaps /\ row[s] \in SnapRow /\ row[s].invoice = NULL
    BY <1>2 DEF Billed, IInv, Locking
  <2>2. B # {}
    BY <1>1 DEF Billed
  <2>. QED BY <2>1, <2>2, NoRowAssumption DEF Promise!Open
<1>4. row' = [s \in Snaps |->
        IF s \in B THEN [row[s] EXCEPT !.invoice = Promise!InvoiceOf(s)] ELSE row[s]]
  <2>1. \A s \in Snaps : Promise!InvoiceOf(s) = InvoiceId(batches + 1, Customer(s))
    BY DEF Promise!InvoiceOf, InvoiceId
  <2>. QED BY <1>1, <2>1
<1>5. \E f \in [Services -> Factors] :
        \A l \in lines' \ lines : \E s \in B :
          Promise!Bills(l, s, f[[t \in Snaps |-> Window[t].service][s]])
  <2>. DEFINE f == [v \in Services |-> maxCoverageFactor(w, v)]
  <2>1. f \in [Services -> Factors]
    BY FactorType DEF IInv
  <2>2. ASSUME NEW l \in lines' \ lines
        PROVE  \E s \in B : Promise!Bills(l, s, f[[t \in Snaps |-> Window[t].service][s]])
    <3>1. l \in Invoicing(w)
      BY <1>1
    <3>2. /\ l.item.snap \in B
          /\ Promise!Bills(l, l.item.snap, maxCoverageFactor(w, Window[l.item.snap].service))
      BY <3>1, LineBills
    <3>3. l.item.snap \in Snaps /\ Window[l.item.snap].service \in Services
      BY <1>2, <3>2, WindowAssumption DEF Billed
    <3>4. f[[t \in Snaps |-> Window[t].service][l.item.snap]]
            = maxCoverageFactor(w, Window[l.item.snap].service)
      BY <3>3
    <3>. QED BY <3>2, <3>4
  <2>. QED BY <2>1, <2>2
<1>6. ASSUME NEW s \in B
      PROVE  \E l \in lines' \ lines : \A k \in lines' \ lines : k.item.snap = s <=> k = l
  <2>1. PICK i \in build[w] : i.snap = s
    BY DEF Billed
  <2>. DEFINE l == [invoice |-> InvoiceId(batches + 1, Customer(i.snap)), item |-> i]
  <2>2. l \in Invoicing(w) /\ l.item.snap = s
    BY <2>1 DEF Invoicing
  <2>3. \A k \in Invoicing(w) : k.item.snap = s <=> k = l
    BY <2>1 DEF Invoicing, IInv, Locking
  <2>. HIDE DEF l
  <2>4. LinesOf(s) = {}
    <3>1. s \in Snaps /\ row[s].invoice = NULL
      BY <1>2, <2>1 DEF IInv, Locking
    <3>. QED BY <3>1 DEF IInv, BilledOnce, Invoiced
  <2>5. l \notin lines
    BY <2>2, <2>4 DEF LinesOf
  <2>. QED BY <1>1, <2>2, <2>3, <2>5
<1>7. lines \subseteq lines'
  BY <1>1
<1>. HIDE DEF B
<1>8. Promise!Bill(B)
  BY <1>1, <1>4, <1>5, <1>6, <1>7 DEF Promise!Bill
<1>. QED BY <1>3, <1>8 DEF Promise!LedgerNext

(* Billing implements the ledger: whatever number of workers overlap, fail  *)
(* and die, and whatever metering, probers and policy edits do meanwhile,   *)
(* a committed run is one atomic step that bills open snapshots once each   *)
(* (engine.go:49-188).                                                      *)
THEOREM ImplementsAtomicRuns == Spec => ImplementsLedger
<1>1. Init => Promise!LedgerInit
  BY DEF Init, Promise!LedgerInit
<1>2. ASSUME IInv, PricedInv, Built, [Next]_vars
      PROVE  [Promise!LedgerNext]_(Promise!ledgerVars)
  <2>1. ASSUME NEW w \in Workers, Commit(w)
        PROVE  Promise!LedgerNext
    BY <1>2, <2>1, CommitBills
  <2>2. ASSUME NEW s \in Snaps, UpsertUsageSnapshot(s)
        PROVE  Promise!LedgerNext
    <3>1. Promise!Meter(s)
      BY <2>2 DEF UpsertUsageSnapshot, InvoiceKept, Promise!Meter
    <3>. QED BY <3>1 DEF Promise!LedgerNext
  <2>3. CASE UNCHANGED <<row, lines, batches>>
    BY <2>3 DEF Promise!ledgerVars
  <2>. QED BY <1>2, <2>1, <2>2, <2>3 DEF Next, WorkerStep, Begin, LockUnbilled, ReadStorms, BillSnapshot,
              Abort, StampStart, StampEnd, LandWrite, LoseWrite, EditPolicy, Advance, tables, vars
<1>. QED BY <1>1, <1>2, Invariance, PricedInvariance, BuiltInvariance, PTL
         DEF Spec, ImplementsLedger, Promise!LedgerSpec

-----------------------------------------------------------------------------
(* Credits.                                                                *)

(* A prober writes what fits the storms stored: a start while none is      *)
(* active, or the end of the only one that is.                             *)
StormShape ==
  \A v \in Services :
    /\ \A st, other \in ActiveStorms(v) : st = other
    /\ write[v] # NULL /\ write[v].ended = NULL => ActiveStorms(v) = {}
    /\ write[v] # NULL /\ write[v].ended # NULL =>
         ActiveStorms(v) = {[write[v] EXCEPT !.ended = NULL]}

\* The window of s is over, also for the storm write that is on its way.
Over(s) ==
  LET wr == write[Window[s].service]
  IN  /\ Window[s].end <= clock
      /\ wr # NULL => Window[s].end <= IF wr.ended = NULL THEN wr.started ELSE wr.ended

\* What was read of the storms of s still holds, and no write can change it.
Credited(s, t) == Over(s) /\ t = Covered(s)

(* Every settled reading, of the run, of its line items and of the lines   *)
(* committed, is final.  CreditIsFinal is not inductive without it: it     *)
(* says nothing of what a run carries, nor of the writes that may still    *)
(* land (engine.go:58-61, 73-89).                                          *)
Settled ==
  /\ \A w \in Workers :
       /\ now[w] <= clock
       /\ \A s \in held[w] : Window[s].end <= clock
       /\ pc[w] = "factor" =>
            \A c \in Reading : c = current[w] /\ c.settled => Credited(c.row.snap, c.covered)
       /\ \A i \in build[w] : i.settled => Credited(i.snap, i.covered)
  /\ \A l \in lines : l.item.settled => Credited(l.item.snap, l.item.covered)

CreditInv == StormShape /\ Settled

LEMMA InitCredit == Init => CreditInv
<1>. SUFFICES ASSUME Init PROVE CreditInv
  OBVIOUS
<1>1. StormShape
  BY DEF Init, StormShape, ActiveStorms
<1>2. Settled
  BY DEF Init, Settled
<1>. QED BY <1>1, <1>2 DEF CreditInv

LEMMA StepStormShape ==
  ASSUME TypeOK, StormShape, Next
  PROVE  StormShape'
<1>1. ASSUME NEW v \in Services, StampStart(v)
      PROVE  StormShape'
  <2>1. /\ ActiveStorms(v) = {}
        /\ write' = [write EXCEPT ![v] = [started |-> clock, ended |-> NULL]]
        /\ storms' = storms
    BY <1>1 DEF StampStart, tables
  <2>. QED BY <2>1 DEF StormShape, ActiveStorms, TypeOK
<1>2. ASSUME NEW v \in Services, StampEnd(v)
      PROVE  StormShape'
  <2>1. PICK st \in ActiveStorms(v) : write' = [write EXCEPT ![v] = [st EXCEPT !.ended = clock]]
    BY <1>2 DEF StampEnd
  <2>2. st \in Storm /\ st.ended = NULL
    BY DEF ActiveStorms, TypeOK
  <2>3. storms' = storms
    BY <1>2 DEF StampEnd, tables
  <2>4. write'[v] = [started |-> st.started, ended |-> clock]
    BY <2>1, <2>2 DEF TypeOK, Storm
  <2>5. write'[v].ended # NULL /\ [write'[v] EXCEPT !.ended = NULL] = st
    BY <2>2, <2>4, NullAssumption, NoRowAssumption DEF TypeOK, Storm
  <2>6. ActiveStorms(v) = {st}
    BY DEF StormShape
  <2>7. ASSUME NEW u \in Services
        PROVE  /\ ActiveStorms(u)' = ActiveStorms(u)
               /\ u # v => write'[u] = write[u]
    BY <2>1, <2>3 DEF ActiveStorms, TypeOK
  <2>8. ASSUME NEW u \in Services
        PROVE  /\ \A a, b \in ActiveStorms(u)' : a = b
               /\ write'[u] # NULL /\ write'[u].ended = NULL => ActiveStorms(u)' = {}
               /\ write'[u] # NULL /\ write'[u].ended # NULL =>
                    ActiveStorms(u)' = {[write'[u] EXCEPT !.ended = NULL]}
    <3>1. CASE u = v
      BY <2>5, <2>6, <2>7, <3>1
    <3>2. CASE u # v
      BY <2>7, <3>2 DEF StormShape
    <3>. QED BY <3>1, <3>2
  <2>. QED BY <2>8 DEF StormShape
<1>3. ASSUME NEW v \in Services, LandWrite(v)
      PROVE  StormShape'
  <2>1. /\ write[v] # NULL
        /\ storms' = [storms EXCEPT ![v] = (@ \ ActiveStorms(v)) \cup {write[v]}]
        /\ write' = [write EXCEPT ![v] = NULL]
    BY <1>3 DEF LandWrite
  <2>2. ActiveStorms(v)' \subseteq {write[v]}
    BY <2>1 DEF ActiveStorms, TypeOK
  <2>3. ASSUME NEW u \in Services, u # v
        PROVE  ActiveStorms(u)' = ActiveStorms(u) /\ write'[u] = write[u]
    BY <2>1, <2>3 DEF ActiveStorms, TypeOK
  <2>4. write'[v] = NULL
    BY <2>1 DEF TypeOK
  <2>. QED BY <2>2, <2>3, <2>4 DEF StormShape
<1>4. ASSUME NEW v \in Services, LoseWrite(v)
      PROVE  StormShape'
  BY <1>4 DEF LoseWrite, StormShape, ActiveStorms, TypeOK, tables
<1>5. CASE UNCHANGED <<storms, write>>
  BY <1>5 DEF StormShape, ActiveStorms
<1>. QED BY <1>1, <1>2, <1>3, <1>4, <1>5 DEF Next, WorkerStep, Begin, LockUnbilled, ReadStorms,
            BillSnapshot, Commit, Abort, UpsertUsageSnapshot, EditPolicy, Advance, tables, world, locals

\* A write that is stamped after the window leaves its storm time alone.
LEMMA CoveredKept ==
  ASSUME TypeOK, StormShape, NEW s \in Snaps, Over(s), Next
  PROVE  Covered(s)' = Covered(s)
<1>. DEFINE v == Window[s].service
<1>1. v \in Services /\ Window[s].start \in Nat /\ Window[s].end \in Nat
  BY WindowAssumption
<1>2. CASE storms'[v] = storms[v]
  BY <1>2 DEF Covered, CoveredTime, ActiveAt
<1>3. CASE LandWrite(v)
  <2>1. /\ write[v] # NULL
        /\ storms'[v] = (storms[v] \ ActiveStorms(v)) \cup {write[v]}
    BY <1>1, <1>3 DEF LandWrite, TypeOK
  <2>2. write[v] \in Storm
    BY <1>1, <2>1 DEF TypeOK
  <2>3. ASSUME NEW t \in Window[s].start .. Window[s].end - 1
        PROVE  (\E st \in storms'[v] : ActiveAt(st, t)) <=> (\E st \in storms[v] : ActiveAt(st, t))
    <3>1. t \in Nat /\ t < Window[s].end
      BY <1>1
    <3>2. CASE write[v].ended = NULL
      <4>1. ~ActiveAt(write[v], t)
        BY <1>1, <2>1, <2>2, <3>1, <3>2 DEF Over, ActiveAt, Storm
      <4>2. ActiveStorms(v) = {}
        BY <1>1, <2>1, <3>2 DEF StormShape
      <4>. QED BY <2>1, <4>1, <4>2
    <3>3. CASE write[v].ended # NULL
      <4>. DEFINE st0 == [write[v] EXCEPT !.ended = NULL]
      <4>1. ActiveStorms(v) = {st0}
        BY <1>1, <2>1, <3>3 DEF StormShape
      <4>2. ActiveAt(write[v], t) <=> ActiveAt(st0, t)
        <5>1. Window[s].end <= write[v].ended /\ write[v].ended \in Nat
          BY <1>1, <2>1, <2>2, <3>3 DEF Over, Storm
        <5>2. t < write[v].ended
          BY <1>1, <3>1, <5>1
        <5>3. st0.started = write[v].started /\ st0.ended = NULL
          BY <2>2 DEF Storm
        <5>. HIDE DEF st0
        <5>. QED BY <5>2, <5>3 DEF ActiveAt
      <4>3. st0 \in storms[v]
        BY <4>1 DEF ActiveStorms
      <4>. HIDE DEF st0
      <4>. QED BY <2>1, <4>1, <4>2, <4>3
    <3>. QED BY <3>2, <3>3
  <2>. QED BY <2>3 DEF Covered, CoveredTime
<1>4. storms'[v] = storms[v] \/ LandWrite(v)
  <2>1. ASSUME NEW u \in Services, LandWrite(u), u # v
        PROVE  storms'[v] = storms[v]
    BY <1>1, <2>1 DEF LandWrite, TypeOK
  <2>. QED BY <2>1 DEF Next, WorkerStep, Begin, LockUnbilled, ReadStorms, BillSnapshot, Commit, Abort,
              UpsertUsageSnapshot, StampStart, StampEnd, LoseWrite, EditPolicy, Advance, tables, world
<1>. QED BY <1>2, <1>3, <1>4

\* The clock never goes back.
LEMMA ClockGrows ==
  ASSUME clock \in Nat, Next
  PROVE  clock' \in Nat /\ clock <= clock'
<1>1. CASE Advance
  BY <1>1 DEF Advance
<1>2. CASE UNCHANGED clock
  BY <1>2
<1>3. Advance \/ UNCHANGED clock
  BY DEF Next, WorkerStep, Begin, LockUnbilled, ReadStorms, BillSnapshot, Commit, Abort,
         UpsertUsageSnapshot, StampStart, StampEnd, LandWrite, LoseWrite, EditPolicy, world
<1>. QED BY <1>1, <1>2, <1>3

\* A storm write is stamped with the clock.
LEMMA OverKept ==
  ASSUME TypeOK, NEW s \in Snaps, Over(s), Next
  PROVE  Over(s)'
<1>. DEFINE v == Window[s].service
<1>1. v \in Services /\ Window[s].end \in Nat /\ Window[s].end <= clock
  BY WindowAssumption DEF Over
<1>2. clock' \in Nat /\ clock <= clock'
  BY ClockGrows DEF TypeOK
<1>3. CASE write'[v] = write[v] \/ write'[v] = NULL
  BY <1>1, <1>2, <1>3 DEF Over, TypeOK
<1>4. CASE StampStart(v)
  <2>1. write'[v] = [started |-> clock, ended |-> NULL]
    BY <1>1, <1>4 DEF StampStart, TypeOK
  <2>2. clock' = clock
    BY <1>4 DEF StampStart
  <2>. QED BY <1>1, <2>1, <2>2 DEF Over
<1>5. CASE StampEnd(v)
  <2>1. PICK st \in ActiveStorms(v) : write' = [write EXCEPT ![v] = [st EXCEPT !.ended = clock]]
    BY <1>5 DEF StampEnd
  <2>2. st \in Storm
    BY <1>1 DEF ActiveStorms, TypeOK
  <2>3. write'[v].ended = clock /\ clock' = clock
    BY <1>1, <1>5, <2>1, <2>2 DEF StampEnd, TypeOK, Storm
  <2>. QED BY <1>1, <2>3, NullAssumption, NoRowAssumption DEF Over, TypeOK
<1>6. write'[v] = write[v] \/ write'[v] = NULL \/ StampStart(v) \/ StampEnd(v)
  <2>1. ASSUME NEW u \in Services, StampStart(u) \/ StampEnd(u) \/ LandWrite(u) \/ LoseWrite(u)
        PROVE  write'[v] = write[v] \/ write'[v] = NULL \/ StampStart(v) \/ StampEnd(v)
    BY <1>1, <2>1 DEF StampStart, StampEnd, LandWrite, LoseWrite, TypeOK
  <2>. QED BY <2>1 DEF Next, WorkerStep, Begin, LockUnbilled, ReadStorms, BillSnapshot, Commit, Abort,
              UpsertUsageSnapshot, EditPolicy, Advance, tables, world
<1>. QED BY <1>3, <1>4, <1>5, <1>6

LEMMA CreditedKept ==
  ASSUME TypeOK, StormShape, NEW s \in Snaps, NEW c \in Nat, Credited(s, c), Next
  PROVE  Credited(s, c)'
<1>1. Over(s)'
  BY OverKept DEF Credited
<1>2. Covered(s)' = Covered(s)
  BY CoveredKept DEF Credited
<1>. QED BY <1>1, <1>2 DEF Credited

\* Settled of one worker.
SettledOf(w) ==
  /\ now[w] <= clock
  /\ \A s \in held[w] : Window[s].end <= clock
  /\ pc[w] = "factor" =>
       \A c \in Reading : c = current[w] /\ c.settled => Credited(c.row.snap, c.covered)
  /\ \A i \in build[w] : i.settled => Credited(i.snap, i.covered)

\* A worker whose locals a step leaves alone, or takes away.
LEMMA SettledFrame ==
  ASSUME TypeOK, CreditInv, Next, NEW u \in Workers,
         now'[u] = now[u], held'[u] \subseteq held[u], build'[u] \subseteq build[u],
         pc'[u] = "factor" => pc[u] = "factor" /\ current'[u] = current[u]
  PROVE  SettledOf(u)'
<1>1. clock' \in Nat /\ clock \in Nat /\ clock <= clock'
  BY ClockGrows DEF TypeOK
<1>2. now'[u] <= clock'
  BY <1>1 DEF CreditInv, Settled, TypeOK
<1>3. \A s \in held'[u] : Window[s].end <= clock'
  BY <1>1, WindowAssumption DEF CreditInv, Settled, TypeOK
<1>4. ASSUME pc'[u] = "factor", NEW c \in Reading, c = current'[u], c.settled
      PROVE  Credited(c.row.snap, c.covered)'
  <2>1. c.row.snap \in Snaps /\ c.covered \in Nat
    BY DEF Reading, Read
  <2>2. Credited(c.row.snap, c.covered)
    BY <1>4 DEF CreditInv, Settled
  <2>. QED BY <2>1, <2>2, CreditedKept DEF CreditInv
<1>5. ASSUME NEW i \in build'[u], i.settled
      PROVE  Credited(i.snap, i.covered)'
  <2>1. i.snap \in Snaps /\ i.covered \in Nat
    BY DEF TypeOK, Item
  <2>2. Credited(i.snap, i.covered)
    BY <1>5 DEF CreditInv, Settled
  <2>. QED BY <2>1, <2>2, CreditedKept DEF CreditInv
<1>. QED BY <1>2, <1>3, <1>4, <1>5 DEF SettledOf

\* The lines committed, and those a commit adds.
LEMMA LinesSettled ==
  ASSUME TypeOK, CreditInv, Next,
         NEW l \in lines', l \in lines \/ (\E w \in Workers : l \in Invoicing(w)), l.item.settled
  PROVE  Credited(l.item.snap, l.item.covered)'
<1>1. l.item \in Item /\ Credited(l.item.snap, l.item.covered)
  BY DEF CreditInv, Settled, Invoicing, TypeOK
<1>2. l.item.snap \in Snaps /\ l.item.covered \in Nat
  BY <1>1 DEF Item
<1>. QED BY <1>1, <1>2, CreditedKept DEF CreditInv

\* The steps that read something: each worker's, one at a time.
LEMMA WorkerSettled ==
  ASSUME TypeOK, Locking, CreditInv, Next, NEW w \in Workers, WorkerStep(w) \/ Abort(w)
  PROVE  SettledOf(w)'
<1>1. CASE Begin(w)
  <2>1. /\ now'[w] = clock /\ clock' = clock /\ clock \in Nat
        /\ held'[w] = held[w] /\ build'[w] = build[w] /\ pc'[w] # "factor"
        /\ held[w] = {} /\ build[w] = {}
    BY <1>1 DEF Begin, TypeOK
  <2>. QED BY <2>1 DEF SettledOf
<1>2. CASE LockUnbilled(w)
  <2>1. /\ now' = now /\ clock' = clock /\ build' = build /\ pc'[w] # "factor" /\ pc[w] = "lock"
        /\ held'[w] \subseteq held[w] \cup Unbilled(now[w])
    BY <1>2 DEF LockUnbilled, TypeOK
  <2>2. build[w] = {} /\ held[w] = {}
    BY <2>1 DEF TypeOK
  <2>3. \A s \in Unbilled(now[w]) : Window[s].end <= now[w] /\ Window[s].end \in Nat
    BY WindowAssumption DEF Unbilled
  <2>4. now[w] <= clock /\ now[w] \in Nat /\ clock \in Nat
    BY DEF TypeOK, CreditInv, Settled
  <2>. QED BY <2>1, <2>2, <2>3, <2>4 DEF SettledOf
<1>3. CASE ReadStorms(w)
  <2>1. PICK r \in todo[w] :
          current' = [current EXCEPT ![w] =
            [row     |-> r,
             covered |-> Covered(r.snap),
             settled |-> write[Window[r.snap].service] = NULL]]
    BY <1>3 DEF ReadStorms
  <2>2. /\ r.snap \in held[w] /\ r.snap \in Snaps
        /\ Window[r.snap].end <= clock
    BY DEF Locking, CreditInv, Settled, TypeOK, Read
  <2>3. UNCHANGED <<storms, write, clock, now, held, build>>
    BY <1>3 DEF ReadStorms, tables
  <2>4. ASSUME NEW c \in Reading, c = current'[w], c.settled
        PROVE  Credited(c.row.snap, c.covered)'
    <3>1. c.row = r /\ c.covered = Covered(r.snap) /\ write[Window[r.snap].service] = NULL
      BY <2>1, <2>4 DEF TypeOK
    <3>2. Credited(r.snap, c.covered)
      BY <2>2, <3>1 DEF Credited, Over
    <3>3. c.covered \in Nat
      BY DEF Reading
    <3>. QED BY <2>2, <3>1, <3>2, <3>3, CreditedKept DEF CreditInv
  <2>5. ASSUME NEW i \in build'[w], i.settled
        PROVE  Credited(i.snap, i.covered)'
    <3>1. Credited(i.snap, i.covered) /\ i.snap \in Snaps /\ i.covered \in Nat
      BY <2>3, <2>5 DEF CreditInv, Settled, TypeOK, Item
    <3>. QED BY <3>1, CreditedKept DEF CreditInv
  <2>6. now'[w] <= clock' /\ \A s \in held'[w] : Window[s].end <= clock'
    BY <2>3 DEF CreditInv, Settled
  <2>. QED BY <2>4, <2>5, <2>6 DEF SettledOf
<1>4. CASE BillSnapshot(w)
  <2>. DEFINE f == maxCoverageFactor(w, Window[current[w].row.snap].service)
              item == LineItem(current[w], f)
  <2>1. current[w] \in Reading
    BY <1>4 DEF BillSnapshot, TypeOK
  <2>2. build' = [build EXCEPT ![w] = @ \cup {item}]
    BY <1>4 DEF BillSnapshot
  <2>3. /\ item.snap = current[w].row.snap /\ item.covered = current[w].covered
        /\ item.settled = current[w].settled
    BY DEF LineItem
  <2>4. item.snap \in Snaps /\ item.covered \in Nat
    BY <2>1, <2>3 DEF Reading, Read
  <2>5. item.settled => Credited(item.snap, item.covered)
    BY <1>4, <2>1, <2>3 DEF BillSnapshot, CreditInv, Settled
  <2>6. UNCHANGED <<clock, now, held>> /\ pc'[w] # "factor"
    BY <1>4 DEF BillSnapshot, TypeOK
  <2>. HIDE DEF f, item
  <2>7. ASSUME NEW i \in build'[w], i.settled
        PROVE  Credited(i.snap, i.covered)'
    <3>1. i \in build[w] \/ i = item
      BY <2>2 DEF TypeOK
    <3>2. Credited(i.snap, i.covered) /\ i.snap \in Snaps /\ i.covered \in Nat
      BY <2>4, <2>5, <2>7, <3>1 DEF CreditInv, Settled, TypeOK, Item
    <3>. QED BY <3>2, CreditedKept DEF CreditInv
  <2>8. now'[w] <= clock' /\ \A s \in held'[w] : Window[s].end <= clock'
    BY <2>6 DEF CreditInv, Settled
  <2>. QED BY <2>6, <2>7, <2>8 DEF SettledOf
<1>5. CASE Commit(w)
  <2>1. now'[w] = now[w] /\ held'[w] = {} /\ build'[w] = {} /\ pc'[w] = "idle"
    BY <1>5 DEF Commit, TypeOK
  <2>. QED BY <2>1, SettledFrame
<1>6. CASE Abort(w)
  <2>1. now'[w] = now[w] /\ held'[w] = {} /\ build'[w] = {} /\ pc'[w] = "idle"
    BY <1>6 DEF Abort, TypeOK
  <2>. QED BY <2>1, SettledFrame
<1>. QED BY <1>1, <1>2, <1>3, <1>4, <1>5, <1>6 DEF WorkerStep

LEMMA StepSettled ==
  ASSUME TypeOK, Locking, CreditInv, Next
  PROVE  Settled'
<1>1. ASSUME NEW u \in Workers
      PROVE  SettledOf(u)'
  <2>1. ASSUME NEW w \in Workers, WorkerStep(w) \/ Abort(w), u # w
        PROVE  SettledOf(u)'
    <3>1. now'[u] = now[u] /\ held'[u] = held[u] /\ build'[u] = build[u]
          /\ pc'[u] = pc[u] /\ current'[u] = current[u]
      BY <2>1 DEF WorkerStep, Begin, LockUnbilled, ReadStorms, BillSnapshot, Commit, Abort, TypeOK
    <3>. QED BY <3>1, SettledFrame
  <2>2. CASE UNCHANGED locals
    BY <2>2, SettledFrame DEF locals
  <2>3. UNCHANGED locals \/ \E w \in Workers : WorkerStep(w) \/ Abort(w)
    BY DEF Next, UpsertUsageSnapshot, StampStart, StampEnd, LandWrite, LoseWrite, EditPolicy, Advance
  <2>. QED BY <2>1, <2>2, <2>3, WorkerSettled
<1>2. ASSUME NEW l \in lines', l.item.settled
      PROVE  Credited(l.item.snap, l.item.covered)'
  <2>1. lines' = lines \/ \E w \in Workers : lines' = lines \cup Invoicing(w)
    BY DEF Next, WorkerStep, Begin, LockUnbilled, ReadStorms, BillSnapshot, Commit, Abort,
           UpsertUsageSnapshot, StampStart, StampEnd, LandWrite, LoseWrite, EditPolicy, Advance, tables
  <2>. QED BY <1>2, <2>1, LinesSettled
<1>. QED BY <1>1, <1>2 DEF Settled, SettledOf

LEMMA CreditInvariance == Spec => []CreditInv
<1>1. ASSUME IInv, CreditInv, [Next]_vars
      PROVE  CreditInv'
  <2>1. CASE Next
    BY <1>1, <2>1, StepStormShape, StepSettled DEF IInv, CreditInv
  <2>2. CASE UNCHANGED vars
    <3>1. StormShape'
      BY <1>1, <2>2 DEF vars, CreditInv, StormShape, ActiveStorms
    <3>2. \A s \in Snaps : (Over(s)' <=> Over(s)) /\ Covered(s)' = Covered(s)
      BY <2>2 DEF vars, Over, Covered, CoveredTime, ActiveAt
    <3>3. ASSUME NEW s \in Snaps, NEW c \in Nat, Credited(s, c)
          PROVE  Credited(s, c)'
      BY <3>2, <3>3 DEF Credited
    <3>4. \A c \in Reading \cup Item : c.covered \in Nat
      BY DEF Reading, Item
    <3>5. (\A c \in Reading : c.row.snap \in Snaps) /\ (\A i \in Item : i.snap \in Snaps)
      BY DEF Reading, Read, Item
    <3>6. (\A w \in Workers : build[w] \subseteq Item) /\ (\A l \in lines : l.item \in Item)
      BY <1>1 DEF IInv, TypeOK
    <3>7. UNCHANGED <<lines, clock, pc, now, held, current, build>>
      BY <2>2 DEF vars
    <3>8. Settled'
      BY <1>1, <3>3, <3>4, <3>5, <3>6, <3>7 DEF CreditInv, Settled
    <3>. QED BY <3>1, <3>8 DEF CreditInv
  <2>. QED BY <1>1, <2>1, <2>2
<1>. QED BY <1>1, InitCredit, Invariance, PTL DEF Spec

(* The storm time of a line is never revised, for any number of workers    *)
(* and any windows, storms and faults (engine.go:58-61, 73-89).            *)
THEOREM CreditsAreFinal == Spec => []CreditIsFinal
<1>1. CreditInv => CreditIsFinal
  BY DEF CreditInv, Settled, Credited, CreditIsFinal
<1>. QED BY <1>1, CreditInvariance, PTL


-----------------------------------------------------------------------------
(* coverageRatio, for any window, any number of storms and any times.      *)

LEMMA RowType ==
  ASSUME CoverageTypeOK, NEW i \in DOMAIN rows
  PROVE  /\ rows[i] \in Storm
         /\ rows[i].started \in Nat
         /\ rows[i].ended \in Nat \cup {NULL}
         /\ InWindow(rows[i])
<1>1. rows[i] \in Storm /\ InWindow(rows[i])
  BY DEF CoverageTypeOK
<1>. QED
  BY <1>1 DEF Storm

LEMMA IntervalType ==
  ASSUME CoverageTypeOK, NEW i \in DOMAIN arr
  PROVE  /\ arr[i].start \in Nat
         /\ arr[i].end \in Nat
         /\ arr[i].start <= arr[i].end
         /\ Start <= arr[i].start
         /\ arr[i].end <= End
<1>1. arr[i] \in TimeRange
  BY DEF CoverageTypeOK
<1>. QED
  BY <1>1 DEF TimeRange, CoverageTypeOK

\* A kept storm of the window clips to an interval inside the window.
LEMMA ClippedType ==
  ASSUME CoverageTypeOK, NEW i \in DOMAIN rows, Keep(rows[i])
  PROVE  /\ Clipped(rows[i]) \in TimeRange
         /\ Start <= Clipped(rows[i]).start
         /\ Clipped(rows[i]).end <= End
<1>1. /\ ClipStart(rows[i]) \in Nat /\ Start <= ClipStart(rows[i])
      /\ ClipEnd(rows[i]) \in Nat /\ ClipEnd(rows[i]) <= End
  BY RowType, SpanAssumption DEF ClipStart, ClipEnd
<1>2. Clipped(rows[i]).start = ClipStart(rows[i]) /\ Clipped(rows[i]).end = ClipEnd(rows[i])
  BY DEF Clipped
<1>. QED
  BY <1>1, <1>2 DEF Clipped, Keep, TimeRange

LEMMA CoverageInitType == CoverageInit => CoverageTypeOK
<1>. SUFFICES ASSUME CoverageInit PROVE CoverageTypeOK
  OBVIOUS
<1>. PICK n \in 0 .. MaxRows : rows \in [1 .. n -> {s \in StormRow : InWindow(s)}]
  BY DEF CoverageInit
<1>1. n \in Nat
  BY RowsAssumption
<1>2. rows \in Seq(Storm)
  <2>1. StormRow \subseteq Storm
    BY RowsAssumption DEF StormRow, Storm, Times
  <2>. QED
    BY <1>1, <2>1
<1>. QED
  BY <1>2 DEF CoverageInit, CoverageTypeOK

\* What Sort leaves in the array.
LEMMA SortedArray ==
  ASSUME CoverageTypeOK, Sort
  PROVE  /\ arr' \in Seq(TimeRange)
         /\ Len(arr') = Len(arr)
         /\ Len(arr) \in Nat \ {0}
         /\ DOMAIN arr = 1 .. Len(arr)
         /\ DOMAIN arr' = 1 .. Len(arr)
         /\ Sorted(arr')
         /\ \A i \in 1 .. Len(arr) : \E j \in 1 .. Len(arr) : arr'[i] = arr[j]
         /\ \A j \in 1 .. Len(arr) : \E i \in 1 .. Len(arr) : arr'[i] = arr[j]
<1>1. /\ Len(arr) \in Nat
      /\ DOMAIN arr = 1 .. Len(arr)
      /\ \A i \in 1 .. Len(arr) : arr[i] \in TimeRange
  BY DEF CoverageTypeOK
<1>2. Len(arr) # 0
  BY EmptySeq DEF Sort, CoverageTypeOK
<1>3. arr' \in [1 .. Len(arr) -> TimeRange]
  <2>1. {arr[i] : i \in DOMAIN arr} \subseteq TimeRange
    BY <1>1
  <2>. QED
    BY <1>1, <2>1 DEF Sort
<1>4. arr' \in Seq(TimeRange) /\ Len(arr') = Len(arr)
  BY <1>1, <1>3
<1>5. PICK f \in [DOMAIN arr -> DOMAIN arr] :
        /\ \A j \in DOMAIN arr : \E i \in DOMAIN arr : f[i] = j
        /\ arr' = [i \in DOMAIN arr |-> arr[f[i]]]
  BY DEF Sort, Reorders
<1>. QED
  BY <1>1, <1>2, <1>3, <1>4, <1>5 DEF Sort

LEMMA CoverageNextType ==
  ASSUME CoverageTypeOK, [CoverageNext]_coverageVars
  PROVE  CoverageTypeOK'
<1>0. Len(arr) \in Nat /\ DOMAIN arr = 1 .. Len(arr)
  BY DEF CoverageTypeOK
<1>1. CASE Clip
  <2>1. next \in DOMAIN rows
    BY <1>1 DEF Clip, CoverageTypeOK
  <2>2. CASE Keep(rows[next])
    <3>. DEFINE c == Clipped(rows[next])
    <3>1. arr' = Append(arr, c) /\ c \in TimeRange /\ Start <= c.start /\ c.end <= End
      BY <1>1, <2>1, <2>2, ClippedType DEF Clip
    <3>2. /\ arr' \in Seq(TimeRange)
          /\ Len(arr') = Len(arr) + 1
          /\ \A i \in 1 .. Len(arr) : arr'[i] = arr[i]
          /\ arr'[Len(arr) + 1] = c
      BY <3>1, AppendProperties DEF CoverageTypeOK
    <3>3. \A i \in DOMAIN arr' : Start <= arr'[i].start /\ arr'[i].end <= End
      BY <1>0, <3>1, <3>2 DEF CoverageTypeOK
    <3>. QED
      BY <1>0, <1>1, <3>2, <3>3 DEF Clip, CoverageTypeOK
  <2>3. CASE ~Keep(rows[next])
    BY <1>1, <2>3 DEF Clip, CoverageTypeOK
  <2>. QED
    BY <2>2, <2>3
<1>2. CASE NothingKept
  BY <1>2 DEF NothingKept, CoverageTypeOK
<1>3. CASE Sort
  <2>1. \A i \in DOMAIN arr' : Start <= arr'[i].start /\ arr'[i].end <= End
    BY <1>3, SortedArray, IntervalType
  <2>. QED
    BY <1>3, <2>1, SortedArray DEF Sort, CoverageTypeOK
<1>4. CASE AppendApart
  <2>1. merged + 1 \in 1 .. Len(arr) /\ next \in 1 .. Len(arr)
    BY <1>0, <1>4 DEF AppendApart, Merging, CoverageTypeOK
  <2>2. iv \in TimeRange /\ Start <= iv.start /\ iv.end <= End
    BY <1>0, <2>1 DEF CoverageTypeOK, iv
  <2>3. /\ arr' \in Seq(TimeRange)
        /\ Len(arr') = Len(arr)
        /\ \A i \in 1 .. Len(arr) : arr'[i] = IF i = merged + 1 THEN iv ELSE arr[i]
    BY <1>4, <2>1, <2>2, ExceptSeq DEF AppendApart, CoverageTypeOK
  <2>4. \A i \in DOMAIN arr' : Start <= arr'[i].start /\ arr'[i].end <= End
    BY <1>0, <2>2, <2>3 DEF CoverageTypeOK
  <2>. QED
    BY <1>4, <2>1, <2>3, <2>4 DEF AppendApart, Merging, CoverageTypeOK
<1>5. CASE Extend
  <2>1. merged \in 1 .. Len(arr) /\ next \in 1 .. Len(arr)
    BY <1>0, <1>5 DEF Extend, Merging, CoverageTypeOK
  <2>. DEFINE r == [start |-> last.start, end |-> iv.end]
  <2>2. CASE iv.end > last.end
    <3>1. last \in TimeRange
      BY <1>0, <2>1 DEF CoverageTypeOK, last
    <3>2. [last EXCEPT !.end = iv.end] = r
      BY <3>1 DEF TimeRange
    <3>3. r \in TimeRange /\ Start <= r.start /\ r.end <= End
      BY <1>0, <2>1, <2>2, IntervalType DEF TimeRange, last, iv
    <3>4. arr' = [arr EXCEPT ![merged] = r]
      BY <1>5, <2>2, <3>2 DEF Extend, last
    <3>5. /\ arr' \in Seq(TimeRange)
          /\ Len(arr') = Len(arr)
          /\ \A i \in 1 .. Len(arr) : arr'[i] = IF i = merged THEN r ELSE arr[i]
      BY <2>1, <3>3, <3>4, ExceptSeq DEF CoverageTypeOK
    <3>6. \A i \in DOMAIN arr' : Start <= arr'[i].start /\ arr'[i].end <= End
      BY <1>0, <3>3, <3>5 DEF CoverageTypeOK
    <3>. QED
      BY <1>5, <2>1, <3>5, <3>6 DEF Extend, Merging, CoverageTypeOK
  <2>3. CASE ~(iv.end > last.end)
    BY <1>5, <2>1, <2>3 DEF Extend, Merging, CoverageTypeOK
  <2>. QED
    BY <2>2, <2>3
<1>6. CASE EndMerge
  BY <1>0, <1>6 DEF EndMerge, CoverageTypeOK
<1>7. CASE Sum
  <2>1. next \in DOMAIN arr
    BY <1>0, <1>7 DEF Sum, CoverageTypeOK
  <2>2. arr[next].end - arr[next].start \in Nat
    BY <2>1, IntervalType
  <2>. QED
    BY <1>0, <1>7, <2>2 DEF Sum, CoverageTypeOK
<1>8. CASE Finish
  BY <1>8, SpanAssumption DEF Finish, CoverageTypeOK
<1>9. CASE UNCHANGED coverageVars
  BY <1>9 DEF coverageVars, CoverageTypeOK
<1>. QED
  BY <1>1, <1>2, <1>3, <1>4, <1>5, <1>6, <1>7, <1>8, <1>9 DEF CoverageNext

\* The state always has its types; in particular the in-place merge writes only
\* positions of the array that it has read.
THEOREM CoverageTypeCorrect == CoverageSpec => []CoverageTypeOK
BY CoverageInitType, CoverageNextType, PTL DEF CoverageSpec

-----------------------------------------------------------------------------
(* The merge covers what the storms cover.                                 *)

\* The units of the window in which one of the first n storms is active.
SeenUnits(n) ==
  {t \in Start .. End - 1 : \E i \in 1 .. n : ActiveAt(rows[i], t)}

ClipOK ==
  loop = "clip" => /\ next <= Len(rows) + 1
                 /\ UnitsOf(1 .. Len(arr)) = SeenUnits(next - 1)

\* The merged intervals are apart and in order; the unread ones are in order
\* and start no earlier than the last merged one.
OrderOK ==
  /\ loop \in {"merge", "sum"} =>
       \A i, j \in 1 .. merged : i < j => arr[i].end < arr[j].start
  /\ loop = "merge" =>
       /\ \A j \in next .. Len(arr) : arr[merged].start <= arr[j].start
       /\ \A i, j \in next .. Len(arr) : i < j => arr[i].start <= arr[j].start

SumOK ==
  /\ loop \in {"clip", "merge"} => covered = 0
  /\ loop = "sum" => covered = Cardinality(UnitsOf(1 .. next - 1))

CoverageInv == ClipOK /\ OrderOK /\ SumOK /\ MergeLosesNothing /\ CoveredIsUnion

\* Clipping a storm of the window keeps the units in which it is active.
LEMMA ClipUnits ==
  ASSUME CoverageTypeOK, NEW i \in DOMAIN rows, NEW t \in Start .. End - 1
  PROVE  /\ Keep(rows[i]) =>
              (ActiveAt(rows[i], t) <=>
                 Clipped(rows[i]).start <= t /\ t < Clipped(rows[i]).end)
         /\ ~Keep(rows[i]) => ~ActiveAt(rows[i], t)
<1>1. t \in Nat /\ Start <= t /\ t < End
  BY SpanAssumption
<1>2. rows[i].started \in Nat /\ rows[i].ended \in Nat \cup {NULL}
  BY RowType
<1>3. Clipped(rows[i]).start = ClipStart(rows[i]) /\ Clipped(rows[i]).end = ClipEnd(rows[i])
  BY DEF Clipped
<1>4. CASE rows[i].ended = NULL
  BY <1>1, <1>2, <1>3, <1>4, SpanAssumption DEF ActiveAt, Keep, ClipStart, ClipEnd
<1>5. CASE rows[i].ended \in Nat
  BY <1>1, <1>2, <1>3, <1>5, SpanAssumption, NullAssumption DEF ActiveAt, Keep, ClipStart, ClipEnd
<1>. QED
  BY <1>2, <1>4, <1>5

LEMMA ClipCorrect ==
  ASSUME CoverageTypeOK, CoverageInv, Clip
  PROVE  CoverageInv'
<1>1. /\ next \in DOMAIN rows /\ next \in Nat
      /\ DOMAIN rows = 1 .. Len(rows) /\ Len(rows) \in Nat
      /\ DOMAIN arr = 1 .. Len(arr) /\ Len(arr) \in Nat
  BY DEF Clip, CoverageTypeOK
<1>2. UnitsOf(1 .. Len(arr)) = SeenUnits(next - 1)
  BY DEF CoverageInv, ClipOK, Clip
<1>3. SeenUnits(next) = SeenUnits(next - 1) \cup {t \in Start .. End - 1 : ActiveAt(rows[next], t)}
  BY <1>1 DEF SeenUnits
<1>4. UnitsOf(1 .. Len(arr))' = SeenUnits(next)
  <2>1. CASE Keep(rows[next])
    <3>. DEFINE c == Clipped(rows[next])
    <3>1. arr' = Append(arr, c) /\ c \in TimeRange
      BY <1>1, <2>1, ClippedType DEF Clip
    <3>2. /\ Len(arr') = Len(arr) + 1
          /\ \A i \in 1 .. Len(arr) : arr'[i] = arr[i]
          /\ arr'[Len(arr) + 1] = c
      BY <3>1, AppendProperties DEF CoverageTypeOK
    <3>3. UnitsOf(1 .. Len(arr))' =
            UnitsOf(1 .. Len(arr)) \cup {t \in Start .. End - 1 : c.start <= t /\ t < c.end}
      BY <1>1, <3>2 DEF UnitsOf
    <3>4. \A t \in Start .. End - 1 : ActiveAt(rows[next], t) <=> c.start <= t /\ t < c.end
      BY <1>1, <2>1, ClipUnits
    <3>. QED
      BY <1>2, <1>3, <3>3, <3>4
  <2>2. CASE ~Keep(rows[next])
    <3>1. arr' = arr
      BY <2>2 DEF Clip
    <3>2. \A t \in Start .. End - 1 : ~ActiveAt(rows[next], t)
      BY <1>1, <2>2, ClipUnits
    <3>. QED
      BY <1>2, <1>3, <3>1, <3>2 DEF UnitsOf
  <2>. QED
    BY <2>1, <2>2
<1>5. UnitsOf(1 .. Len(arr))' = SeenUnits(next - 1)'
  BY <1>1, <1>4 DEF SeenUnits, Clip
<1>. QED
  BY <1>1, <1>5 DEF CoverageInv, ClipOK, OrderOK, SumOK, MergeLosesNothing, CoveredIsUnion, Clip

\* At the end of the clip loop the array covers what the storms cover.
LEMMA ClippedAll ==
  ASSUME CoverageTypeOK, CoverageInv, loop = "clip", next > Len(rows)
  PROVE  UnitsOf(1 .. Len(arr)) = CoveredUnits
<1>1. next - 1 = Len(rows) /\ DOMAIN rows = 1 .. Len(rows)
  BY DEF CoverageTypeOK, CoverageInv, ClipOK
<1>. QED
  BY <1>1 DEF CoverageInv, ClipOK, SeenUnits, CoveredUnits

LEMMA NothingKeptCorrect ==
  ASSUME CoverageTypeOK, CoverageInv, NothingKept
  PROVE  CoverageInv'
<1>1. UnitsOf(1 .. 0) = CoveredUnits
  BY ClippedAll, EmptySeq DEF NothingKept
<1>2. CoveredUnits = {}
  BY <1>1 DEF UnitsOf
<1>3. covered = Cardinality(CoveredUnits)
  BY <1>2, FS_EmptySet DEF CoverageInv, SumOK, NothingKept
<1>. QED
  BY <1>3 DEF CoverageInv, ClipOK, OrderOK, SumOK, MergeLosesNothing, CoveredIsUnion, CoveredUnits, NothingKept

LEMMA SortCorrect ==
  ASSUME CoverageTypeOK, CoverageInv, Sort
  PROVE  CoverageInv'
<1>1. UnitsOf(1 .. Len(arr)) = CoveredUnits
  BY ClippedAll DEF Sort
<1>2. UnitsOf(1 .. Len(arr))' = UnitsOf(1 .. Len(arr))
  BY SortedArray DEF UnitsOf
<1>3. Len(arr) \in Nat \ {0} /\ Len(arr') = Len(arr)
  BY SortedArray
<1>4. (UnitsOf(1 .. 1) \cup UnitsOf(2 .. Len(arr)))' = UnitsOf(1 .. Len(arr))'
  BY <1>3 DEF UnitsOf
<1>5. \A i, j \in 1 .. Len(arr) : i < j => arr'[i].start <= arr'[j].start
  BY SortedArray DEF Sorted
<1>6. loop' = "merge" /\ merged' = 1 /\ next' = 2 /\ rows' = rows /\ covered' = 0
  BY DEF Sort, CoverageInv, SumOK
<1>7. MergeLosesNothing'
  BY <1>1, <1>2, <1>4, <1>6 DEF MergeLosesNothing, CoveredUnits
<1>8. OrderOK'
  BY <1>3, <1>5, <1>6 DEF OrderOK
<1>. QED
  BY <1>6, <1>7, <1>8 DEF CoverageInv, ClipOK, SumOK, CoveredIsUnion

\* What is known where the merge loop reads an interval.
LEMMA MergingFacts ==
  ASSUME CoverageTypeOK, CoverageInv, Merging
  PROVE  /\ Len(arr) \in Nat /\ DOMAIN arr = 1 .. Len(arr)
         /\ merged \in 1 .. Len(arr) /\ next \in 1 .. Len(arr) /\ merged < next
         /\ arr[merged].start <= arr[next].start
         /\ arr[merged].start \in Nat /\ arr[merged].end \in Nat
         /\ arr[next].start \in Nat /\ arr[next].end \in Nat
         /\ arr[merged].start <= arr[merged].end
         /\ arr[next].start <= arr[next].end
         /\ UnitsOf(1 .. merged) \cup UnitsOf(next .. Len(arr)) = CoveredUnits
<1>1. /\ Len(arr) \in Nat /\ DOMAIN arr = 1 .. Len(arr)
      /\ merged \in 1 .. Len(arr) /\ next \in 1 .. Len(arr) /\ merged < next
  BY DEF CoverageTypeOK, Merging
<1>2. next \in next .. Len(arr)
  BY <1>1
<1>. QED
  BY <1>1, <1>2, IntervalType DEF CoverageInv, OrderOK, MergeLosesNothing, Merging

LEMMA AppendApartCorrect ==
  ASSUME CoverageTypeOK, CoverageInv, AppendApart
  PROVE  CoverageInv'
<1>1. Merging /\ arr[next].start > arr[merged].end
  BY DEF AppendApart, iv, last
<1>2. /\ arr' = [arr EXCEPT ![merged + 1] = arr[next]]
      /\ merged' = merged + 1 /\ next' = next + 1
      /\ rows' = rows /\ covered' = covered /\ loop' = loop
  BY DEF AppendApart, iv
<1>3. /\ Len(arr') = Len(arr)
      /\ \A i \in 1 .. Len(arr) : arr'[i] = IF i = merged + 1 THEN arr[next] ELSE arr[i]
  BY <1>1, <1>2, MergingFacts DEF CoverageTypeOK
<1>4. /\ \A i \in 1 .. merged : arr'[i] = arr[i]
      /\ arr'[merged + 1] = arr[next]
      /\ \A i \in next + 1 .. Len(arr) : arr'[i] = arr[i]
  <2>1. /\ merged \in Nat /\ next \in Nat /\ Len(arr) \in Nat
        /\ merged < next /\ next <= Len(arr) /\ 1 <= merged
    BY <1>1, MergingFacts
  <2>2. \A i \in 1 .. merged : i \in 1 .. Len(arr) /\ i # merged + 1
    BY <2>1
  <2>3. merged + 1 \in 1 .. Len(arr)
    BY <2>1
  <2>4. \A i \in next + 1 .. Len(arr) : i \in 1 .. Len(arr) /\ i # merged + 1
    BY <2>1
  <2>. QED
    BY <1>3, <2>2, <2>3, <2>4
<1>5. UnitsOf(1 .. merged)' = UnitsOf(1 .. merged) \cup UnitsOf({next})
  <2>1. (1 .. merged)' = (1 .. merged) \cup {merged + 1}
    BY <1>1, <1>2, MergingFacts
  <2>. QED
    BY <1>4, <2>1 DEF UnitsOf
<1>6. UnitsOf(next .. Len(arr))' = UnitsOf(next + 1 .. Len(arr))
  BY <1>1, <1>2, <1>3, <1>4, MergingFacts DEF UnitsOf
<1>7. UnitsOf(next .. Len(arr)) = UnitsOf({next}) \cup UnitsOf(next + 1 .. Len(arr))
  BY <1>1, MergingFacts DEF UnitsOf
<1>8. MergeLosesNothing'
  <2>1. UnitsOf(1 .. merged) \cup UnitsOf(next .. Len(arr)) = CoveredUnits
    BY <1>1, MergingFacts
  <2>2. UnitsOf(1 .. merged)' \cup UnitsOf(next .. Len(arr))' = CoveredUnits
    BY <1>5, <1>6, <1>7, <2>1
  <2>3. CoveredUnits' = CoveredUnits /\ loop' = "merge"
    BY <1>1, <1>2 DEF CoveredUnits, Merging
  <2>. QED
    BY <2>2, <2>3 DEF MergeLosesNothing
<1>9. ASSUME NEW i \in 1 .. merged + 1, NEW j \in 1 .. merged + 1, i < j
      PROVE  arr'[i].end < arr'[j].start
  <2>1. CASE j = merged + 1
    <3>1. arr[i].end <= arr[merged].end /\ i \in 1 .. merged
      <4>1. CASE i = merged
        BY <1>1, <1>9, <4>1, MergingFacts
      <4>2. CASE i < merged
        <5>1. arr[i].end < arr[merged].start /\ i \in DOMAIN arr
          BY <1>1, <1>9, <4>2, MergingFacts, SMTT(60) DEF CoverageInv, OrderOK, Merging
        <5>. QED
          BY <1>1, <1>9, <4>2, <5>1, MergingFacts, IntervalType
      <4>. QED
        BY <1>1, <1>9, <2>1, <4>1, <4>2, MergingFacts
    <3>2. arr'[i] = arr[i] /\ arr'[j] = arr[next]
      BY <1>4, <2>1, <3>1
    <3>3. arr[i].end \in Nat
      BY <1>1, <3>1, MergingFacts, IntervalType
    <3>. QED
      BY <1>1, <3>1, <3>2, <3>3, MergingFacts
  <2>2. CASE j # merged + 1
    BY <1>1, <1>4, <1>9, <2>2, MergingFacts, SMTT(60) DEF CoverageInv, OrderOK, Merging
  <2>. QED
    BY <2>1, <2>2
<1>10. \A j \in next + 1 .. Len(arr) : arr[next].start <= arr[j].start
  <2>1. \A j \in next + 1 .. Len(arr) : j \in next .. Len(arr) /\ next < j
    BY <1>1, MergingFacts
  <2>2. next \in next .. Len(arr)
    BY <1>1, MergingFacts
  <2>3. \A i, j \in next .. Len(arr) : i < j => arr[i].start <= arr[j].start
    BY <1>1 DEF CoverageInv, OrderOK, Merging
  <2>. QED
    BY <2>1, <2>2, <2>3
<1>11. \A i, j \in next + 1 .. Len(arr) : i < j => arr[i].start <= arr[j].start
  <2>1. next + 1 .. Len(arr) \subseteq next .. Len(arr)
    BY <1>1, MergingFacts
  <2>. QED
    BY <1>1, <2>1 DEF CoverageInv, OrderOK, Merging
<1>12. OrderOK'
  BY <1>1, <1>2, <1>3, <1>4, <1>9, <1>10, <1>11, MergingFacts, SMTT(60)
  DEF OrderOK, Merging
<1>. QED
  BY <1>1, <1>2, <1>8, <1>12 DEF CoverageInv, ClipOK, SumOK, CoveredIsUnion, Merging

LEMMA ExtendCorrect ==
  ASSUME CoverageTypeOK, CoverageInv, Extend
  PROVE  CoverageInv'
<1>1. Merging /\ arr[next].start <= arr[merged].end
  BY DEF Extend, iv, last
<1>2. next' = next + 1 /\ UNCHANGED <<rows, merged, covered, loop>>
  BY DEF Extend
<1>3. /\ Len(arr') = Len(arr)
      /\ \A i \in 1 .. Len(arr) : i # merged => arr'[i] = arr[i]
      /\ arr'[merged].start = arr[merged].start
      /\ arr'[merged].end = IF arr[next].end > arr[merged].end THEN arr[next].end
                                                              ELSE arr[merged].end
  <2>1. CASE arr[next].end > arr[merged].end
    <3>. DEFINE r == [arr[merged] EXCEPT !.end = arr[next].end]
    <3>1. arr' = [arr EXCEPT ![merged] = r]
      BY <2>1 DEF Extend, iv, last
    <3>2. arr[merged] \in TimeRange /\ merged \in 1 .. Len(arr)
      BY <1>1, MergingFacts DEF CoverageTypeOK
    <3>3. r.start = arr[merged].start /\ r.end = arr[next].end
      BY <3>2 DEF TimeRange
    <3>4. Len(arr') = Len(arr)
      BY <3>1 DEF CoverageTypeOK
    <3>5. \A i \in 1 .. Len(arr) : arr'[i] = IF i = merged THEN r ELSE arr[i]
      BY <1>1, <3>1, MergingFacts
    <3>. QED
      BY <2>1, <3>2, <3>3, <3>4, <3>5
  <2>2. CASE ~(arr[next].end > arr[merged].end)
    BY <2>2 DEF Extend, iv, last
  <2>. QED
    BY <2>1, <2>2
<1>4. UnitsOf(1 .. merged)' = UnitsOf(1 .. merged) \cup UnitsOf({next})
  <2>1. ASSUME NEW t \in Start .. End - 1
        PROVE  (arr'[merged].start <= t /\ t < arr'[merged].end) <=>
                 \/ arr[merged].start <= t /\ t < arr[merged].end
                 \/ arr[next].start <= t /\ t < arr[next].end
    <3>1. t \in Int
      BY SpanAssumption
    <3>. QED
      BY <1>1, <1>3, <3>1, MergingFacts, SMTT(60)
  <2>2. \A i \in 1 .. merged : i # merged => arr'[i] = arr[i]
    BY <1>1, <1>3, MergingFacts
  <2>3. merged \in 1 .. merged
    BY <1>1, MergingFacts
  <2>. QED
    BY <1>2, <2>1, <2>2, <2>3 DEF UnitsOf
<1>5. UnitsOf(next .. Len(arr))' = UnitsOf(next + 1 .. Len(arr))
  <2>1. \A i \in next + 1 .. Len(arr) : arr'[i] = arr[i]
    BY <1>1, <1>3, MergingFacts
  <2>. QED
    BY <1>2, <1>3, <2>1 DEF UnitsOf
<1>6. UnitsOf(next .. Len(arr)) = UnitsOf({next}) \cup UnitsOf(next + 1 .. Len(arr))
  BY <1>1, MergingFacts DEF UnitsOf
<1>7. MergeLosesNothing'
  <2>1. UnitsOf(1 .. merged) \cup UnitsOf(next .. Len(arr)) = CoveredUnits
    BY <1>1, MergingFacts
  <2>2. UnitsOf(1 .. merged)' \cup UnitsOf(next .. Len(arr))' = CoveredUnits
    BY <1>4, <1>5, <1>6, <2>1
  <2>3. CoveredUnits' = CoveredUnits /\ loop' = "merge"
    BY <1>1, <1>2 DEF CoveredUnits, Merging
  <2>. QED
    BY <2>2, <2>3 DEF MergeLosesNothing
<1>8. \A i, j \in 1 .. merged : i < j => arr'[i].end < arr'[j].start
  <2>. SUFFICES ASSUME NEW i \in 1 .. merged, NEW j \in 1 .. merged, i < j
               PROVE  arr'[i].end < arr'[j].start
    OBVIOUS
  <2>1. arr[i].end < arr[j].start
    BY <1>1 DEF CoverageInv, OrderOK, Merging
  <2>2. arr'[i] = arr[i] /\ arr'[j].start = arr[j].start
    BY <1>1, <1>3, MergingFacts
  <2>. QED
    BY <2>1, <2>2
<1>9. \A j \in next + 1 .. Len(arr) : arr[merged].start <= arr[j].start
  BY <1>1, MergingFacts DEF CoverageInv, OrderOK, Merging
<1>10. \A i, j \in next + 1 .. Len(arr) : i < j => arr[i].start <= arr[j].start
  <2>1. next + 1 .. Len(arr) \subseteq next .. Len(arr)
    BY <1>1, MergingFacts
  <2>. QED
    BY <1>1, <2>1 DEF CoverageInv, OrderOK, Merging
<1>11. \A i \in next + 1 .. Len(arr) : arr'[i] = arr[i]
  BY <1>1, <1>3, MergingFacts
<1>12. OrderOK'
  BY <1>1, <1>2, <1>3, <1>8, <1>9, <1>10, <1>11, SMTT(60) DEF OrderOK, Merging
<1>. QED
  BY <1>1, <1>2, <1>7, <1>12 DEF CoverageInv, ClipOK, SumOK, CoveredIsUnion, Merging

LEMMA EndMergeCorrect ==
  ASSUME CoverageTypeOK, CoverageInv, EndMerge
  PROVE  CoverageInv'
<1>1. UnitsOf(next .. Len(arr)) = {}
  BY DEF UnitsOf, EndMerge, CoverageTypeOK
<1>2. UnitsOf(1 .. merged)' = CoveredUnits'
  BY <1>1 DEF EndMerge, CoverageInv, MergeLosesNothing, CoveredUnits, UnitsOf
<1>3. (Cardinality(UnitsOf(1 .. next - 1)) = 0)'
  <2>1. UnitsOf(1 .. next - 1)' = {}
    BY DEF EndMerge, UnitsOf
  <2>. QED
    BY <2>1, FS_EmptySet
<1>. QED
  BY <1>2, <1>3 DEF CoverageInv, ClipOK, OrderOK, SumOK, MergeLosesNothing, CoveredIsUnion, EndMerge

\* One merged interval covers as many units as it is long.
LEMMA UnitsOfOne ==
  ASSUME CoverageTypeOK, NEW i \in DOMAIN arr
  PROVE  /\ IsFiniteSet(UnitsOf({i}))
         /\ Cardinality(UnitsOf({i})) = arr[i].end - arr[i].start
<1>1. /\ arr[i].start \in Nat /\ arr[i].end \in Nat /\ arr[i].start <= arr[i].end
      /\ Start <= arr[i].start /\ arr[i].end <= End /\ Start \in Nat /\ End \in Nat
  BY IntervalType, SpanAssumption
<1>2. UnitsOf({i}) = arr[i].start .. arr[i].end - 1
  BY <1>1 DEF UnitsOf
<1>3. /\ IsFiniteSet(arr[i].start .. arr[i].end - 1)
      /\ Cardinality(arr[i].start .. arr[i].end - 1) = arr[i].end - arr[i].start
  <2>. DEFINE a == arr[i].start
             b == arr[i].end - 1
  <2>1. a \in Int /\ b \in Int /\ a <= b + 1
    BY <1>1
  <2>. HIDE DEF a, b
  <2>2. IsFiniteSet(a .. b) /\ Cardinality(a .. b) = b - a + 1
    BY <2>1, FS_Interval
  <2>. QED
    BY <1>1, <2>2 DEF a, b
<1>. QED
  BY <1>2, <1>3

LEMMA UnitsFinite ==
  ASSUME NEW I
  PROVE  /\ IsFiniteSet(UnitsOf(I))
         /\ Cardinality(UnitsOf(I)) \in Nat
         /\ Cardinality(UnitsOf(I)) <= End - Start
<1>1. UnitsOf(I) \subseteq Start .. End - 1
  BY DEF UnitsOf
<1>2. IsFiniteSet(Start .. End - 1) /\ Cardinality(Start .. End - 1) = End - Start
  BY SpanAssumption, FS_Interval
<1>3. IsFiniteSet(UnitsOf(I)) /\ Cardinality(UnitsOf(I)) <= Cardinality(Start .. End - 1)
  BY <1>1, <1>2, FS_Subset
<1>. QED
  BY <1>2, <1>3, FS_CardinalityType

LEMMA SumCorrect ==
  ASSUME CoverageTypeOK, CoverageInv, Sum
  PROVE  CoverageInv'
<1>1. /\ next \in 1 .. merged /\ merged \in 1 .. Len(arr) /\ next \in DOMAIN arr
      /\ covered = Cardinality(UnitsOf(1 .. next - 1))
      /\ covered' = covered + (arr[next].end - arr[next].start)
      /\ next' = next + 1
      /\ UNCHANGED <<rows, arr, merged, loop>>
      /\ loop = "sum"
  BY DEF Sum, CoverageTypeOK, CoverageInv, SumOK
<1>2. UnitsOf(1 .. next) = UnitsOf(1 .. next - 1) \cup UnitsOf({next})
  BY <1>1 DEF UnitsOf
<1>3. UnitsOf(1 .. next - 1) \cap UnitsOf({next}) = {}
  <2>. SUFFICES ASSUME NEW t \in Start .. End - 1, NEW i \in 1 .. next - 1,
                      t < arr[i].end, arr[next].start <= t
               PROVE  FALSE
    BY DEF UnitsOf
  <2>1. i \in 1 .. merged /\ i < next /\ i \in DOMAIN arr
    BY <1>1 DEF CoverageTypeOK
  <2>2. arr[i].end < arr[next].start
    BY <1>1, <2>1 DEF CoverageInv, OrderOK
  <2>3. arr[i].end \in Nat /\ arr[next].start \in Nat /\ t \in Int
    BY <1>1, <2>1, IntervalType, SpanAssumption
  <2>. QED
    BY <2>2, <2>3
<1>4. Cardinality(UnitsOf(1 .. next)) = covered + (arr[next].end - arr[next].start)
  <2>. DEFINE A == UnitsOf(1 .. next - 1)
             B == UnitsOf({next})
  <2>1. IsFiniteSet(A) /\ Cardinality(A) = covered /\ covered \in Nat
    BY <1>1, UnitsFinite
  <2>2. IsFiniteSet(B) /\ Cardinality(B) = arr[next].end - arr[next].start
        /\ Cardinality(B) \in Nat
    BY <1>1, UnitsOfOne, UnitsFinite
  <2>3. A \cap B = {}
    BY <1>3
  <2>. HIDE DEF A, B
  <2>4. Cardinality(A \cup B) = Cardinality(A) + Cardinality(B)
    <3>1. Cardinality(A \cap B) = 0
      BY <2>3, FS_EmptySet
    <3>2. Cardinality(A \cup B) = Cardinality(A) + Cardinality(B) - Cardinality(A \cap B)
      BY <2>1, <2>2, FS_Union
    <3>. QED
      BY <2>1, <2>2, <3>1, <3>2
  <2>. QED
    BY <1>2, <2>1, <2>2, <2>4 DEF A, B
<1>5. (covered = Cardinality(UnitsOf(1 .. next - 1)))'
  <2>1. UnitsOf(1 .. next - 1)' = UnitsOf(1 .. next)
    BY <1>1 DEF UnitsOf
  <2>. QED
    BY <1>1, <1>4, <2>1
<1>. QED
  BY <1>1, <1>5 DEF CoverageInv, ClipOK, OrderOK, SumOK, MergeLosesNothing, CoveredIsUnion, CoveredUnits, UnitsOf

LEMMA FinishCorrect ==
  ASSUME CoverageTypeOK, CoverageInv, Finish
  PROVE  CoverageInv'
<1>1. next - 1 = merged /\ loop = "sum"
  BY DEF Finish, CoverageTypeOK
<1>2. covered = Cardinality(CoveredUnits)
  BY <1>1 DEF CoverageInv, SumOK, MergeLosesNothing
<1>3. covered <= End - Start
  BY <1>1, UnitsFinite DEF CoverageInv, SumOK
<1>4. covered' = covered
  BY <1>3, SpanAssumption DEF Finish, CoverageTypeOK
<1>. QED
  BY <1>2, <1>4 DEF CoverageInv, ClipOK, OrderOK, SumOK, MergeLosesNothing, CoveredIsUnion, CoveredUnits, Finish

LEMMA CoverageInitCorrect == CoverageInit => CoverageInv
<1>. SUFFICES ASSUME CoverageInit PROVE CoverageInv
  OBVIOUS
<1>1. CoverageTypeOK
  BY CoverageInitType
<1>2. UnitsOf(1 .. Len(arr)) = {} /\ SeenUnits(next - 1) = {}
  BY DEF CoverageInit, UnitsOf, SeenUnits
<1>3. next <= Len(rows) + 1
  BY <1>1 DEF CoverageInit, CoverageTypeOK
<1>. QED
  BY <1>2, <1>3 DEF CoverageInit, CoverageInv, ClipOK, OrderOK, SumOK, MergeLosesNothing, CoveredIsUnion

LEMMA CoverageNextCorrect ==
  ASSUME CoverageTypeOK, CoverageInv, [CoverageNext]_coverageVars
  PROVE  CoverageInv'
<1>1. CASE UNCHANGED coverageVars
  BY <1>1 DEF coverageVars, CoverageInv, ClipOK, OrderOK, SumOK, MergeLosesNothing, CoveredIsUnion,
     CoveredUnits, UnitsOf, SeenUnits
<1>. QED
  BY <1>1, ClipCorrect, NothingKeptCorrect, SortCorrect, AppendApartCorrect, ExtendCorrect,
     EndMergeCorrect, SumCorrect, FinishCorrect DEF CoverageNext

LEMMA CoverageInvariance == CoverageSpec => [](CoverageTypeOK /\ CoverageInv)
<1>1. CoverageInit => CoverageTypeOK /\ CoverageInv
  BY CoverageInitType, CoverageInitCorrect
<1>2. CoverageTypeOK /\ CoverageInv /\ [CoverageNext]_coverageVars => (CoverageTypeOK /\ CoverageInv)'
  BY CoverageNextType, CoverageNextCorrect
<1>. QED
  BY <1>1, <1>2, PTL DEF CoverageSpec

\* Merging in the array that is being read loses and invents no covered time,
\* whatever order the sort gives to equal starts.
THEOREM MergeCorrect == CoverageSpec => []MergeLosesNothing
<1>1. CoverageInv => MergeLosesNothing
  BY DEF CoverageInv
<1>. QED
  BY <1>1, CoverageInvariance, PTL

\* coverageRatio returns the time of the window in which a storm is active, for
\* every window and every list of storms.
THEOREM CoverageCorrect == CoverageSpec => []CoveredIsUnion
<1>1. CoverageInv => CoveredIsUnion
  BY DEF CoverageInv
<1>. QED
  BY <1>1, CoverageInvariance, PTL

-----------------------------------------------------------------------------
(* What RunOnce gets from the call.                                        *)

\* The call is over the rows the query selects from the storms S.
SelectedFrom(S) == {rows[i] : i \in DOMAIN rows} = {st \in S : InWindow(st)}

\* A storm the query leaves out is active at no time of the window.
LEMMA NotSelected ==
  ASSUME NEW st \in Storm, NEW t \in Start .. End - 1, ActiveAt(st, t)
  PROVE  InWindow(st)
<1>1. st.started \in Nat /\ st.ended \in Nat \cup {NULL} /\ t \in Int /\ Start <= t /\ t < End
  BY SpanAssumption DEF Storm
<1>. QED BY <1>1, SpanAssumption, NullAssumption DEF ActiveAt, InWindow

(* What ReadStorms takes from the call in one step, Covered, is what the    *)
(* call computes: over the rows selected from any storms S, coverageRatio   *)
(* returns the time of the window that S covers, the storms the query left  *)
(* out included (engine.go:73-89, 214-259; queries.sql.go:412-419).         *)
THEOREM ReadsCoverage ==
  CoverageSpec =>
    [](\A S \in SUBSET Storm :
         SelectedFrom(S) /\ loop = "done" => covered = CoveredTime(S, Start, End))
<1>1. ASSUME CoveredIsUnion, loop = "done", NEW S \in SUBSET Storm, SelectedFrom(S)
      PROVE  covered = CoveredTime(S, Start, End)
  <2>1. \A t \in Start .. End - 1 :
          (\E i \in DOMAIN rows : ActiveAt(rows[i], t)) <=> (\E st \in S : ActiveAt(st, t))
    <3>1. \A i \in DOMAIN rows : rows[i] \in S
      BY <1>1 DEF SelectedFrom
    <3>2. ASSUME NEW t \in Start .. End - 1, NEW st \in S, ActiveAt(st, t)
          PROVE  \E i \in DOMAIN rows : rows[i] = st
      BY <1>1, <3>2, NotSelected DEF SelectedFrom
    <3>. QED BY <3>1, <3>2
  <2>2. CoveredUnits = {t \in Start .. End - 1 : \E st \in S : ActiveAt(st, t)}
    BY <2>1 DEF CoveredUnits
  <2>. QED BY <1>1, <2>2 DEF CoveredIsUnion, CoveredTime
<1>2. CoveredIsUnion =>
        \A S \in SUBSET Storm :
          SelectedFrom(S) /\ loop = "done" => covered = CoveredTime(S, Start, End)
  BY <1>1
<1>. QED BY <1>2, CoverageCorrect, PTL
=============================================================================
