------------------------ MODULE UsageIngestorProofs ------------------------
(***************************************************************************)
(* What holds of UsageIngestor for any services, hosts, windows, look-back *)
(* and row limit: the type invariant, that stored bytes never exceed what  *)
(* the CDN reported, that an undisturbed run gets its windows right, and   *)
(* the only reasons for stored bytes to shrink.                            *)
(***************************************************************************)
EXTENDS UsageIngestor, FiniteSetTheorems, WellFoundedInduction, TLAPS

-----------------------------------------------------------------------------
(* Numbers.                                                                *)

LEMMA TruncateFacts ==
  ASSUME NEW t \in Nat
  PROVE  /\ Truncate(t) \in Nat
         /\ Truncate(t) <= t /\ t < Truncate(t) + Window
         /\ Truncate(t) % Window = 0
         /\ Truncate(Truncate(t)) = Truncate(t)
<1>. DEFINE q == t \div Window
            r == t % Window
<1>1. Window \in Nat /\ Window > 0
  BY TimesAssumption
<1>2. q \in Nat /\ r \in Nat /\ r < Window /\ t = Window * q + r
  BY <1>1
<1>. HIDE DEF q, r
<1>3. Truncate(t) = q * Window
  BY DEF Truncate, q
<1>4. q * Window \in Nat /\ q * Window = Window * q
  BY <1>1, <1>2
<1>5. (q * Window) % Window = 0 /\ (q * Window) \div Window = q
  BY <1>1, <1>2
<1>. QED BY <1>1, <1>2, <1>3, <1>4, <1>5 DEF Truncate

\* A time before the end of some window is in a window that ends by then.
LEMMA WindowOver ==
  ASSUME NEW t \in Nat, NEW u \in Nat, Truncate(u) = u, t < u
  PROVE  Truncate(t) + Window <= u
<1>. DEFINE q == t \div Window
            p == u \div Window
<1>1. Window \in Nat /\ Window > 0
  BY TimesAssumption
<1>2. q \in Nat /\ p \in Nat /\ Truncate(t) = q * Window /\ u = p * Window
  BY <1>1 DEF Truncate
<1>3. q * Window <= t
  BY <1>2, TruncateFacts
<1>. HIDE DEF q, p
<1>4. q * Window < p * Window
  BY <1>1, <1>2, <1>3
<1>5. q + 1 <= p
  BY <1>1, <1>2, <1>4
<1>6. (q + 1) * Window <= p * Window
  BY <1>1, <1>2, <1>5
<1>7. (q + 1) * Window = q * Window + Window
  BY <1>1, <1>2
<1>. QED BY <1>1, <1>2, <1>6, <1>7

\* Of two times, the lesser.
LEMMA MinOfTwo ==
  ASSUME NEW a \in Nat, NEW b \in Nat
  PROVE  /\ Min({a, b}) \in Nat /\ Min({a, b}) <= a /\ Min({a, b}) <= b
         /\ b <= a => Min({a, b}) = b
<1>1. \E x \in {a, b} : \A y \in {a, b} : x <= y
  OBVIOUS
<1>2. Min({a, b}) \in {a, b} /\ \A y \in {a, b} : Min({a, b}) <= y
  BY <1>1 DEF Min
<1>. QED BY <1>2

(* A finite set of natural numbers that is not empty contains its Max: of  *)
(* the sizes of those that did not, there would be a least one.            *)
LEMMA MaxIn ==
  ASSUME NEW S \in SUBSET Nat, IsFiniteSet(S), S # {}
  PROVE  Max(S) \in S
<1>. DEFINE HasMax(A) == \E x \in A : \A y \in A : y <= x
            Bad == {A \in SUBSET S : A # {} /\ ~HasMax(A)}
            Sizes == {n \in Nat : \E A \in Bad : Cardinality(A) = n}
            Less == {p \in Nat \X Nat : p[1] < p[2]}
<1>1. ASSUME NEW A \in SUBSET S
      PROVE  IsFiniteSet(A) /\ Cardinality(A) \in Nat
  BY FS_Subset, FS_CardinalityType
<1>2. Sizes = {}
  <2>1. SUFFICES ASSUME Sizes # {} PROVE FALSE
    OBVIOUS
  <2>2. IsWellFoundedOn(Less, Nat)
    BY NatLessThanWellFounded, Zenon DEF OpToRel
  <2>3. PICK n \in Sizes : \A m \in Sizes : ~ (<<m, n>> \in Less)
    <3>1. Sizes \subseteq Nat
      OBVIOUS
    <3>. HIDE DEF Sizes, Less
    <3>. QED BY <2>1, <2>2, <3>1, WFMin, Zenon
  <2>4. PICK A \in Bad : Cardinality(A) = n
    OBVIOUS
  <2>5. PICK x \in A : TRUE
    OBVIOUS
  <2>6. Cardinality(A \ {x}) = n - 1 /\ A \ {x} \in SUBSET S
    BY <1>1, <2>4, FS_RemoveElement
  <2>7. n \in Nat /\ n - 1 \in Nat /\ n - 1 < n
    BY <1>1, <2>6
  <2>8. n - 1 \notin Sizes
    <3>. HIDE DEF Sizes
    <3>. QED BY <2>3, <2>7
  <2>9. A \ {x} \notin Bad
    BY <2>6, <2>7, <2>8
  <2>10. A \subseteq Nat /\ ~HasMax(A)
    OBVIOUS
  <2>11. CASE A \ {x} = {}
    BY <2>10, <2>11
  <2>12. CASE HasMax(A \ {x})
    <3>1. PICK m \in A \ {x} : \A y \in A \ {x} : y <= m
      BY <2>12
    <3>2. x <= m \/ m <= x
      BY <2>10
    <3>3. CASE x <= m
      BY <2>10, <3>1, <3>3
    <3>4. CASE m <= x
      <4>1. \A y \in A : y <= x
        BY <2>10, <3>1, <3>4
      <4>. QED BY <2>10, <4>1
    <3>. QED BY <3>2, <3>3, <3>4
  <2>. QED BY <2>6, <2>9, <2>11, <2>12
<1>3. S \notin Bad
  <2>1. Cardinality(S) \notin Sizes
    BY <1>2
  <2>. QED BY <1>1, <2>1
<1>4. \E x \in S : \A y \in S : x >= y
  BY <1>3
<1>. HIDE DEF Bad, Sizes, Less
<1>. QED BY <1>4 DEF Max

-----------------------------------------------------------------------------
(* Bytes, and the rows of an answer.                                       *)

LEMMA LogTypes ==
  ASSUME TypeOK, NEW b \in log
  PROVE  /\ b[1] \in Hosts /\ b[2] \in Units /\ b[2] \in Nat
         /\ 0 <= b[2] /\ b[2] < MaxClock
         /\ Truncate(b[2]) \in Windows
<1>1. b \in Hosts \X Units \X Nat
  BY DEF TypeOK
<1>2. b[1] \in Hosts /\ b[2] \in Units
  BY <1>1
<1>. QED BY <1>2, TimesAssumption DEF Units, Windows

LEMMA WindowTypes ==
  ASSUME NEW w \in Windows
  PROVE  w \in Nat /\ Truncate(w) = w /\ w % Window = 0
<1>1. PICK t \in Units : w = Truncate(t)
  BY DEF Windows
<1>2. t \in Nat
  BY TimesAssumption DEF Units
<1>. QED BY <1>1, <1>2, TruncateFacts

LEMMA BytesNat ==
  ASSUME TypeOK, NEW H, NEW w, NEW from, NEW to
  PROVE  Bytes(H, w, from, to) \in Nat
<1>. DEFINE S == {b \in log : b[1] \in H /\ Truncate(b[2]) = w /\ from <= b[2] /\ b[2] < to}
<1>1. S \in SUBSET log /\ IsFiniteSet(log)
  BY DEF TypeOK
<1>. HIDE DEF S
<1>2. Cardinality(S) \in Nat
  BY <1>1, FS_Subset, FS_CardinalityType
<1>. QED BY <1>2 DEF Bytes, S

\* Fewer hosts and less time have no more bytes.
LEMMA BytesOfFewer ==
  ASSUME TypeOK, NEW H, NEW G \in SUBSET H, NEW w, NEW from, NEW to
  PROVE  Bytes(G, w, from, to) <= Bytes(H, w, 0, MaxClock)
<1>. DEFINE S == {b \in log : b[1] \in G /\ Truncate(b[2]) = w /\ from <= b[2] /\ b[2] < to}
            T == {b \in log : b[1] \in H /\ Truncate(b[2]) = w /\ 0 <= b[2] /\ b[2] < MaxClock}
<1>1. S \in SUBSET T
  BY LogTypes
<1>2. T \in SUBSET log /\ IsFiniteSet(log)
  BY DEF TypeOK
<1>. HIDE DEF S, T
<1>3. Cardinality(S) <= Cardinality(T)
  BY <1>1, <1>2, FS_Subset
<1>. QED BY <1>3 DEF Bytes, S, T

\* A look-back that holds the window as a whole misses none of its bytes.
LEMMA BytesOfWhole ==
  ASSUME TypeOK, NEW H, NEW w \in Windows, NEW to \in Nat, Whole(w, to)
  PROVE  Bytes(H, w, WindowStart(to), to) = Bytes(H, w, 0, MaxClock)
<1>1. ASSUME NEW b \in log, Truncate(b[2]) = w
      PROVE  WindowStart(to) <= b[2] /\ b[2] < to /\ 0 <= b[2] /\ b[2] < MaxClock
  <2>1. b[2] \in Nat /\ 0 <= b[2] /\ b[2] < MaxClock
    BY LogTypes
  <2>2. w <= b[2] /\ b[2] < w + Window /\ w \in Nat
    BY <1>1, <2>1, TruncateFacts
  <2>3. WindowStart(to) <= w /\ w + Window <= to /\ WindowStart(to) \in Int
    BY TimesAssumption DEF Whole, WindowStart
  <2>. QED BY <2>1, <2>2, <2>3, TimesAssumption
<1>. QED BY <1>1 DEF Bytes

\* The bytes of hosts without a row are none.
LEMMA BytesOfRows ==
  ASSUME NEW H, NEW G \in SUBSET H, NEW w, NEW from, NEW to,
         \A h \in H : <<w, h>> \in Rows(H, from, to) => h \in G
  PROVE  Bytes(G, w, from, to) = Bytes(H, w, from, to)
<1>1. ASSUME NEW b \in log, b[1] \in H, Truncate(b[2]) = w, from <= b[2], b[2] < to
      PROVE  b[1] \in G
  <2>1. <<w, b[1]>> \in Rows(H, from, to)
    BY <1>1 DEF Rows
  <2>. QED BY <1>1, <2>1
<1>. QED BY <1>1 DEF Bytes

\* The rows of a log L.
RowsOf(L, H, from, to) ==
  {<<Truncate(b[2]), b[1]>> : b \in {b \in L : b[1] \in H /\ from <= b[2] /\ b[2] < to}}

LEMMA RowsFinite ==
  ASSUME NEW L, IsFiniteSet(L), NEW H, NEW from, NEW to
  PROVE  IsFiniteSet(RowsOf(L, H, from, to)) /\ Cardinality(RowsOf(L, H, from, to)) \in Nat
<1>. DEFINE B == {b \in L : b[1] \in H /\ from <= b[2] /\ b[2] < to}
            R == RowsOf(L, H, from, to)
            f == [b \in B |-> <<Truncate(b[2]), b[1]>>]
<1>1. IsFiniteSet(B)
  <2>1. B \in SUBSET L
    OBVIOUS
  <2>. HIDE DEF B
  <2>. QED BY <2>1, FS_Subset
<1>2. f \in Surjection(B, R)
  <2>1. R = {<<Truncate(b[2]), b[1]>> : b \in B}
    BY DEF RowsOf
  <2>. HIDE DEF B, R
  <2>. QED BY <2>1 DEF Surjection
<1>. HIDE DEF B, R, f
<1>3. IsFiniteSet(R)
  BY <1>1, <1>2, FS_Surjection
<1>4. Cardinality(R) \in Nat
  BY <1>3, FS_CardinalityType
<1>. QED BY <1>3, <1>4 DEF R

\* An answer that fits has every row.
LEMMA AnswerIsWhole ==
  ASSUME TypeOK, NEW H, NEW to, Fits(H, to),
         NEW A \in FirstRows(Rows(H, WindowStart(to), to))
  PROVE  A = Rows(H, WindowStart(to), to)
<1>. DEFINE R == Rows(H, WindowStart(to), to)
<1>1. IsFiniteSet(R) /\ Cardinality(R) \in Nat
  <2>1. R = RowsOf(log, H, WindowStart(to), to)
    BY DEF Rows, RowsOf
  <2>. HIDE DEF R
  <2>. QED BY <2>1, RowsFinite DEF TypeOK
<1>2. Cardinality(R) <= Limit
  BY DEF Fits, WindowStart
<1>3. A \in SUBSET R /\ Cardinality(A) = Min({Limit, Cardinality(R)})
  BY DEF FirstRows
<1>. HIDE DEF R
<1>4. Cardinality(A) = Cardinality(R)
  BY <1>1, <1>2, <1>3, MinOfTwo, LimitAssumption
<1>5. A = R
  BY <1>1, <1>3, <1>4, FS_Subset
<1>. QED BY <1>5 DEF R

-----------------------------------------------------------------------------
(* Owners.                                                                 *)

LEMMA OwnerOfType ==
  ASSUME NEW S \in SUBSET Services
  PROVE  /\ DOMAIN OwnerOf(S) \subseteq Hosts
         /\ \A h \in DOMAIN OwnerOf(S) : OwnerOf(S)[h] \in S
<1>. DEFINE of(h) == {s \in S : <<s, h>> \in domains}
            D == {h \in Hosts : of(h) # {}}
<1>1. OwnerOf(S) = [h \in D |-> Max(of(h))]
  BY DEF OwnerOf
<1>2. ASSUME NEW h \in D
      PROVE  Max(of(h)) \in S
  <2>1. of(h) \in SUBSET S /\ of(h) # {}
    OBVIOUS
  <2>2. of(h) \in SUBSET Nat /\ IsFiniteSet(of(h))
    <3>1. S \in SUBSET Nat /\ IsFiniteSet(S)
      BY ServicesAssumption, FS_Subset
    <3>. HIDE DEF of
    <3>. QED BY <2>1, <3>1, FS_Subset
  <2>3. Max(of(h)) \in of(h)
    <3>. HIDE DEF of
    <3>. QED BY <2>1, <2>2, MaxIn
  <2>. QED BY <2>1, <2>3
<1>. HIDE DEF D
<1>3. \A h \in D : OwnerOf(S)[h] \in S
  BY <1>1, <1>2
<1>4. DOMAIN OwnerOf(S) = D
  BY <1>1
<1>5. D \subseteq Hosts
  BY DEF D
<1>. QED BY <1>3, <1>4, <1>5

-----------------------------------------------------------------------------
(* The invariant.                                                          *)

\* While nothing is edited, a run reads the tables as they began.
Unedited ==
  edits = 0 =>
    /\ live = Services /\ domains = Registered
    /\ pc \notin {"idle", "hung"} => services = Services
    /\ pc \in {"query", "upsert"} => owner = OwnerOf(Services)

(* What a run is about to upsert is no more than was reported, and, unless *)
(* the answer was cut, no less than what is stored.  CountedOnce and       *)
(* NeverShrinks are not inductive without it (engine.go:66-95).            *)
Bounded ==
  edits = 0 =>
    \A k \in DOMAIN pending :
      /\ pending[k] <= Used(k[1], k[2])
      /\ Whole(k[2], until) /\ Fits(DOMAIN owner, until) => Stored(k) <= pending[k]

\* The window w of service s has its bytes, or is about to get them.
Covers(s, w) ==
  IF <<s, w>> \in DOMAIN pending
  THEN pending[<<s, w>>] = Used(s, w)
  ELSE snapshots[<<s, w>>] = Used(s, w)

(* A run in which nothing failed or changed so far holds the tables in its *)
(* locals, and what it has not upserted yet is right.  RunSuffices is not  *)
(* inductive without it (engine.go:33-95).                                 *)
Undisturbed ==
  fresh =>
    /\ pc \notin {"idle", "hung"} => services = live
    /\ pc \in {"query", "upsert"} => owner = OwnerOf(live)
    /\ pc = "upsert" /\ Fits(DOMAIN owner, until) =>
         \A s \in live : \A w \in Windows : Whole(w, until) /\ Used(s, w) > 0 => Covers(s, w)

IInv == TypeOK /\ Unedited /\ Bounded /\ Undisturbed /\ CountedOnce /\ RunSuffices

-----------------------------------------------------------------------------
(* The query.                                                              *)

HostsOf(s) == {h \in DOMAIN owner : owner[h] = s}

Answers == FirstRows(Rows(DOMAIN owner, WindowStart(until), until))

LEMMA AnswerTypes ==
  ASSUME TypeOK, NEW A \in Answers, NEW a \in A
  PROVE  /\ a = <<a[1], a[2]>>
         /\ a[2] \in DOMAIN owner /\ owner[a[2]] \in services
         /\ a[1] \in Windows /\ a[1] + Window <= until
<1>1. A \subseteq Rows(DOMAIN owner, WindowStart(until), until)
  BY DEF Answers, FirstRows
<1>2. PICK b \in log : /\ b[1] \in DOMAIN owner /\ b[2] < until
                       /\ a = <<Truncate(b[2]), b[1]>>
  BY <1>1 DEF Rows
<1>3. Truncate(b[2]) \in Windows /\ b[2] \in Nat
  BY LogTypes
<1>4. Truncate(b[2]) + Window <= until
  BY <1>2, <1>3, WindowOver DEF TypeOK
<1>5. owner[b[1]] \in services
  BY <1>2 DEF TypeOK
<1>. QED BY <1>2, <1>3, <1>4, <1>5

\* What a run aggregates for a service and a window.
LEMMA AggregateFacts ==
  ASSUME TypeOK, NEW A \in Answers, NEW s, NEW w \in Windows
  PROVE  LET from == WindowStart(until)
             total == Bytes(HostsOf(s), w, 0, MaxClock)
         IN  /\ Aggregate(A, <<s, w>>, from) \in Nat
             /\ Aggregate(A, <<s, w>>, from) <= total
             /\ Whole(w, until) /\ Fits(DOMAIN owner, until) =>
                  Aggregate(A, <<s, w>>, from) = total
<1>. DEFINE from == WindowStart(until)
            total == Bytes(HostsOf(s), w, 0, MaxClock)
            G == HostsIn(A, <<s, w>>)
<1>1. G \in SUBSET HostsOf(s)
  BY DEF HostsIn, HostsOf
<1>2. Aggregate(A, <<s, w>>, from) = Bytes(G, w, from, until)
  BY DEF Aggregate
<1>3. Bytes(G, w, from, until) \in Nat /\ Bytes(G, w, from, until) <= total
  <2>. HIDE DEF G
  <2>. QED BY <1>1, BytesNat, BytesOfFewer
<1>4. ASSUME Whole(w, until), Fits(DOMAIN owner, until)
      PROVE  Bytes(G, w, from, until) = total
  <2>1. A = Rows(DOMAIN owner, from, until)
    BY <1>4, AnswerIsWhole DEF Answers
  <2>2. ASSUME NEW h \in HostsOf(s), <<w, h>> \in Rows(HostsOf(s), from, until)
        PROVE  h \in G
    <3>1. <<w, h>> \in A
      BY <2>1, <2>2 DEF Rows, HostsOf
    <3>. QED BY <2>2, <3>1 DEF HostsIn, HostsOf
  <2>3. Bytes(G, w, from, until) = Bytes(HostsOf(s), w, from, until)
    <3>. HIDE DEF G
    <3>. QED BY <1>1, <2>2, BytesOfRows
  <2>4. Bytes(HostsOf(s), w, from, until) = total
    BY <1>4, BytesOfWhole DEF TypeOK
  <2>. QED BY <2>3, <2>4
<1>. QED BY <1>2, <1>3, <1>4

\* A window with bytes that the look-back holds has a row in a whole answer.
LEMMA UsedHasRow ==
  ASSUME TypeOK, NEW A \in Answers, NEW s, NEW w \in Windows,
         Whole(w, until), Fits(DOMAIN owner, until), Bytes(HostsOf(s), w, 0, MaxClock) > 0
  PROVE  \E a \in A : <<owner[a[2]], a[1]>> = <<s, w>>
<1>. DEFINE S == {b \in log : b[1] \in HostsOf(s) /\ Truncate(b[2]) = w
                              /\ WindowStart(until) <= b[2] /\ b[2] < until}
<1>1. Cardinality(S) > 0
  <2>1. Bytes(HostsOf(s), w, WindowStart(until), until) > 0
    BY BytesOfWhole DEF TypeOK
  <2>. QED BY <2>1 DEF Bytes
<1>2. PICK b \in S : TRUE
  <2>. HIDE DEF S
  <2>. QED BY <1>1, FS_EmptySet
<1>3. A = Rows(DOMAIN owner, WindowStart(until), until)
  BY AnswerIsWhole DEF Answers
<1>4. <<w, b[1]>> \in A /\ owner[b[1]] = s
  BY <1>2, <1>3 DEF Rows, HostsOf
<1>. QED BY <1>4

\* The two outcomes of QueryUsage.
LEMMA QueryOutcomes ==
  ASSUME QueryUsage
  PROVE  \E A \in Answers :
           \/ A = {} /\ Return
           \/ /\ pending' = [k \in {<<owner[a[2]], a[1]>> : a \in A} |-> Aggregate(A, k, WindowStart(until))]
              /\ pc' = "upsert"
              /\ UNCHANGED <<services, owner>>
<1>1. PICK A \in Answers :
        IF A = {} THEN Return
        ELSE /\ pending' = [k \in {<<owner[a[2]], a[1]>> : a \in A} |-> Aggregate(A, k, WindowStart(until))]
             /\ pc' = "upsert"
             /\ UNCHANGED <<services, owner>>
  BY DEF QueryUsage, Answers
<1>. QED BY <1>1

-----------------------------------------------------------------------------
(* Types.                                                                  *)

LEMMA InitTypes == Init => TypeOK
<1>. SUFFICES ASSUME Init PROVE TypeOK
  OBVIOUS
<1>1. Truncate(0) = 0
  <2>1. Truncate(0) \in Nat /\ Truncate(0) <= 0
    BY TruncateFacts
  <2>. QED BY <2>1
<1>2. clock \in 0 .. MaxClock /\ log \subseteq Hosts \X Units \X Nat /\ IsFiniteSet(log)
  BY FS_EmptySet, TimesAssumption DEF Init
<1>3. live \subseteq Services /\ domains \subseteq Services \X Hosts
      /\ snapshots \in [Keys -> Nat \cup {NULL}]
  BY ServicesAssumption DEF Init
<1>4. DOMAIN owner = {} /\ DOMAIN pending = {} /\ owner = Nothing /\ pending = Nothing
  BY DEF Init, Nothing
<1>5. pc = "idle" /\ until = 0 /\ services = {} /\ faults = 0 /\ edits = 0 /\ fresh = FALSE
  BY DEF Init
<1>. QED BY <1>1, <1>2, <1>3, <1>4, <1>5 DEF TypeOK

\* The bounds on events and the history variable.
LEMMA EventTypes ==
  ASSUME TypeOK, Fault \/ UNCHANGED <<faults, fresh>>
  PROVE  faults' \in Nat /\ fresh' \in BOOLEAN
<1>1. faults' \in {faults, faults + 1} /\ fresh' \in {fresh, FALSE}
  BY DEF Fault
<1>2. faults' \in Nat
  <2>1. faults \in Nat
    BY DEF TypeOK
  <2>. QED BY <1>1, <2>1
<1>3. fresh' \in BOOLEAN
  <2>1. fresh \in BOOLEAN
    BY DEF TypeOK
  <2>. QED BY <1>1, <2>1, Zenon
<1>. QED BY <1>2, <1>3

LEMMA EditTypes ==
  ASSUME TypeOK, Edit
  PROVE  edits' \in Nat /\ edits' # 0 /\ fresh' \in BOOLEAN /\ ~fresh'
<1>1. edits' \in Nat /\ edits' # 0
  <2>1. edits \in Nat
    BY DEF TypeOK
  <2>. QED BY <2>1 DEF Edit
<1>2. fresh' \in BOOLEAN /\ ~fresh'
  BY Zenon DEF Edit
<1>. QED BY <1>1, <1>2

LEMMA ReturnTypes ==
  ASSUME TypeOK, Return
  PROVE  /\ pc' = "idle" /\ services' = {} /\ owner' = Nothing /\ pending' = Nothing
         /\ DOMAIN owner' = {} /\ DOMAIN pending' = {}
BY DEF Return, Leave, Nothing

LEMMA QueryTypes ==
  ASSUME TypeOK, QueryUsage
  PROVE  TypeOK'
<1>1. UNCHANGED <<clock, log, live, domains, until, snapshots, faults, edits, fresh>> /\ pc = "query"
  BY DEF QueryUsage, world
<1>2. PICK A \in Answers :
        \/ A = {} /\ Return
        \/ /\ pending' = [k \in {<<owner[a[2]], a[1]>> : a \in A} |-> Aggregate(A, k, WindowStart(until))]
           /\ pc' = "upsert"
           /\ UNCHANGED <<services, owner>>
  BY QueryOutcomes
<1>3. CASE Return
  BY <1>1, <1>3, ReturnTypes DEF TypeOK
<1>4. CASE /\ pending' = [k \in {<<owner[a[2]], a[1]>> : a \in A} |-> Aggregate(A, k, WindowStart(until))]
           /\ pc' = "upsert"
           /\ UNCHANGED <<services, owner>>
  <2>1. ASSUME NEW k \in DOMAIN pending'
        PROVE  /\ k \in Keys /\ k[1] \in services'
               /\ k[2] % Window = 0 /\ k[2] + Window <= until'
               /\ pending'[k] \in Nat
    <3>1. PICK a \in A : k = <<owner[a[2]], a[1]>>
      BY <1>4
    <3>2. owner[a[2]] \in services /\ a[1] \in Windows /\ a[1] + Window <= until
      BY AnswerTypes
    <3>3. a[1] % Window = 0
      BY <3>2, WindowTypes
    <3>4. k \in Keys
      BY <3>1, <3>2 DEF Keys, TypeOK
    <3>5. pending'[k] = Aggregate(A, k, WindowStart(until))
      BY <1>4
    <3>6. Aggregate(A, k, WindowStart(until)) \in Nat
      BY <3>1, <3>2, AggregateFacts
    <3>. QED BY <1>1, <1>4, <3>1, <3>2, <3>3, <3>4, <3>5, <3>6
  <2>. QED BY <1>1, <1>4, <2>1 DEF TypeOK
<1>. QED BY <1>2, <1>3, <1>4

LEMMA UpsertTypes ==
  ASSUME TypeOK, NEW k \in Keys, Upsert(k) \/ LosesReply(k)
  PROVE  TypeOK'
<1>1. /\ snapshots' = [snapshots EXCEPT ![k] = pending[k]]
      /\ pc = "upsert" /\ k \in DOMAIN pending
      /\ UNCHANGED <<clock, log, live, domains, until, edits>>
  BY DEF Upsert, LosesReply, UpsertUsageSnapshot, world
<1>5. faults' \in Nat /\ fresh' \in BOOLEAN
  BY EventTypes DEF Upsert, LosesReply
<1>2. snapshots' \in [Keys -> Nat \cup {NULL}]
  BY <1>1 DEF TypeOK
<1>3. CASE Return
  BY <1>1, <1>2, <1>3, <1>5, ReturnTypes DEF TypeOK
<1>4. CASE /\ pending' = [j \in DOMAIN pending \ {k} |-> pending[j]]
           /\ UNCHANGED <<pc, services, owner>>
  BY <1>1, <1>2, <1>4, <1>5 DEF TypeOK
<1>. QED BY <1>3, <1>4 DEF Upsert, LosesReply

LEMMA StepTypes ==
  ASSUME TypeOK, [Next]_vars
  PROVE  TypeOK'
<1>1. CASE ListServices
  <2>1. /\ until' = Truncate(clock) /\ fresh' = TRUE /\ pc = "idle"
        /\ UNCHANGED <<clock, log, live, domains, snapshots, faults, edits>>
    BY <1>1 DEF ListServices, world
  <2>2. until' \in Nat /\ Truncate(until') = until'
    <3>1. clock \in Nat
      BY TimesAssumption DEF TypeOK
    <3>. QED BY <2>1, <3>1, TruncateFacts
  <2>3. owner = Nothing /\ pending = Nothing /\ DOMAIN owner = {} /\ DOMAIN pending = {}
    BY <2>1 DEF TypeOK, Nothing
  <2>4. Truncate(until)' = Truncate(until')
    BY DEF Truncate
  <2>5. CASE Return
    BY <2>1, <2>2, <2>4, <2>5, ReturnTypes DEF TypeOK
  <2>6. CASE services' = live /\ pc' = "domains" /\ UNCHANGED <<owner, pending>>
    BY <2>1, <2>2, <2>3, <2>4, <2>6 DEF TypeOK
  <2>. QED BY <1>1, <2>5, <2>6 DEF ListServices
<1>2. CASE LoadDomains
  <2>1. /\ pc = "domains"
        /\ UNCHANGED <<clock, log, live, domains, until, snapshots, faults, edits, fresh>>
    BY <1>2 DEF LoadDomains, LoadOwners, world
  <2>2. pending = Nothing /\ DOMAIN pending = {}
    BY <2>1 DEF TypeOK, Nothing
  <2>3. CASE Return
    BY <2>1, <2>3, ReturnTypes DEF TypeOK
  <2>4. CASE owner' = OwnerOf(services) /\ pc' = "query" /\ UNCHANGED <<services, pending>>
    <3>1. services \in SUBSET Services
      BY DEF TypeOK
    <3>2. DOMAIN owner' \subseteq Hosts /\ \A h \in DOMAIN owner' : owner'[h] \in services
      BY <2>4, <3>1, OwnerOfType
    <3>. QED BY <2>1, <2>2, <2>4, <3>2 DEF TypeOK
  <2>. QED BY <1>2, <2>3, <2>4 DEF LoadDomains, LoadOwners
<1>3. CASE QueryUsage
  BY <1>3, QueryTypes
<1>4. ASSUME NEW k \in Keys, Upsert(k) \/ LosesReply(k)
      PROVE  TypeOK'
  BY <1>4, UpsertTypes
<1>5. CASE Fails
  <2>1. /\ UNCHANGED <<clock, log, live, domains, until, snapshots, edits>> /\ Return
    BY <1>5 DEF Fails, world
  <2>2. faults' \in Nat /\ fresh' \in BOOLEAN
    BY <1>5, EventTypes DEF Fails
  <2>. QED BY <2>1, <2>2, ReturnTypes DEF TypeOK
<1>6. CASE Tick
  BY <1>6, TimesAssumption DEF Tick, TypeOK, locals
<1>7. ASSUME NEW h \in Hosts, NEW t \in Busy, Report(h, t)
      PROVE  TypeOK'
  <2>. DEFINE seen == {b \in log : b[1] = h /\ b[2] = t}
              n == Cardinality(seen) + 1
  <2>1. n \in Nat
    <3>1. seen \in SUBSET log /\ IsFiniteSet(log)
      BY DEF TypeOK
    <3>. HIDE DEF seen
    <3>2. Cardinality(seen) \in Nat
      BY <3>1, FS_Subset, FS_CardinalityType
    <3>. QED BY <3>2
  <2>2. log' = log \cup {<<h, t, n>>}
    BY <1>7 DEF Report
  <2>. HIDE DEF n
  <2>3. <<h, t, n>> \in Hosts \X Units \X Nat
    BY <2>1, TimesAssumption DEF Units
  <2>4. log' \subseteq Hosts \X Units \X Nat /\ IsFiniteSet(log')
    BY <2>2, <2>3, FS_AddElement DEF TypeOK
  <2>. QED BY <1>7, <2>4 DEF Report, TypeOK, locals
<1>8. ASSUME NEW s \in Services, DeleteService(s)
      PROVE  TypeOK'
  <2>1. /\ UNCHANGED <<clock, log, domains, snapshots, locals, faults>>
        /\ live' \subseteq Services
    BY <1>8 DEF DeleteService, TypeOK
  <2>2. edits' \in Nat /\ fresh' \in BOOLEAN
    BY <1>8, EditTypes DEF DeleteService
  <2>. QED BY <2>1, <2>2 DEF TypeOK, locals
<1>9. ASSUME NEW s \in Services, NEW h \in Hosts, EditDomain(s, h)
      PROVE  TypeOK'
  <2>1. domains' \subseteq Services \X Hosts
    BY <1>9 DEF EditDomain, TypeOK
  <2>2. UNCHANGED <<clock, log, live, snapshots, locals, faults>>
    BY <1>9 DEF EditDomain
  <2>3. edits' \in Nat /\ fresh' \in BOOLEAN
    BY <1>9, EditTypes DEF EditDomain
  <2>. QED BY <2>1, <2>2, <2>3 DEF TypeOK, locals
<1>10. CASE Hangs
  BY <1>10 DEF Hangs, Leave, Nothing, TypeOK, world
<1>11. CASE UNCHANGED vars
  BY <1>11 DEF vars, world, locals, TypeOK
<1>. QED BY <1>1, <1>2, <1>3, <1>4, <1>5, <1>6, <1>7, <1>8, <1>9, <1>10, <1>11 DEF Next, Run


-----------------------------------------------------------------------------
(* What a step leaves alone.                                               *)

LEMMA TablesKept ==
  ASSUME UNCHANGED <<log, live, domains>>
  PROVE  /\ OwnerOf(live)' = OwnerOf(live)
         /\ \A S : OwnerOf(S)' = OwnerOf(S)
         /\ \A s, w : Used(s, w)' = Used(s, w)
         /\ \A H, to : Fits(H, to)' = Fits(H, to)
<1>1. \A S : OwnerOf(S)' = OwnerOf(S)
  BY DEF OwnerOf
<1>2. OwnerOf(live)' = OwnerOf(live)
  BY DEF OwnerOf
<1>3. \A s, w : Used(s, w)' = Used(s, w)
  BY <1>2 DEF Used, Bytes
<1>4. \A H, to : Fits(H, to)' = Fits(H, to)
  BY DEF Fits, Rows
<1>. QED BY <1>1, <1>2, <1>3, <1>4

\* Reports add to what was used, and never make an answer fit.
LEMMA ReportGrows ==
  ASSUME TypeOK, TypeOK', NEW h \in Hosts, NEW t \in Busy, Report(h, t)
  PROVE  /\ \A S : OwnerOf(S)' = OwnerOf(S)
         /\ \A s, w : Used(s, w) \in Nat /\ Used(s, w)' \in Nat /\ Used(s, w) <= Used(s, w)'
         /\ Fits(DOMAIN owner, until)' => Fits(DOMAIN owner, until)
<1>1. log \subseteq log' /\ IsFiniteSet(log) /\ IsFiniteSet(log')
      /\ UNCHANGED <<live, domains, owner, until>>
  BY DEF Report, TypeOK, locals
<1>2. \A S : OwnerOf(S)' = OwnerOf(S)
  BY <1>1 DEF OwnerOf
<1>3. OwnerOf(live)' = OwnerOf(live)
  BY <1>1 DEF OwnerOf
<1>4. ASSUME NEW s, NEW w
      PROVE  Used(s, w) \in Nat /\ Used(s, w)' \in Nat /\ Used(s, w) <= Used(s, w)'
  <2>. DEFINE own == OwnerOf(live)
              H == {i \in DOMAIN own : own[i] = s}
  <2>1. Used(s, w) = Bytes(H, w, 0, MaxClock)
    BY DEF Used
  <2>2. Used(s, w)' = Cardinality({b \in log' : b[1] \in H /\ Truncate(b[2]) = w /\ 0 <= b[2] /\ b[2] < MaxClock})
    BY <1>3 DEF Used, Bytes, Truncate
  <2>. HIDE DEF H
  <2>3. Bytes(H, w, 0, MaxClock) \in Nat
    BY BytesNat
  <2>. DEFINE A == {b \in log : b[1] \in H /\ Truncate(b[2]) = w /\ 0 <= b[2] /\ b[2] < MaxClock}
              B == {b \in log' : b[1] \in H /\ Truncate(b[2]) = w /\ 0 <= b[2] /\ b[2] < MaxClock}
  <2>4. A \in SUBSET B /\ B \in SUBSET log'
    BY <1>1
  <2>5. Bytes(H, w, 0, MaxClock) = Cardinality(A)
    BY DEF Bytes
  <2>. HIDE DEF A
  <2>6. Used(s, w)' = Cardinality(B)
    BY <2>2
  <2>. HIDE DEF B
  <2>7. Cardinality(A) <= Cardinality(B) /\ Cardinality(B) \in Nat
    BY <1>1, <2>4, FS_Subset, FS_CardinalityType
  <2>. QED BY <2>1, <2>3, <2>5, <2>6, <2>7
<1>5. ASSUME Fits(DOMAIN owner, until)' PROVE Fits(DOMAIN owner, until)
  <2>. DEFINE H == DOMAIN owner
              R == RowsOf(log, H, until - Lookback, until)
              Q == RowsOf(log', H, until - Lookback, until)
  <2>1. Cardinality(Q) <= Limit
    BY <1>1, <1>5 DEF Fits, Rows, RowsOf, Truncate
  <2>2. R \in SUBSET Q
    BY <1>1 DEF RowsOf
  <2>3. Fits(H, until) <=> Cardinality(R) <= Limit
    BY DEF Fits, Rows, RowsOf
  <2>4. IsFiniteSet(Q) /\ Cardinality(R) \in Nat /\ Cardinality(Q) \in Nat
    <3>. HIDE DEF H
    <3>. QED BY <1>1, RowsFinite
  <2>. HIDE DEF R, Q
  <2>5. Cardinality(R) <= Cardinality(Q)
    BY <2>2, <2>4, FS_Subset
  <2>. QED BY <2>1, <2>3, <2>4, <2>5, LimitAssumption
<1>. QED BY <1>2, <1>4, <1>5

\* Used, by the hosts of a run that has the owners right.
LEMMA UsedByRun ==
  ASSUME owner = OwnerOf(live), NEW s, NEW w
  PROVE  Used(s, w) = Bytes(HostsOf(s), w, 0, MaxClock)
BY DEF Used, HostsOf

\* Nobody uses anything while nobody owns a host.
LEMMA UsedByNobody ==
  ASSUME OwnerOf(live) = Nothing, NEW s, NEW w
  PROVE  Used(s, w) = 0
<1>1. DOMAIN OwnerOf(live) = {}
  BY DEF Nothing
<1>2. {b \in log : b[1] \in {h \in DOMAIN OwnerOf(live) : OwnerOf(live)[h] = s}
                   /\ Truncate(b[2]) = w /\ 0 <= b[2] /\ b[2] < MaxClock} = {}
  BY <1>1
<1>. QED BY <1>2, FS_EmptySet DEF Used, Bytes

\* Where a step of the run leaves the tables and the history alone.
LEMMA UpsertStep ==
  ASSUME TypeOK, NEW k \in Keys, Upsert(k) \/ LosesReply(k)
  PROVE  /\ UNCHANGED <<log, live, domains, until, edits>> /\ pc = "upsert"
         /\ k \in DOMAIN pending /\ pending[k] \in Nat /\ pending[k] # NULL
         /\ snapshots' = [snapshots EXCEPT ![k] = pending[k]]
         /\ Stored(k)' = pending[k]
         /\ \A j \in Keys \ {k} : snapshots'[j] = snapshots[j] /\ Stored(j)' = Stored(j)
<1>1. /\ UNCHANGED <<log, live, domains, until, edits>> /\ pc = "upsert"
      /\ k \in DOMAIN pending /\ snapshots' = [snapshots EXCEPT ![k] = pending[k]]
  BY DEF Upsert, LosesReply, UpsertUsageSnapshot, world
<1>2. pending[k] \in Nat /\ pending[k] # NULL
  BY <1>1, NullAssumption DEF TypeOK
<1>3. snapshots'[k] = pending[k] /\ \A j \in Keys \ {k} : snapshots'[j] = snapshots[j]
  BY <1>1 DEF TypeOK
<1>. QED BY <1>1, <1>2, <1>3 DEF Stored

-----------------------------------------------------------------------------
(* Undisturbed runs.                                                       *)

LEMMA UneditedStep ==
  ASSUME TypeOK, Unedited, [Next]_vars
  PROVE  Unedited'
<1>1. CASE ListServices
  <2>1. UNCHANGED <<edits, live, domains>> /\ pc' \in {"idle", "domains"}
        /\ (pc' # "idle" => services' = live)
    BY <1>1 DEF ListServices, Return, Leave, world
  <2>. QED BY <2>1 DEF Unedited
<1>2. CASE LoadDomains
  <2>1. UNCHANGED <<edits, log, live, domains>> /\ pc = "domains"
    BY <1>2 DEF LoadDomains, LoadOwners, world
  <2>2. OwnerOf(Services)' = OwnerOf(Services)
    BY <2>1, TablesKept
  <2>3. pc' = "idle" \/ (pc' = "query" /\ owner' = OwnerOf(services) /\ services' = services)
    BY <1>2 DEF LoadDomains, LoadOwners, Return, Leave
  <2>. QED BY <2>1, <2>2, <2>3 DEF Unedited
<1>3. CASE \/ QueryUsage \/ Fails \/ Hangs \/ Tick
           \/ \E k \in Keys : Upsert(k) \/ LosesReply(k)
           \/ UNCHANGED vars
  <2>1. UNCHANGED <<edits, log, live, domains>>
    BY <1>3 DEF QueryUsage, Fails, Hangs, Tick, Upsert, LosesReply, vars, world
  <2>2. OwnerOf(Services)' = OwnerOf(Services)
    BY <2>1, TablesKept
  <2>3. \/ pc' \in {"idle", "hung"}
        \/ pc \in {"query", "upsert"} /\ UNCHANGED <<services, owner>>
        \/ UNCHANGED <<pc, services, owner>>
    BY <1>3 DEF QueryUsage, Fails, Hangs, Tick, Upsert, LosesReply, Return, Leave, vars, locals
  <2>. QED BY <2>1, <2>2, <2>3 DEF Unedited
<1>4. ASSUME NEW h \in Hosts, NEW t \in Busy, Report(h, t)
      PROVE  Unedited'
  <2>1. UNCHANGED <<edits, live, domains, pc, services, owner>>
    BY <1>4 DEF Report, locals
  <2>2. OwnerOf(Services)' = OwnerOf(Services)
    BY <2>1 DEF OwnerOf
  <2>. QED BY <2>1, <2>2 DEF Unedited
<1>5. CASE \/ \E s \in Services : DeleteService(s)
           \/ \E s \in Services, h \in Hosts : EditDomain(s, h)
  <2>1. Edit
    BY <1>5 DEF DeleteService, EditDomain
  <2>. QED BY <2>1, EditTypes DEF Unedited
<1>. QED BY <1>1, <1>2, <1>3, <1>4, <1>5 DEF Next, Run

LEMMA UndisturbedStep ==
  ASSUME TypeOK, Undisturbed, [Next]_vars
  PROVE  Undisturbed'
<1>. SUFFICES ASSUME fresh' PROVE Undisturbed'
  BY DEF Undisturbed
<1>1. CASE ListServices
  <2>1. UNCHANGED live /\ pc' \in {"idle", "domains"} /\ (pc' # "idle" => services' = live)
    BY <1>1 DEF ListServices, Return, Leave, world
  <2>. QED BY <2>1 DEF Undisturbed
<1>2. CASE LoadDomains
  <2>1. UNCHANGED <<fresh, log, live, domains>> /\ pc = "domains"
    BY <1>2 DEF LoadDomains, LoadOwners, world
  <2>2. OwnerOf(live)' = OwnerOf(live)
    BY <2>1, TablesKept
  <2>3. pc' = "idle" \/ (pc' = "query" /\ owner' = OwnerOf(services) /\ services' = services)
    BY <1>2 DEF LoadDomains, LoadOwners, Return, Leave
  <2>. QED BY <2>1, <2>2, <2>3 DEF Undisturbed
<1>3. CASE QueryUsage
  <2>1. UNCHANGED <<fresh, log, live, domains, until, snapshots>> /\ pc = "query"
    BY <1>3 DEF QueryUsage, world
  <2>2. services = live /\ owner = OwnerOf(live)
    BY <2>1 DEF Undisturbed
  <2>3. OwnerOf(live)' = OwnerOf(live) /\ (\A s, w : Used(s, w)' = Used(s, w))
    BY <2>1, TablesKept
  <2>4. PICK A \in Answers :
          \/ A = {} /\ Return
          \/ /\ pending' = [k \in {<<owner[a[2]], a[1]>> : a \in A} |-> Aggregate(A, k, WindowStart(until))]
             /\ pc' = "upsert"
             /\ UNCHANGED <<services, owner>>
    BY <1>3, QueryOutcomes
  <2>5. CASE Return
    BY <2>5 DEF Return, Leave, Undisturbed
  <2>6. CASE /\ pending' = [k \in {<<owner[a[2]], a[1]>> : a \in A} |-> Aggregate(A, k, WindowStart(until))]
             /\ pc' = "upsert"
             /\ UNCHANGED <<services, owner>>
    <3>1. (Fits(DOMAIN owner, until))' = Fits(DOMAIN owner, until)
      BY <2>1, <2>6 DEF Fits, Rows
    <3>2. ASSUME Fits(DOMAIN owner, until), NEW s \in live, NEW w \in Windows,
                 Whole(w, until), Used(s, w) > 0
          PROVE  Covers(s, w)'
      <4>1. Used(s, w) = Bytes(HostsOf(s), w, 0, MaxClock)
        BY <2>2, UsedByRun
      <4>2. \E a \in A : <<owner[a[2]], a[1]>> = <<s, w>>
        BY <3>2, <4>1, UsedHasRow
      <4>3. Aggregate(A, <<s, w>>, WindowStart(until)) = Used(s, w)
        BY <3>2, <4>1, AggregateFacts
      <4>4. <<s, w>> \in DOMAIN pending' /\ pending'[<<s, w>>] = Aggregate(A, <<s, w>>, WindowStart(until))
        BY <2>6, <4>2
      <4>. QED BY <2>3, <4>3, <4>4 DEF Covers
    <3>3. \A w : Whole(w, until)' = Whole(w, until)
      BY <2>1 DEF Whole
    <3>. QED BY <2>1, <2>2, <2>3, <2>6, <3>1, <3>2, <3>3 DEF Undisturbed
  <2>. QED BY <2>4, <2>5, <2>6
<1>4. ASSUME NEW k \in Keys, Upsert(k)
      PROVE  Undisturbed'
  <2>1. /\ UNCHANGED <<log, live, domains, until, edits>> /\ pc = "upsert"
        /\ k \in DOMAIN pending
        /\ Stored(k)' = pending[k] /\ snapshots'[k] = pending[k]
        /\ \A j \in Keys \ {k} : snapshots'[j] = snapshots[j]
    BY <1>4, UpsertStep DEF TypeOK
  <2>2. UNCHANGED fresh
    BY <1>4 DEF Upsert
  <2>3. OwnerOf(live)' = OwnerOf(live) /\ (\A s, w : Used(s, w)' = Used(s, w))
    BY <2>1, TablesKept
  <2>4. CASE Return
    BY <2>4 DEF Return, Leave, Undisturbed
  <2>5. CASE /\ pending' = [j \in DOMAIN pending \ {k} |-> pending[j]]
             /\ UNCHANGED <<pc, services, owner>>
    <3>1. (Fits(DOMAIN owner, until))' = Fits(DOMAIN owner, until)
      BY <2>1, <2>5 DEF Fits, Rows
    <3>2. ASSUME NEW s \in live, NEW w \in Windows, Covers(s, w)
          PROVE  Covers(s, w)'
      <4>1. <<s, w>> \in Keys
        BY DEF Keys, TypeOK
      <4>2. CASE <<s, w>> = k
        BY <2>1, <2>3, <2>5, <3>2, <4>2 DEF Covers
      <4>3. CASE <<s, w>> # k
        BY <2>1, <2>3, <2>5, <3>2, <4>1, <4>3 DEF Covers
      <4>. QED BY <4>2, <4>3
    <3>3. \A w : Whole(w, until)' = Whole(w, until)
      BY <2>1 DEF Whole
    <3>. QED BY <2>1, <2>2, <2>3, <2>5, <3>1, <3>2, <3>3 DEF Undisturbed
  <2>. QED BY <1>4, <2>4, <2>5 DEF Upsert
<1>5. CASE Tick \/ UNCHANGED vars
  <2>1. UNCHANGED <<fresh, log, live, domains, until, snapshots, pc, services, owner, pending>>
    BY <1>5 DEF Tick, locals, vars, world
  <2>2. OwnerOf(live)' = OwnerOf(live) /\ (\A s, w : Used(s, w)' = Used(s, w))
    BY <2>1, TablesKept
  <2>3. (Fits(DOMAIN owner, until))' = Fits(DOMAIN owner, until)
    BY <2>1 DEF Fits, Rows
  <2>4. (\A w : Whole(w, until)' = Whole(w, until)) /\ (\A s, w : Covers(s, w)' = Covers(s, w))
    BY <2>1, <2>2 DEF Whole, Covers
  <2>. QED BY <2>1, <2>2, <2>3, <2>4 DEF Undisturbed
<1>6. CASE \/ Fails \/ Hangs
           \/ \E k \in Keys : LosesReply(k)
           \/ \E h \in Hosts, t \in Busy : Report(h, t)
           \/ \E s \in Services : DeleteService(s)
           \/ \E s \in Services, h \in Hosts : EditDomain(s, h)
  <2>1. fresh' = FALSE
    BY <1>6 DEF Fails, Hangs, LosesReply, Report, DeleteService, EditDomain, Fault, Edit
  <2>. QED BY <2>1
<1>. QED BY <1>1, <1>2, <1>3, <1>4, <1>5, <1>6 DEF Next, Run

LEMMA RunSufficesStep ==
  ASSUME TypeOK, Undisturbed, RunSuffices, [Next]_vars
  PROVE  RunSuffices'
<1>. SUFFICES ASSUME fresh', pc' = "idle" PROVE Right(until)'
  BY DEF RunSuffices
<1>1. CASE ListServices
  <2>1. live = {} /\ live' = live
    BY <1>1 DEF ListServices, world
  <2>. QED BY <2>1 DEF Right
<1>2. CASE LoadDomains
  <2>1. UNCHANGED <<fresh, log, live, domains>> /\ pc = "domains"
    BY <1>2 DEF LoadDomains, LoadOwners, world
  <2>2. OwnerOf(services) = Nothing
    BY <1>2 DEF LoadDomains, LoadOwners
  <2>3. services = live
    BY <2>1 DEF Undisturbed
  <2>4. \A s, w : Used(s, w)' = 0
    BY <2>1, <2>2, <2>3, UsedByNobody, TablesKept
  <2>. QED BY <2>4 DEF Right
<1>3. CASE QueryUsage
  <2>1. UNCHANGED <<fresh, log, live, domains, until, snapshots>> /\ pc = "query"
    BY <1>3 DEF QueryUsage, world
  <2>2. owner = OwnerOf(live)
    BY <2>1 DEF Undisturbed
  <2>3. PICK A \in Answers : A = {}
    BY <1>3, QueryOutcomes
  <2>4. OwnerOf(live)' = OwnerOf(live) /\ (\A s, w : Used(s, w)' = Used(s, w))
        /\ (\A H, to : Fits(H, to)' = Fits(H, to))
    BY <2>1, TablesKept
  <2>5. (Fits(DOMAIN OwnerOf(live), until))' = Fits(DOMAIN owner, until)
    BY <2>1, <2>2, <2>4 DEF Fits, Rows
  <2>6. ASSUME Fits(DOMAIN owner, until), NEW s \in live, NEW w \in Windows,
               Whole(w, until), Used(s, w) > 0
        PROVE  FALSE
    <3>1. Bytes(HostsOf(s), w, 0, MaxClock) > 0
      BY <2>2, <2>6, UsedByRun
    <3>. QED BY <2>3, <2>6, <3>1, UsedHasRow
  <2>7. \A w : Whole(w, until)' = Whole(w, until)
    BY <2>1 DEF Whole
  <2>. QED BY <2>1, <2>4, <2>5, <2>6, <2>7 DEF Right
<1>4. ASSUME NEW k \in Keys, Upsert(k)
      PROVE  Right(until)'
  <2>1. /\ UNCHANGED <<log, live, domains, until, edits>> /\ pc = "upsert"
        /\ k \in DOMAIN pending /\ snapshots'[k] = pending[k]
        /\ \A j \in Keys \ {k} : snapshots'[j] = snapshots[j]
    BY <1>4, UpsertStep DEF TypeOK
  <2>2. UNCHANGED fresh /\ DOMAIN pending = {k}
    BY <1>4, <2>1 DEF Upsert
  <2>3. OwnerOf(live)' = OwnerOf(live) /\ (\A s, w : Used(s, w)' = Used(s, w))
    BY <2>1, TablesKept
  <2>4. owner = OwnerOf(live)
    BY <2>1, <2>2 DEF Undisturbed
  <2>5. (Fits(DOMAIN OwnerOf(live), until))' = Fits(DOMAIN owner, until)
    BY <2>1, <2>3, <2>4 DEF Fits, Rows
  <2>6. ASSUME Fits(DOMAIN owner, until), NEW s \in live, NEW w \in Windows,
               Whole(w, until), Used(s, w) > 0
        PROVE  snapshots'[<<s, w>>] = Used(s, w)
    <3>1. Covers(s, w)
      BY <2>1, <2>2, <2>6 DEF Undisturbed
    <3>2. <<s, w>> \in Keys
      BY DEF Keys, TypeOK
    <3>. QED BY <2>1, <2>2, <3>1, <3>2 DEF Covers
  <2>7. \A w : Whole(w, until)' = Whole(w, until)
    BY <2>1 DEF Whole
  <2>. QED BY <2>1, <2>3, <2>5, <2>6, <2>7 DEF Right
<1>5. CASE Tick \/ UNCHANGED vars
  <2>1. UNCHANGED <<fresh, log, live, domains, until, snapshots, pc>>
    BY <1>5 DEF Tick, locals, vars, world
  <2>2. Right(until)
    BY <2>1 DEF RunSuffices
  <2>3. OwnerOf(live)' = OwnerOf(live) /\ (\A s, w : Used(s, w)' = Used(s, w))
    BY <2>1, TablesKept
  <2>4. (Fits(DOMAIN OwnerOf(live), until))' = Fits(DOMAIN OwnerOf(live), until)
    BY <2>1, <2>3 DEF Fits, Rows
  <2>5. \A w : Whole(w, until)' = Whole(w, until)
    BY <2>1 DEF Whole
  <2>. QED BY <2>1, <2>2, <2>3, <2>4, <2>5 DEF Right
<1>6. CASE \/ Fails \/ Hangs
           \/ \E k \in Keys : LosesReply(k)
           \/ \E h \in Hosts, t \in Busy : Report(h, t)
           \/ \E s \in Services : DeleteService(s)
           \/ \E s \in Services, h \in Hosts : EditDomain(s, h)
  <2>1. fresh' = FALSE
    BY <1>6 DEF Fails, Hangs, LosesReply, Report, DeleteService, EditDomain, Fault, Edit
  <2>. QED BY <2>1
<1>. QED BY <1>1, <1>2, <1>3, <1>4, <1>5, <1>6 DEF Next, Run

-----------------------------------------------------------------------------
(* What is stored and what is about to be.                                 *)

LEMMA StoredNat ==
  ASSUME TypeOK, NEW k \in Keys
  PROVE  Stored(k) \in Nat
BY DEF TypeOK, Stored

LEMMA BoundedByQuery ==
  ASSUME TypeOK, Unedited, CountedOnce, QueryUsage
  PROVE  Bounded'
<1>. SUFFICES ASSUME edits' = 0, NEW k \in DOMAIN pending'
     PROVE  /\ pending'[k] <= Used(k[1], k[2])'
            /\ (Whole(k[2], until) /\ Fits(DOMAIN owner, until))' => Stored(k)' <= pending'[k]
  BY DEF Bounded
<1>1. UNCHANGED <<edits, log, live, domains, until, snapshots>> /\ pc = "query"
  BY DEF QueryUsage, world
<1>2. owner = OwnerOf(live)
  BY <1>1 DEF Unedited
<1>3. \A s, w : Used(s, w)' = Used(s, w)
  BY <1>1, TablesKept
<1>4. PICK A \in Answers :
        \/ A = {} /\ Return
        \/ /\ pending' = [j \in {<<owner[a[2]], a[1]>> : a \in A} |-> Aggregate(A, j, WindowStart(until))]
           /\ pc' = "upsert"
           /\ UNCHANGED <<services, owner>>
  BY QueryOutcomes
<1>5. ~Return
  BY DEF Return, Leave, Nothing
<1>6. UNCHANGED owner
  BY <1>4, <1>5
<1>7. pending'[k] = Aggregate(A, k, WindowStart(until))
  BY <1>4, <1>5
<1>8. PICK a \in A : k = <<owner[a[2]], a[1]>>
  BY <1>4, <1>5
<1>9. k = <<k[1], k[2]>> /\ k[1] \in Services /\ k[2] \in Windows
  BY <1>8, AnswerTypes DEF TypeOK
<1>10. Used(k[1], k[2]) = Bytes(HostsOf(k[1]), k[2], 0, MaxClock)
  BY <1>2, UsedByRun
<1>11. Aggregate(A, k, WindowStart(until)) <= Used(k[1], k[2])
  BY <1>9, <1>10, AggregateFacts
<1>12. ASSUME Whole(k[2], until), Fits(DOMAIN owner, until)
       PROVE  Stored(k) <= Aggregate(A, k, WindowStart(until))
  <2>1. Aggregate(A, k, WindowStart(until)) = Used(k[1], k[2])
    BY <1>9, <1>10, <1>12, AggregateFacts
  <2>2. Stored(k) <= Used(k[1], k[2])
    BY <1>1, <1>9 DEF CountedOnce
  <2>. QED BY <2>1, <2>2
<1>13. (Whole(k[2], until) /\ Fits(DOMAIN owner, until))' => Whole(k[2], until) /\ Fits(DOMAIN owner, until)
  BY <1>1, <1>6 DEF Whole, Fits, Rows
<1>14. Stored(k)' = Stored(k)
  BY <1>1 DEF Stored
<1>. QED BY <1>3, <1>7, <1>11, <1>12, <1>13, <1>14

LEMMA BoundedStep ==
  ASSUME TypeOK, TypeOK', Unedited, CountedOnce, Bounded, [Next]_vars
  PROVE  Bounded'
<1>1. ASSUME pending' = Nothing
      PROVE  Bounded'
  BY <1>1 DEF Bounded, Nothing
<1>2. CASE ListServices \/ LoadDomains \/ Fails \/ Hangs \/ (\E k \in Keys : LosesReply(k))
  <2>1. pending' = Nothing
    BY <1>2 DEF ListServices, LoadDomains, LoadOwners, Fails, LosesReply, Hangs, Return, Leave, TypeOK
  <2>. QED BY <1>1, <2>1
<1>3. CASE QueryUsage
  BY <1>3, BoundedByQuery
<1>4. ASSUME NEW k \in Keys, Upsert(k)
      PROVE  Bounded'
  <2>1. /\ UNCHANGED <<log, live, domains, until, edits>>
        /\ \A j \in Keys \ {k} : Stored(j)' = Stored(j)
    BY <1>4, UpsertStep
  <2>2. \A s, w : Used(s, w)' = Used(s, w)
    BY <2>1, TablesKept
  <2>3. CASE Return
    BY <1>1, <2>3 DEF Return, Leave
  <2>4. CASE /\ pending' = [j \in DOMAIN pending \ {k} |-> pending[j]]
             /\ UNCHANGED <<pc, services, owner>>
    <3>1. (Fits(DOMAIN owner, until))' = Fits(DOMAIN owner, until)
      BY <2>1, <2>4 DEF Fits, Rows
    <3>2. \A w : Whole(w, until)' = Whole(w, until)
      BY <2>1 DEF Whole
    <3>3. \A j \in DOMAIN pending' : j \in DOMAIN pending /\ j \in Keys \ {k} /\ pending'[j] = pending[j]
      BY <2>4 DEF TypeOK
    <3>. QED BY <2>1, <2>2, <3>1, <3>2, <3>3 DEF Bounded
  <2>. QED BY <1>4, <2>3, <2>4 DEF Upsert
<1>5. CASE Tick \/ UNCHANGED vars
  <2>1. UNCHANGED <<edits, log, live, domains, until, snapshots, owner, pending>>
    BY <1>5 DEF Tick, locals, vars, world
  <2>2. \A s, w : Used(s, w)' = Used(s, w)
    BY <2>1, TablesKept
  <2>3. (Fits(DOMAIN owner, until))' = Fits(DOMAIN owner, until)
    BY <2>1 DEF Fits, Rows
  <2>4. (\A w : Whole(w, until)' = Whole(w, until)) /\ (\A k : Stored(k)' = Stored(k))
    BY <2>1 DEF Whole, Stored
  <2>. QED BY <2>1, <2>2, <2>3, <2>4 DEF Bounded
<1>6. ASSUME NEW h \in Hosts, NEW t \in Busy, Report(h, t)
      PROVE  Bounded'
  <2>1. UNCHANGED <<edits, until, snapshots, pending>>
    BY <1>6 DEF Report, locals
  <2>2. /\ \A s, w : Used(s, w) \in Nat /\ Used(s, w)' \in Nat /\ Used(s, w) <= Used(s, w)'
        /\ Fits(DOMAIN owner, until)' => Fits(DOMAIN owner, until)
    BY <1>6, ReportGrows
  <2>3. (\A w : Whole(w, until)' = Whole(w, until)) /\ (\A k : Stored(k)' = Stored(k))
    BY <2>1 DEF Whole, Stored
  <2>4. ASSUME edits = 0, NEW k \in DOMAIN pending
        PROVE  pending[k] <= Used(k[1], k[2])'
    <3>1. pending[k] \in Nat /\ pending[k] <= Used(k[1], k[2])
      BY <2>4 DEF Bounded, TypeOK
    <3>. QED BY <2>2, <3>1
  <2>. QED BY <2>1, <2>2, <2>3, <2>4 DEF Bounded
<1>7. CASE \/ \E s \in Services : DeleteService(s)
           \/ \E s \in Services, h \in Hosts : EditDomain(s, h)
  <2>1. Edit
    BY <1>7 DEF DeleteService, EditDomain
  <2>. QED BY <2>1, EditTypes DEF Bounded
<1>. QED BY <1>2, <1>3, <1>4, <1>5, <1>6, <1>7 DEF Next, Run

LEMMA CountedOnceStep ==
  ASSUME TypeOK, TypeOK', Bounded, CountedOnce, [Next]_vars
  PROVE  CountedOnce'
<1>1. ASSUME UNCHANGED <<edits, log, live, domains, snapshots>>
      PROVE  CountedOnce'
  <2>1. \A s, w : Used(s, w)' = Used(s, w)
    BY <1>1, TablesKept
  <2>2. \A k : Stored(k)' = Stored(k)
    BY <1>1 DEF Stored
  <2>. QED BY <1>1, <2>1, <2>2 DEF CountedOnce
<1>2. CASE ListServices \/ LoadDomains \/ QueryUsage \/ Fails \/ Hangs \/ Tick \/ UNCHANGED vars
  <2>1. UNCHANGED <<edits, log, live, domains, snapshots>>
    BY <1>2 DEF ListServices, LoadDomains, LoadOwners, QueryUsage, Fails, Hangs, Tick, vars, world
  <2>. QED BY <1>1, <2>1
<1>3. ASSUME NEW k \in Keys, Upsert(k) \/ LosesReply(k)
      PROVE  CountedOnce'
  <2>1. /\ UNCHANGED <<log, live, domains, edits>> /\ k \in DOMAIN pending
        /\ Stored(k)' = pending[k]
        /\ \A j \in Keys \ {k} : Stored(j)' = Stored(j)
    BY <1>3, UpsertStep
  <2>2. \A s, w : Used(s, w)' = Used(s, w)
    BY <2>1, TablesKept
  <2>3. ASSUME edits = 0, NEW s \in Services, NEW w \in Windows
        PROVE  Stored(<<s, w>>)' <= Used(s, w)
    <3>1. <<s, w>> \in Keys
      BY DEF Keys
    <3>2. CASE <<s, w>> = k
      BY <2>1, <2>3, <3>2 DEF Bounded
    <3>3. CASE <<s, w>> # k
      BY <2>1, <2>3, <3>1, <3>3 DEF CountedOnce
    <3>. QED BY <3>2, <3>3
  <2>. QED BY <2>1, <2>2, <2>3 DEF CountedOnce
<1>4. ASSUME NEW h \in Hosts, NEW t \in Busy, Report(h, t)
      PROVE  CountedOnce'
  <2>1. UNCHANGED <<edits, snapshots>>
    BY <1>4 DEF Report
  <2>2. \A s, w : Used(s, w) \in Nat /\ Used(s, w)' \in Nat /\ Used(s, w) <= Used(s, w)'
    BY <1>4, ReportGrows
  <2>3. ASSUME edits = 0, NEW s \in Services, NEW w \in Windows
        PROVE  Stored(<<s, w>>)' <= Used(s, w)'
    <3>1. Stored(<<s, w>>)' = Stored(<<s, w>>) /\ Stored(<<s, w>>) <= Used(s, w)
      BY <2>1, <2>3 DEF CountedOnce, Stored
    <3>2. Stored(<<s, w>>) \in Nat
      BY StoredNat DEF Keys
    <3>. QED BY <2>2, <3>1, <3>2
  <2>. QED BY <2>1, <2>3 DEF CountedOnce
<1>5. CASE \/ \E s \in Services : DeleteService(s)
           \/ \E s \in Services, h \in Hosts : EditDomain(s, h)
  <2>1. Edit
    BY <1>5 DEF DeleteService, EditDomain
  <2>. QED BY <2>1, EditTypes DEF CountedOnce
<1>. QED BY <1>2, <1>3, <1>4, <1>5 DEF Next, Run

LEMMA InitInvariant == Init => IInv
<1>. SUFFICES ASSUME Init PROVE IInv
  OBVIOUS
<1>1. TypeOK
  BY InitTypes
<1>2. Unedited /\ Bounded /\ Undisturbed /\ RunSuffices
  BY DEF Init, Nothing, Unedited, Bounded, Undisturbed, RunSuffices
<1>3. CountedOnce
  <2>1. ASSUME NEW s \in Services, NEW w \in Windows
        PROVE  Stored(<<s, w>>) <= Used(s, w)
    <3>1. Stored(<<s, w>>) = 0
      BY DEF Init, Stored, Keys
    <3>2. Used(s, w) \in Nat
      BY <1>1, BytesNat DEF Used
    <3>. QED BY <3>1, <3>2
  <2>. QED BY <2>1 DEF CountedOnce
<1>. QED BY <1>1, <1>2, <1>3 DEF IInv

LEMMA Invariance == Spec => []IInv
<1>1. IInv /\ [Next]_vars => IInv'
  <2>. SUFFICES ASSUME IInv, [Next]_vars PROVE IInv'
    OBVIOUS
  <2>1. TypeOK /\ Unedited /\ Bounded /\ Undisturbed /\ CountedOnce /\ RunSuffices
    BY DEF IInv
  <2>2. TypeOK'
    BY <2>1, StepTypes
  <2>3. Unedited' /\ Undisturbed' /\ RunSuffices'
    BY <2>1, UneditedStep, UndisturbedStep, RunSufficesStep
  <2>4. Bounded' /\ CountedOnce'
    BY <2>1, <2>2, BoundedStep, CountedOnceStep
  <2>. QED BY <2>2, <2>3, <2>4 DEF IInv
<1>. QED BY <1>1, InitInvariant, PTL DEF Spec

-----------------------------------------------------------------------------
(* Results.                                                                *)

(* In every state the log, the tables and the run's locals are well formed, *)
(* and a run upserts only services that were live when it began, in         *)
(* windows that were over by then (RunOnce, engine.go:32-101).              *)
THEOREM TypeCorrect == Spec => []TypeOK
<1>1. IInv => TypeOK
  BY DEF IInv
<1>. QED BY <1>1, Invariance, PTL

(* However reports come late, answers are cut at the limit, statements fail, *)
(* replies are lost and look-backs overlap, a service's window never stores  *)
(* more bytes than the CDN reported for its hosts                            *)
(* (UpsertUsageSnapshot, engine.go:66-95).                                   *)
THEOREM StoredWasReported == Spec => []CountedOnce
<1>1. IInv => CountedOnce
  BY DEF IInv
<1>. QED BY <1>1, Invariance, PTL

(* A run in which nothing failed and nothing changed, and whose answer was  *)
(* not cut, leaves every window in its look-back with exactly the reported  *)
(* bytes, also the runs that return early (engine.go:36-38, 45-47).         *)
THEOREM OneRunIsEnough == Spec => []RunSuffices
<1>1. IInv => RunSuffices
  BY DEF IInv
<1>. QED BY <1>1, Invariance, PTL

(* Stored bytes shrink only where domains or services were edited, the      *)
(* look-back begins inside the window, or the answer was cut: a retry, a    *)
(* repeated run and a late report never lower them (engine.go:66-95).       *)
THEOREM ShrinksHaveACause == Spec => NeverShrinks
<1>1. ASSUME IInv, [Next]_vars, NEW s \in Services, NEW w \in Windows,
             Stored(<<s, w>>)' < Stored(<<s, w>>)
      PROVE  edits > 0 \/ ~Whole(w, until) \/ ~Fits(DOMAIN owner, until)
  <2>1. TypeOK /\ Bounded
    BY <1>1 DEF IInv
  <2>2. <<s, w>> \in Keys
    BY DEF Keys
  <2>3. Stored(<<s, w>>) \in Nat
    BY <2>1, <2>2, StoredNat
  <2>4. CASE UNCHANGED snapshots
    <3>1. Stored(<<s, w>>)' = Stored(<<s, w>>)
      BY <2>4 DEF Stored
    <3>. QED BY <1>1, <2>3, <3>1
  <2>5. ASSUME NEW k \in Keys, Upsert(k) \/ LosesReply(k)
        PROVE  edits > 0 \/ ~Whole(w, until) \/ ~Fits(DOMAIN owner, until)
    <3>1. /\ k \in DOMAIN pending /\ pending[k] \in Nat /\ Stored(k)' = pending[k]
          /\ \A j \in Keys \ {k} : Stored(j)' = Stored(j)
      BY <2>1, <2>5, UpsertStep
    <3>2. k = <<s, w>>
      <4>1. CASE k # <<s, w>>
        <5>1. Stored(<<s, w>>)' = Stored(<<s, w>>)
          BY <2>2, <3>1, <4>1
        <5>. QED BY <1>1, <2>3, <5>1
      <4>. QED BY <4>1
    <3>3. edits \in Nat
      BY <2>1 DEF TypeOK
    <3>4. ASSUME edits = 0, Whole(w, until), Fits(DOMAIN owner, until)
          PROVE  FALSE
      <4>1. Stored(<<s, w>>) <= pending[k]
        BY <2>1, <3>1, <3>2, <3>4 DEF Bounded
      <4>2. pending[k] < Stored(<<s, w>>)
        BY <1>1, <3>1, <3>2
      <4>. QED BY <2>3, <3>1, <4>1, <4>2
    <3>. QED BY <3>3, <3>4
  <2>6. UNCHANGED snapshots \/ \E k \in Keys : Upsert(k) \/ LosesReply(k)
    BY <1>1 DEF Next, Run, ListServices, LoadDomains, LoadOwners, QueryUsage, Fails, Hangs, Tick, Report,
                DeleteService, EditDomain, vars
  <2>. QED BY <2>4, <2>5, <2>6
<1>2. IInv /\ [Next]_vars =>
        [\A s \in Services : \A w \in Windows :
           Stored(<<s, w>>)' < Stored(<<s, w>>) =>
             edits > 0 \/ ~Whole(w, until) \/ ~Fits(DOMAIN owner, until)]_vars
  BY <1>1
<1>. QED BY <1>2, Invariance, PTL DEF Spec, NeverShrinks
=============================================================================
