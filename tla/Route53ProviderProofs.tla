----------------------- MODULE Route53ProviderProofs -----------------------
(***************************************************************************)
(* What holds of Route53Provider for any names, zones, weights and number  *)
(* of attempts: its type invariant, that an UPSERT creates no records but  *)
(* those deleted under its eyes, and that it implements the abstract       *)
(* provider.                                                               *)
(***************************************************************************)
EXTENDS Route53Provider, TLAPS

Inv == TypeOK /\ OnlyDroppedReturn

(***************************************************************************)
(* Where records stand, and may stand again.                               *)
(***************************************************************************)
Standing ==
  /\ hosted \subseteq Zones /\ fresh \subseteq Zones \ hosted
  /\ records \in [Zones -> [Names -> Weights \cup Given \cup {NULL}]]
  /\ dropped \subseteq Zones \X Names
  /\ \A z \in Zones, n \in Names : records[z][n] # NULL => z \in hosted /\ n \in Within[z]
  /\ \A d \in dropped : d[1] \in hosted /\ d[2] \in Within[d[1]]

Sent == \A c \in Change : late[c] > 0 => c[1] \notin fresh

LEMMA TypeStanding == TypeOK => Standing /\ Sent
BY DEF TypeOK, Standing, Sent

LEMMA SameStanding ==
  ASSUME Standing, UNCHANGED <<hosted, fresh, records, dropped>>
  PROVE  Standing'
BY DEF Standing

\* A pair is put in a zone.
Put(z, n, w) ==
  /\ records' = [records EXCEPT ![z][n] = w]
  /\ dropped' = dropped \ {<<z, n>>}
  /\ UNCHANGED <<hosted, fresh>>

LEMMA PutStanding ==
  ASSUME Standing, NEW z \in hosted, NEW n \in Names, n \in Within[z],
         NEW w \in Weights \cup Given, Put(z, n, w)
  PROVE  /\ Standing'
         /\ \A y \in Zones, m \in Names :
              records'[y][m] = IF y = z /\ m = n THEN w ELSE records[y][m]
<1>. USE DEF Put
<1>1. z \in Zones
  BY DEF Standing
<1>2. records' \in [Zones -> [Names -> Weights \cup Given \cup {NULL}]]
  BY <1>1 DEF Standing
<1>3. ASSUME NEW y \in Zones, NEW m \in Names
      PROVE  records'[y][m] = IF y = z /\ m = n THEN w ELSE records[y][m]
  BY <1>1 DEF Standing
<1>4. ASSUME NEW y \in Zones, NEW m \in Names, records'[y][m] # NULL
      PROVE  y \in hosted' /\ m \in Within[y]
  BY <1>3, <1>4 DEF Standing
<1>. QED BY <1>2, <1>3, <1>4 DEF Standing

\* A change that is on its way to a zone may be made: its name is one of the
\* zone's.
LEMMA AwaitedWithin ==
  ASSUME Standing, OnlyDroppedReturn, NEW z \in hosted, NEW n \in Names, Awaited(z, n)
  PROVE  n \in Within[z]
<1>1. CASE records[z][n] # NULL
  BY <1>1 DEF Standing
<1>2. CASE <<z, n>> \in dropped
  BY <1>2 DEF Standing
<1>. QED BY <1>1, <1>2 DEF OnlyDroppedReturn

(***************************************************************************)
(* The ends of an attempt and of a call.                                   *)
(***************************************************************************)
LEMMA DoneType ==
  ASSUME TypeOK, Done, UNCHANGED <<hosted, fresh, records, dropped>>,
         late' \in [Change -> Nat], Sent', faults' \in Nat, edits' \in Nat,
         cache' \in [Names -> (Zones \ fresh) \cup {NULL}]
  PROVE  TypeOK' /\ pc' = "idle"
<1>1. Standing'
  BY TypeStanding, SameStanding
<1>2. attempt' = 0 /\ attempt' \in 0 .. MaxAttempts
  BY AttemptsAssumption DEF Done
<1>. QED BY <1>1, <1>2 DEF Done, TypeOK, Standing, Sent

LEMMA AttemptType ==
  ASSUME TypeOK, pc # "idle", AttemptFails, UNCHANGED <<hosted, fresh, records, dropped>>,
         late' \in [Change -> Nat], Sent', faults' \in Nat, edits' \in Nat,
         cache' \in [Names -> (Zones \ fresh) \cup {NULL}]
  PROVE  TypeOK' /\ pc' \in {"idle", "lookup"}
<1>1. CASE attempt < MaxAttempts
  <2>1. Standing'
    BY TypeStanding, SameStanding
  <2>2. attempt' > 0 /\ attempt' \in 0 .. MaxAttempts
    BY <1>1, AttemptsAssumption DEF AttemptFails, TypeOK
  <2>. QED BY <1>1, <2>1, <2>2 DEF AttemptFails, args, TypeOK, Standing, Sent
<1>2. CASE ~(attempt < MaxAttempts)
  BY <1>2, DoneType DEF AttemptFails
<1>. QED BY <1>1, <1>2

(***************************************************************************)
(* The invariant.                                                          *)
(***************************************************************************)
LEMMA InitInv == Init => Inv
<1>. SUFFICES ASSUME Init PROVE Inv
  OBVIOUS
<1>1. TypeOK
  <2>1. records \in [Zones -> [Names -> Weights \cup Given \cup {NULL}]]
    BY DEF Init
  <2>2. attempt \in 0 .. MaxAttempts
    BY AttemptsAssumption DEF Init
  <2>3. cache \in [Names -> (Zones \ fresh) \cup {NULL}] /\ late \in [Change -> Nat]
    BY DEF Init
  <2>4. \A c \in Change : ~(late[c] > 0)
    BY DEF Init
  <2>. QED BY <2>1, <2>2, <2>3, <2>4 DEF Init, TypeOK
<1>2. ASSUME NEW z \in hosted, NEW n \in Names PROVE ~Awaited(z, n)
  <2>1. \A w \in Weights : <<z, n, w>> \in Change
    BY <1>1 DEF TypeOK, Change
  <2>2. pc = "idle" /\ \A w \in Weights : ~(late[<<z, n, w>>] > 0)
    BY <2>1 DEF Init
  <2>. QED BY <2>2 DEF Awaited
<1>3. OnlyDroppedReturn
  BY <1>2 DEF OnlyDroppedReturn
<1>. QED BY <1>1, <1>3 DEF Inv

\* Route 53 as it was, and no change about to be made.
LEMMA NoChange ==
  ASSUME OnlyDroppedReturn, UNCHANGED world, pc' # "change"
  PROVE  OnlyDroppedReturn'
<1>1. ASSUME NEW z \in hosted, NEW n \in Names, Awaited(z, n)' PROVE Awaited(z, n)
  BY <1>1 DEF Awaited, world
<1>. QED BY <1>1 DEF OnlyDroppedReturn, world

LEMMA SameSent ==
  ASSUME Sent, UNCHANGED <<fresh, late>>
  PROVE  Sent'
BY DEF Sent

LEMMA NextInv == Inv /\ [Next]_vars => Inv'
<1>. SUFFICES ASSUME Inv, [Next]_vars PROVE Inv'
  OBVIOUS
<1>. USE DEF Inv
<1>0. /\ late \in [Change -> Nat] /\ faults \in Nat /\ edits \in Nat
      /\ cache \in [Names -> (Zones \ fresh) \cup {NULL}]
      /\ Standing /\ Sent
  BY TypeStanding DEF TypeOK
<1>00. UNCHANGED world => Standing' /\ Sent'
  BY <1>0, SameStanding, SameSent DEF world
<1>1. ASSUME NEW n \in Names, NEW w \in Weights, SetWeights(n, w) PROVE Inv'
  <2>1. OnlyDroppedReturn'
    BY <1>1, NoChange DEF SetWeights
  <2>2. Standing' /\ Sent' /\ late' \in [Change -> Nat]
    BY <1>0, <1>1, <1>00 DEF SetWeights, world
  <2>3. attempt' > 0 /\ attempt' \in 0 .. MaxAttempts
    BY <1>1, AttemptsAssumption DEF SetWeights
  <2>4. pc' = "lookup" /\ name' \in Names /\ want' \in Weights /\ took' \in BOOLEAN
    BY <1>1 DEF SetWeights
  <2>5. cache' \in [Names -> (Zones \ fresh') \cup {NULL}] /\ UNCHANGED <<faults, edits>>
    BY <1>0, <1>1 DEF SetWeights, world
  <2>. QED BY <1>0, <2>1, <2>2, <2>3, <2>4, <2>5 DEF TypeOK, Standing, Sent
<1>2. CASE LookupCached
  <2>1. OnlyDroppedReturn'
    BY <1>2, NoChange DEF LookupCached
  <2>2. Standing' /\ Sent'
    BY <1>2, <1>00 DEF LookupCached
  <2>. QED BY <1>2, <2>1, <2>2 DEF LookupCached, world, args, TypeOK, Standing, Sent
<1>3. CASE LookupListed
  <2>1. CASE cache' = cache /\ AttemptFails
    <3>1. Sent'
      BY <1>3, <1>00 DEF LookupListed
    <3>2. TypeOK' /\ pc' # "change"
      BY <1>0, <1>3, <2>1, <3>1, AttemptType DEF LookupListed, world
    <3>. QED BY <1>3, <3>2, NoChange DEF LookupListed
  <2>2. ASSUME NEW z \in Candidates(name), zone' = z, cache' = [cache EXCEPT ![name] = z],
               pc' = "records", UNCHANGED <<args, attempt, took>>
        PROVE  Inv'
    <3>1. z \in Zones \ fresh
      BY DEF Candidates, TypeOK
    <3>2. OnlyDroppedReturn'
      BY <1>3, <2>2, NoChange DEF LookupListed
    <3>3. Standing' /\ Sent'
      BY <1>3, <1>00 DEF LookupListed
    <3>4. cache' \in [Names -> (Zones \ fresh) \cup {NULL}]
      BY <1>0, <2>2, <3>1
    <3>. QED
      BY <1>3, <2>2, <3>1, <3>2, <3>3, <3>4
         DEF LookupListed, world, args, TypeOK, Standing, Sent
  <2>. QED BY <1>3, <2>1, <2>2 DEF LookupListed
<1>4. CASE FetchWeightedRecords
  <2>1. CASE /\ zone \in hosted /\ records[zone][name] # NULL
             /\ pc' = "change" /\ UNCHANGED <<args, attempt, zone, took>>
    <3>1. Standing' /\ Sent'
      BY <1>4, <1>00 DEF FetchWeightedRecords
    <3>2. ASSUME NEW z \in hosted, NEW n \in Names, Awaited(z, n)'
          PROVE  records[z][n] # NULL \/ <<z, n>> \in dropped
      <4>1. Awaited(z, n) \/ (zone = z /\ name = n)
        BY <1>4, <2>1, <3>2 DEF FetchWeightedRecords, Awaited, world, args
      <4>. QED BY <2>1, <4>1 DEF OnlyDroppedReturn
    <3>3. OnlyDroppedReturn'
      BY <1>4, <3>2 DEF FetchWeightedRecords, world, OnlyDroppedReturn
    <3>. QED
      BY <1>4, <2>1, <3>1, <3>3 DEF FetchWeightedRecords, world, args, TypeOK, Standing, Sent
  <2>2. CASE AttemptFails
    <3>1. Sent'
      BY <1>4, <1>00 DEF FetchWeightedRecords
    <3>2. TypeOK' /\ pc' # "change"
      BY <1>0, <1>4, <2>2, <3>1, AttemptType DEF FetchWeightedRecords, world
    <3>. QED BY <1>4, <3>2, NoChange DEF FetchWeightedRecords
  <2>. QED BY <1>4, <2>1, <2>2 DEF FetchWeightedRecords
<1>5. CASE ChangeTakes
  <2>1. /\ name \in Names /\ want \in Weights /\ zone \in hosted /\ Awaited(zone, name)
        /\ records' = [records EXCEPT ![zone][name] = want]
        /\ dropped' = dropped \ {<<zone, name>>}
        /\ UNCHANGED <<hosted, fresh, late>> /\ pc' = "reply"
    BY <1>5 DEF ChangeTakes, TypeOK, Awaited
  <2>. name \in Within[zone] /\ want \in Weights \cup Given /\ Put(zone, name, want)
    BY <1>0, <2>1, AwaitedWithin DEF Put
  <2>2. /\ Standing'
        /\ \A y \in Zones, m \in Names :
             records'[y][m] = IF y = zone /\ m = name THEN want ELSE records[y][m]
    BY <1>0, <2>1, PutStanding
  <2>3. Sent'
    BY <1>0, <2>1, SameSent
  <2>4. ASSUME NEW z \in hosted, NEW n \in Names, Awaited(z, n)'
        PROVE  records'[z][n] # NULL \/ <<z, n>> \in dropped'
    <3>1. Awaited(z, n)
      BY <2>1, <2>4 DEF Awaited
    <3>2. records[z][n] # NULL \/ <<z, n>> \in dropped
      BY <3>1 DEF OnlyDroppedReturn
    <3>. QED BY <1>0, <2>1, <2>2, <3>2, NullAssumption DEF Standing
  <2>5. OnlyDroppedReturn'
    BY <2>1, <2>4 DEF OnlyDroppedReturn
  <2>. QED BY <1>5, <2>2, <2>3, <2>5 DEF ChangeTakes, args, TypeOK, Standing, Sent
<1>6. CASE ChangeRefused
  <2>1. Sent'
    BY <1>6, <1>00 DEF ChangeRefused
  <2>2. TypeOK' /\ pc' # "change"
    BY <1>0, <1>6, <2>1, AttemptType DEF ChangeRefused, world
  <2>. QED BY <1>6, <2>2, NoChange DEF ChangeRefused
<1>7. CASE ReplyOk
  <2>1. Sent'
    BY <1>7, <1>00 DEF ReplyOk
  <2>2. TypeOK' /\ pc' # "change"
    BY <1>0, <1>7, <2>1, DoneType DEF ReplyOk, world
  <2>. QED BY <1>7, <2>2, NoChange DEF ReplyOk
<1>8. CASE RequestFails
  <2>1. Sent'
    BY <1>8, <1>00 DEF RequestFails
  <2>2. TypeOK' /\ pc' # "change"
    BY <1>0, <1>8, <2>1, AttemptType DEF RequestFails, Fault, world
  <2>. QED BY <1>8, <2>2, NoChange DEF RequestFails
<1>9. CASE ReplyLost
  <2>1. Sent'
    BY <1>9, <1>00 DEF ReplyLost
  <2>2. TypeOK' /\ pc' # "change"
    BY <1>0, <1>9, <2>1, AttemptType DEF ReplyLost, Fault, world
  <2>. QED BY <1>9, <2>2, NoChange DEF ReplyLost
<1>10. CASE ChangeLingers
  <2>. DEFINE c == <<zone, name, want>>
  <2>1. c \in Change /\ c[1] \notin fresh
    BY <1>10 DEF ChangeLingers, TypeOK, Change
  <2>2. late' \in [Change -> Nat] /\ \A d \in Change : d # c => late'[d] = late[d]
    BY <1>0, <1>10, <2>1 DEF ChangeLingers
  <2>3. Sent'
    BY <1>0, <1>10, <2>1, <2>2 DEF ChangeLingers, Sent
  <2>4. TypeOK' /\ pc' # "change"
    BY <1>0, <1>10, <2>2, <2>3, AttemptType DEF ChangeLingers, Fault
  <2>5. ASSUME NEW z \in hosted, NEW n \in Names, Awaited(z, n)' PROVE Awaited(z, n)
    <3>1. PICK w \in Weights : late'[<<z, n, w>>] > 0
      BY <2>4, <2>5 DEF Awaited
    <3>2. <<z, n, w>> \in Change
      BY <1>0 DEF Change, Standing
    <3>3. CASE <<z, n, w>> = c
      BY <1>10, <3>3 DEF ChangeLingers, Awaited
    <3>4. CASE <<z, n, w>> # c
      BY <2>2, <3>1, <3>2, <3>4 DEF Awaited
    <3>. QED BY <3>3, <3>4
  <2>6. OnlyDroppedReturn'
    BY <1>10, <2>5 DEF ChangeLingers, OnlyDroppedReturn
  <2>. QED BY <2>4, <2>6
<1>11. CASE ContextDone
  <2>1. Sent'
    BY <1>11, <1>00 DEF ContextDone
  <2>2. TypeOK' /\ pc' # "change"
    BY <1>0, <1>11, <2>1, DoneType DEF ContextDone, Fault, world
  <2>. QED BY <1>11, <2>2, NoChange DEF ContextDone
<1>12. CASE Crash
  <2>1. cache' \in [Names -> (Zones \ fresh) \cup {NULL}] /\ Sent'
    BY <1>12, <1>00 DEF Crash
  <2>2. TypeOK' /\ pc' # "change"
    BY <1>0, <1>12, <2>1, DoneType DEF Crash, Fault, world
  <2>. QED BY <1>12, <2>2, NoChange DEF Crash
<1>13. ASSUME NEW c \in Change, TakeLate(c) PROVE Inv'
  <2>1. late' \in [Change -> Nat] /\ \A d \in Change : late'[d] > 0 => late[d] > 0
    BY <1>0, <1>13 DEF TakeLate
  <2>2. Sent'
    BY <1>0, <1>13, <2>1 DEF TakeLate, Sent
  <2>3. ASSUME NEW z \in hosted, NEW n \in Names, Awaited(z, n)' PROVE Awaited(z, n)
    <3>1. \A w \in Weights : <<z, n, w>> \in Change
      BY <1>0 DEF Change, Standing
    <3>. QED BY <1>13, <2>1, <2>3, <3>1 DEF TakeLate, args, Awaited
  <2>4. CASE c[1] \in hosted
    <3>1. /\ c[1] \in hosted /\ c[2] \in Names /\ c[3] \in Weights
          /\ c = <<c[1], c[2], c[3]>>
          /\ records' = [records EXCEPT ![c[1]][c[2]] = c[3]]
          /\ dropped' = dropped \ {<<c[1], c[2]>>}
          /\ UNCHANGED <<hosted, fresh>>
      BY <1>13, <2>4 DEF TakeLate, Change
    <3>2. Awaited(c[1], c[2])
      BY <1>13, <3>1 DEF TakeLate, Awaited
    <3>3. c[2] \in Within[c[1]] /\ c[3] \in Weights \cup Given /\ Put(c[1], c[2], c[3])
      BY <1>0, <3>1, <3>2, AwaitedWithin DEF Put
    <3>4. /\ Standing'
          /\ \A y \in Zones, m \in Names :
               records'[y][m] = IF y = c[1] /\ m = c[2] THEN c[3] ELSE records[y][m]
      BY <1>0, <3>1, <3>3, PutStanding
    <3>5. ASSUME NEW z \in hosted, NEW n \in Names, Awaited(z, n)'
          PROVE  records'[z][n] # NULL \/ <<z, n>> \in dropped'
      <4>1. records[z][n] # NULL \/ <<z, n>> \in dropped
        BY <2>3, <3>5 DEF OnlyDroppedReturn
      <4>. QED BY <1>0, <3>1, <3>4, <4>1, NullAssumption DEF Standing
    <3>6. OnlyDroppedReturn'
      BY <3>1, <3>5 DEF OnlyDroppedReturn
    <3>. QED BY <1>13, <2>1, <2>2, <3>4, <3>6 DEF TakeLate, args, TypeOK, Standing, Sent
  <2>5. CASE c[1] \notin hosted
    <3>1. Standing'
      BY <1>0, <1>13, <2>5, SameStanding DEF TakeLate
    <3>2. OnlyDroppedReturn'
      BY <1>13, <2>3, <2>5 DEF TakeLate, OnlyDroppedReturn
    <3>. QED BY <1>13, <2>1, <2>2, <3>1, <3>2 DEF TakeLate, args, TypeOK, Standing, Sent
  <2>. QED BY <2>4, <2>5
<1>14. ASSUME NEW z \in Zones, CreateZone(z) PROVE Inv'
  <2>1. Standing'
    BY <1>0, <1>14 DEF CreateZone, Standing
  <2>2. Sent'
    BY <1>0, <1>14 DEF CreateZone, locals, Sent
  <2>3. ASSUME NEW n \in Names PROVE ~Awaited(z, n)
    <3>1. z \in fresh /\ \A w \in Weights : <<z, n, w>> \in Change
      BY <1>14 DEF CreateZone, Change
    <3>. QED BY <1>0, <3>1 DEF Awaited, Sent, TypeOK
  <2>4. \A y \in Zones, n \in Names : Awaited(y, n)' <=> Awaited(y, n)
    BY <1>14 DEF CreateZone, locals, args, Awaited
  <2>5. OnlyDroppedReturn'
    BY <1>0, <1>14, <2>3, <2>4 DEF CreateZone, OnlyDroppedReturn, Standing
  <2>6. edits' \in Nat
    BY <1>0, <1>14 DEF CreateZone, Edit
  <2>. QED
    BY <1>14, <2>1, <2>2, <2>5, <2>6 DEF CreateZone, locals, args, TypeOK, Standing, Sent
<1>15. ASSUME NEW z \in Zones, DeleteZone(z) PROVE Inv'
  <2>1. records' \in [Zones -> [Names -> Weights \cup Given \cup {NULL}]]
    BY <1>15 DEF DeleteZone, TypeOK
  <2>2. ASSUME NEW y \in Zones, NEW m \in Names
        PROVE  records'[y][m] = IF y = z THEN NULL ELSE records[y][m]
    BY <1>15 DEF DeleteZone, TypeOK
  <2>3. Standing' /\ Sent'
    BY <1>0, <1>15, <2>1, <2>2 DEF DeleteZone, locals, Standing, Sent
  <2>4. ASSUME NEW y \in hosted', NEW n \in Names, Awaited(y, n)'
        PROVE  records'[y][n] # NULL \/ <<y, n>> \in dropped'
    <3>1. y \in hosted /\ y # z /\ Awaited(y, n)
      BY <1>15, <2>4 DEF DeleteZone, locals, args, Awaited
    <3>. QED BY <1>0, <1>15, <2>2, <3>1 DEF DeleteZone, OnlyDroppedReturn, Standing
  <2>5. OnlyDroppedReturn'
    BY <2>4 DEF OnlyDroppedReturn
  <2>6. edits' \in Nat
    BY <1>0, <1>15 DEF DeleteZone, Edit
  <2>. QED BY <1>15, <2>3, <2>5, <2>6 DEF DeleteZone, locals, args, TypeOK, Standing, Sent
<1>16. ASSUME NEW z \in Zones, NEW n \in Names, CreateRecords(z, n) PROVE Inv'
  <2>1. PICK g \in Given : records' = [records EXCEPT ![z][n] = g]
    BY <1>16 DEF CreateRecords
  <2>. z \in hosted /\ n \in Within[z] /\ g \in Weights \cup Given /\ Put(z, n, g)
    BY <1>16, <2>1 DEF CreateRecords, Put
  <2>2. /\ Standing'
        /\ \A y \in Zones, m \in Names :
             records'[y][m] = IF y = z /\ m = n THEN g ELSE records[y][m]
    BY <1>0, <2>1, PutStanding
  <2>3. Sent'
    BY <1>0, <1>16, SameSent DEF CreateRecords, locals
  <2>4. ASSUME NEW y \in hosted, NEW m \in Names, Awaited(y, m)'
        PROVE  records'[y][m] # NULL \/ <<y, m>> \in dropped'
    <3>1. Awaited(y, m)
      BY <1>16, <2>4 DEF CreateRecords, locals, args, Awaited
    <3>2. records[y][m] # NULL \/ <<y, m>> \in dropped
      BY <3>1 DEF OnlyDroppedReturn
    <3>. QED BY <1>0, <1>16, <2>2, <3>2, NullAssumption DEF CreateRecords, Standing
  <2>5. OnlyDroppedReturn'
    BY <1>16, <2>4 DEF CreateRecords, OnlyDroppedReturn
  <2>6. edits' \in Nat
    BY <1>0, <1>16 DEF CreateRecords, Edit
  <2>. QED
    BY <1>16, <2>2, <2>3, <2>5, <2>6 DEF CreateRecords, locals, args, TypeOK, Standing, Sent
<1>17. ASSUME NEW z \in Zones, NEW n \in Names, DeleteRecords(z, n) PROVE Inv'
  <2>1. records' \in [Zones -> [Names -> Weights \cup Given \cup {NULL}]]
    BY <1>17 DEF DeleteRecords, TypeOK
  <2>2. ASSUME NEW y \in Zones, NEW m \in Names
        PROVE  records'[y][m] = IF y = z /\ m = n THEN NULL ELSE records[y][m]
    BY <1>17 DEF DeleteRecords, TypeOK
  <2>3. z \in hosted /\ n \in Within[z]
    BY <1>0, <1>17 DEF DeleteRecords, Standing
  <2>4. dropped' \subseteq dropped \cup {<<z, n>>} /\ dropped \subseteq dropped'
    BY <1>17 DEF DeleteRecords
  <2>5. Standing' /\ Sent'
    <3>1. ASSUME NEW d \in dropped' PROVE d \in Zones \X Names /\ d[1] \in hosted /\ d[2] \in Within[d[1]]
      <4>1. CASE d \in dropped
        BY <1>0, <4>1 DEF Standing
      <4>2. CASE d = <<z, n>>
        BY <2>3, <4>2
      <4>. QED BY <2>4, <4>1, <4>2
    <3>. QED BY <1>0, <1>17, <2>1, <2>2, <3>1 DEF DeleteRecords, locals, Standing, Sent
  <2>6. ASSUME NEW y \in hosted, NEW m \in Names, Awaited(y, m)'
        PROVE  records'[y][m] # NULL \/ <<y, m>> \in dropped'
    <3>1. Awaited(y, m)
      BY <1>17, <2>6 DEF DeleteRecords, locals, args, Awaited
    <3>2. CASE y = z /\ m = n
      BY <1>17, <3>1, <3>2 DEF DeleteRecords
    <3>3. CASE ~(y = z /\ m = n)
      BY <1>0, <2>2, <2>4, <3>1, <3>3 DEF OnlyDroppedReturn, Standing
    <3>. QED BY <3>2, <3>3
  <2>7. OnlyDroppedReturn'
    BY <1>17, <2>6 DEF DeleteRecords, OnlyDroppedReturn
  <2>8. edits' \in Nat
    BY <1>0, <1>17 DEF DeleteRecords, Edit
  <2>. QED
    BY <1>17, <2>5, <2>7, <2>8 DEF DeleteRecords, locals, args, TypeOK, Standing, Sent
<1>18. CASE UNCHANGED vars
  <2>1. Standing' /\ Sent'
    BY <1>18, <1>00 DEF vars, world
  <2>2. OnlyDroppedReturn'
    BY <1>18 DEF vars, OnlyDroppedReturn, Awaited
  <2>. QED BY <1>18, <2>1, <2>2 DEF vars, TypeOK, Standing, Sent
<1>. QED
  BY <1>1, <1>2, <1>3, <1>4, <1>5, <1>6, <1>7, <1>8, <1>9, <1>10, <1>11, <1>12, <1>13,
     <1>14, <1>15, <1>16, <1>17, <1>18 DEF Next, Step

(* The shape of the state: no more than MaxAttempts attempts are made, a   *)
(* zone in use has existed, and records only stand under the names of      *)
(* their zone (route53.go:35-104, 177).                                    *)
THEOREM TypeCorrect == Spec => []TypeOK
<1>1. Inv => TypeOK
  BY DEF Inv
<1>. QED BY <1>1, InitInv, NextInv, PTL DEF Spec

(* An UPSERT, in progress or late, finds the records it changes unless the *)
(* customer deleted them while it or another to them was on its way, for   *)
(* any zones, names, attempts and failures (route53.go:127-146).           *)
THEOREM ReturnsAreRaces == Spec => []OnlyDroppedReturn
<1>1. Inv => OnlyDroppedReturn
  BY DEF Inv
<1>. QED BY <1>1, InitInv, NextInv, PTL DEF Spec

-----------------------------------------------------------------------------
(***************************************************************************)
(* The refinement.                                                         *)
(***************************************************************************)
LEMMA CallIs ==
  ASSUME TypeOK
  PROVE  /\ pc = "idle" => call = NULL
         /\ pc # "idle" => /\ call = [name |-> name, weights |-> want, done |-> took]
                           /\ call # NULL
BY NullAssumption DEF call, TypeOK

\* The end of an attempt leaves the call as it is or ends it.
LEMMA AttemptCall ==
  ASSUME TypeOK, pc # "idle", AttemptFails
  PROVE  call' = call \/ call' = NULL
BY DEF AttemptFails, Done, args, call, TypeOK

\* A failed attempt that leaves Route 53 alone: a stutter or an error.
LEMMA AttemptStep ==
  ASSUME TypeOK, pc # "idle", AttemptFails, UNCHANGED world
  PROVE  [Abstract!ProviderNext]_(Abstract!providerVars)
<1>1. records' = records /\ late' = late
  BY DEF world
<1>2. call # NULL
  BY CallIs
<1>. QED BY <1>1, <1>2, AttemptCall
     DEF Abstract!ProviderNext, Abstract!ReturnError, Abstract!providerVars

LEMMA InitImplements == Init => Abstract!ProviderInit
<1>. SUFFICES ASSUME Init PROVE Abstract!ProviderInit
  OBVIOUS
<1>1. call = NULL
  BY DEF Init, call
<1>2. late = [r \in Abstract!Request |-> 0]
  BY DEF Init, Change, Abstract!Request
<1>. QED BY <1>1, <1>2 DEF Init, Abstract!ProviderInit

LEMMA NextImplements ==
  Inv /\ Inv' /\ [Next]_vars => [Abstract!ProviderNext]_(Abstract!providerVars)
<1>. SUFFICES ASSUME Inv, Inv', [Next]_vars
              PROVE  [Abstract!ProviderNext]_(Abstract!providerVars)
  OBVIOUS
<1>0. TypeOK /\ TypeOK'
  BY DEF Inv
<1>00. records' \in [Zones -> [Names -> Weights \cup Given \cup {NULL}]]
  BY <1>0 DEF TypeOK
<1>1. ASSUME NEW n \in Names, NEW w \in Weights, SetWeights(n, w)
      PROVE  Abstract!Invoke(n, w)
  <2>1. call = NULL /\ call' = [name |-> n, weights |-> w, done |-> FALSE]
    BY <1>1 DEF SetWeights, call
  <2>. QED BY <1>1, <2>1 DEF SetWeights, world, Abstract!Invoke
<1>2. CASE LookupCached \/ LookupListed \/ FetchWeightedRecords
  <2>1. pc # "idle" /\ UNCHANGED world
    BY <1>2 DEF LookupCached, LookupListed, FetchWeightedRecords
  <2>2. CASE AttemptFails
    BY <1>0, <2>1, <2>2, AttemptStep
  <2>3. CASE pc' # "idle" /\ UNCHANGED <<args, took>>
    <3>1. UNCHANGED <<records, call, late>>
      BY <2>1, <2>3 DEF world, args, call
    <3>. QED BY <3>1 DEF Abstract!providerVars
  <2>. QED BY <1>2, <2>2, <2>3 DEF LookupCached, LookupListed, FetchWeightedRecords
<1>3. CASE ChangeTakes
  <2>1. zone \in Zones /\ records' = [records EXCEPT ![zone][name] = want] /\ late' = late
    BY <1>0, <1>3 DEF ChangeTakes, TypeOK
  <2>2. call # NULL /\ call = [name |-> name, weights |-> want, done |-> took]
    BY <1>0, <1>3, CallIs DEF ChangeTakes
  <2>3. call' = [name |-> name, weights |-> want, done |-> TRUE]
    BY <1>3 DEF ChangeTakes, args, call
  <2>4. call.name = name /\ call.weights = want
    BY <2>2
  <2>5. Abstract!Apply(zone)
    BY <2>1, <2>2, <2>3, <2>4 DEF Abstract!Apply
  <2>. QED BY <2>1, <2>5 DEF Abstract!ProviderNext
<1>4. CASE ChangeRefused \/ RequestFails \/ ReplyLost
  BY <1>0, <1>4, AttemptStep DEF ChangeRefused, RequestFails, ReplyLost
<1>5. CASE ReplyOk
  <2>1. call # NULL /\ call.done
    <3>1. took
      BY <1>0, <1>5 DEF ReplyOk, TypeOK
    <3>2. call # NULL /\ call = [name |-> name, weights |-> want, done |-> took]
      BY <1>0, <1>5, CallIs DEF ReplyOk
    <3>3. call.done = took
      BY <3>2
    <3>. QED BY <3>1, <3>2, <3>3
  <2>2. call' = NULL /\ records' = records /\ late' = late
    BY <1>5 DEF ReplyOk, Done, world, call
  <2>3. Abstract!ReturnOk
    BY <2>1, <2>2 DEF Abstract!ReturnOk
  <2>. QED BY <2>3 DEF Abstract!ProviderNext
<1>6. CASE ChangeLingers
  <2>1. zone \in Zones /\ records' = records
    BY <1>0, <1>6 DEF ChangeLingers, TypeOK
  <2>2. call # NULL /\ call.name = name /\ call.weights = want
    BY <1>0, <1>6, CallIs DEF ChangeLingers
  <2>3. call' \in {call, NULL}
    BY <1>0, <1>6, AttemptCall DEF ChangeLingers
  <2>4. Abstract!Linger(zone)
    BY <1>6, <2>1, <2>2, <2>3 DEF ChangeLingers, Abstract!Linger
  <2>. QED BY <2>1, <2>4 DEF Abstract!ProviderNext
<1>7. CASE ContextDone \/ Crash
  <2>1. call' = NULL /\ records' = records /\ late' = late
    BY <1>7 DEF ContextDone, Crash, Done, world, call
  <2>. QED BY <2>1 DEF Abstract!ProviderNext, Abstract!ReturnError, Abstract!providerVars
<1>8. ASSUME NEW c \in Change, TakeLate(c)
      PROVE  [Abstract!ProviderNext]_(Abstract!providerVars)
  <2>1. call' = call /\ c \in Abstract!Request
    BY <1>8 DEF TakeLate, args, call, Change, Abstract!Request
  <2>2. CASE c[1] \in hosted
    <3>1. Abstract!TakeLate(c)
      BY <1>8, <2>1, <2>2 DEF TakeLate, Abstract!TakeLate
    <3>. QED BY <2>1, <3>1 DEF Abstract!ProviderNext
  <2>3. CASE c[1] \notin hosted
    <3>1. Abstract!LoseLate(c)
      BY <1>8, <2>1, <2>3 DEF TakeLate, Abstract!LoseLate
    <3>. QED BY <2>1, <3>1 DEF Abstract!ProviderNext
  <2>. QED BY <2>2, <2>3
<1>9. ASSUME NEW z \in Zones, CreateZone(z)
      PROVE  UNCHANGED Abstract!providerVars
  BY <1>9 DEF CreateZone, locals, args, call, Abstract!providerVars
<1>10. ASSUME NEW z \in Zones, DeleteZone(z) PROVE Abstract!Outside
  <2>1. ASSUME NEW y \in Zones, NEW n \in Names
        PROVE  records'[y][n] = records[y][n] \/ records'[y][n] = NULL
    BY <1>0, <1>10 DEF DeleteZone, TypeOK
  <2>2. call' = call /\ late' = late
    BY <1>10 DEF DeleteZone, locals, args, call
  <2>. QED BY <1>00, <2>1, <2>2 DEF Abstract!Outside
<1>11. ASSUME NEW z \in Zones, NEW n \in Names, CreateRecords(z, n) PROVE Abstract!Outside
  <2>1. PICK g \in Given : records' = [records EXCEPT ![z][n] = g]
    BY <1>11 DEF CreateRecords
  <2>2. ASSUME NEW y \in Zones, NEW m \in Names
        PROVE  records'[y][m] = records[y][m] \/ records'[y][m] \in Given
    BY <1>0, <2>1 DEF TypeOK
  <2>3. call' = call /\ late' = late
    BY <1>11 DEF CreateRecords, locals, args, call
  <2>. QED BY <1>00, <2>2, <2>3 DEF Abstract!Outside
<1>12. ASSUME NEW z \in Zones, NEW n \in Names, DeleteRecords(z, n) PROVE Abstract!Outside
  <2>1. ASSUME NEW y \in Zones, NEW m \in Names
        PROVE  records'[y][m] = records[y][m] \/ records'[y][m] = NULL
    BY <1>0, <1>12 DEF DeleteRecords, TypeOK
  <2>2. call' = call /\ late' = late
    BY <1>12 DEF DeleteRecords, locals, args, call
  <2>. QED BY <1>00, <2>1, <2>2 DEF Abstract!Outside
<1>13. CASE UNCHANGED vars
  BY <1>13 DEF vars, call, Abstract!providerVars
<1>. QED
  BY <1>1, <1>2, <1>3, <1>4, <1>5, <1>6, <1>7, <1>8, <1>9, <1>10, <1>11, <1>12, <1>13
     DEF Next, Step, Abstract!ProviderNext

(* SetWeights implements the abstract provider: both weights of a name     *)
(* change at once, in one zone, those of no other name do, and a call that *)
(* returns nil has put its weights in force there (route53.go:79-152).     *)
THEOREM ImplementsProvider == Spec => Implements
<1>1. Spec => []Inv
  BY InitInv, NextInv, PTL DEF Spec
<1>. QED
  BY <1>1, InitImplements, NextImplements, PTL
     DEF Spec, Implements, Abstract!ProviderSpec
=============================================================================
