----------------------------- MODULE OrdersProofs -----------------------------
(***************************************************************************)
(* SourceOrders is correct for any ads, staleness, length of a collection, *)
(* number of rows and number of mishaps: proofs.                           *)
(***************************************************************************)
EXTENDS SourceOrders, TLAPS

USE OrdersAssumption DEF Rows, Statuses, Patches

Archiving == {"write", "emit", "delete"}

\* What a collection carries in each of its phases.
PhaseOK ==
  /\ pc \in {"idle", "fetch"} => fresh = {} /\ elapsed = 0
  /\ pc \in {"idle", "fetch", "ingest", "stale"} => stale = {}
  /\ pc \in Archiving <=> cur # 0
  /\ cur \notin stale

\* A row is deleted after its entry is on the disk and its removal is told.
OrderOK ==
  /\ pc \in {"emit", "delete"} => archive[cur] > 0
  /\ pc = "delete" => cur \in told

\* A row this collection has stored is no older than the collection, until StaleOrders; from
\* then on it is among those to be archived only if the collection took StaleAfter that far.
FreshOK ==
  /\ Storing => \A a \in Ads : id[a] \in fresh => age[a] <= elapsed \/ elapsed = StaleAfter
  /\ \A i \in fresh : i \in stale \/ i = cur => elapsed = StaleAfter

\* While all goes well nothing is archived or told before its turn.
CalmOK ==
  /\ dead => mishaps > 0
  /\ \A i \in Rows : i > issued => archive[i] = 0
  /\ mishaps = 0 =>
       \A i \in Rows : i \in stale \/ (pc = "write" /\ i = cur) => archive[i] = 0 /\ i \notin told

IInv == TypeOK /\ PhaseOK /\ OrderOK /\ FreshOK /\ NothingLost /\ CalmOK /\ ArchivedOnce

LEMMA InitIInv == Init => IInv
<1> SUFFICES ASSUME Init PROVE IInv
  OBVIOUS
<1> USE DEF Init
<1>1. TypeOK
  <2>1. /\ id \in [Ads -> Nat] /\ age \in [Ads -> Nat] /\ status \in [Ads -> Statuses]
        /\ \A a \in Ads : id[a] = 0 /\ age[a] = 0
    OBVIOUS
  <2>2. archive \in [Rows -> 0..2] /\ request \in [Requests -> Patches \cup {None}]
    OBVIOUS
  <2>3. TableOK
    BY <2>1 DEF TableOK
  <2>4. OutsideOK
    BY <2>2 DEF OutsideOK
  <2>5. RunOK
    <3>1. elapsed \in 0..StaleAfter /\ cur \in 0..issued
      OBVIOUS
    <3>2. dead \in BOOLEAN
      OBVIOUS
    <3>3. todo \subseteq Ads /\ fresh \subseteq 1..issued /\ stale \subseteq 1..issued
      OBVIOUS
    <3>4. QED
      BY <3>1, <3>2, <3>3 DEF RunOK
  <2>6. QED
    BY <2>3, <2>4, <2>5 DEF TypeOK
<1>2. PhaseOK /\ OrderOK /\ FreshOK
  BY DEF PhaseOK, OrderOK, FreshOK, Storing, Archiving
<1>3. NothingLost /\ CalmOK /\ ArchivedOnce
  BY DEF NothingLost, CalmOK, ArchivedOnce
<1>4. QED
  BY <1>1, <1>2, <1>3 DEF IInv

-----------------------------------------------------------------------------
(* What the statements do to the table *)

LEMMA LiveRow ==
  ASSUME NEW i PROVE i \in Live <=> i # 0 /\ \E a \in Ads : id[a] = i
BY DEF Live

LEMMA LiveRowNext ==
  ASSUME NEW i PROVE i \in Live' <=> i # 0 /\ \E a \in Ads : id'[a] = i
BY DEF Live

\* A DELETE takes its row away and no other.
LEMMA DeleteEffect ==
  ASSUME TableOK, NEW i \in Nat \ {0}, DeleteRow(i)
  PROVE  /\ TableOK'
         /\ issued' = issued
         /\ Live' = Live \ {i}
         /\ \A a \in Ads : id'[a] = id[a] \/ id'[a] = 0
         /\ \A a \in Ads : id'[a] # 0 => age'[a] = age[a]
<1> USE DEF DeleteRow, RemoveRow
<1>1. \A a \in Ads : id'[a] = IF id[a] = i THEN 0 ELSE id[a]
  OBVIOUS
<1>2. id' \in [Ads -> Nat] /\ status' \in [Ads -> Statuses] /\ age' \in [Ads -> Nat]
  BY DEF TableOK
<1>3. \A a \in Ads : age'[a] = IF id'[a] = 0 THEN 0 ELSE age[a]
  OBVIOUS
<1>4. TableOK'
  <2>1. \A a \in Ads : id'[a] <= issued' /\ age'[a] <= StaleAfter + 1
    BY <1>1, <1>3 DEF TableOK
  <2>2. \A a, b \in Ads : a # b /\ id'[a] # 0 => id'[a] # id'[b]
    BY <1>1 DEF TableOK
  <2>3. QED
    BY <1>2, <2>1, <2>2 DEF TableOK
<1>5. \A j : j \in Live' <=> j \in Live \ {i}
  BY <1>1, LiveRow, LiveRowNext
<1>6. QED
  BY <1>1, <1>3, <1>4, <1>5

\* An upsert takes no row away; the row it stores is fresh, and either new or of
\* the same ad as before.
LEMMA UpsertEffect ==
  ASSUME TableOK, NEW a \in Ads, Upsert(a)
  PROVE  /\ TableOK'
         /\ issued <= issued'
         /\ \A j \in 1..issued' : j \in Live \/ j > issued => j \in Live'
         /\ \A j \in Live' : j \in Live \/ j > issued
         /\ id'[a] # 0 /\ age'[a] = 0
         /\ \A b \in Ads : b # a => id'[b] = id[b] /\ age'[b] = age[b]
         /\ fresh' = fresh \cup {id'[a]}
<1>1. CASE id[a] = 0 /\ issued < MaxRows /\ InsertRow(a)
  <2> USE DEF InsertRow, NextId
  <2>1. /\ id'[a] = issued + 1 /\ age'[a] = 0
        /\ \A b \in Ads : b # a => id'[b] = id[b] /\ age'[b] = age[b]
    BY <1>1 DEF TableOK
  <2>2. issued' = issued + 1 /\ issued' \in 0..MaxRows
    BY <1>1 DEF TableOK
  <2>3. id' \in [Ads -> Nat] /\ status' \in [Ads -> Statuses] /\ age' \in [Ads -> Nat]
    BY <1>1 DEF TableOK
  <2>4. TableOK'
    BY <2>1, <2>2, <2>3 DEF TableOK
  <2>5. \A j : j \in Live' <=> j \in Live \/ j = issued + 1
    BY <1>1, <2>1, LiveRow, LiveRowNext DEF TableOK
  <2>6. fresh' = fresh \cup {issued + 1}
    BY <1>1
  <2>7. \A j \in 1..issued' : j > issued => j = issued + 1
    BY <2>2 DEF TableOK
  <2>8. issued + 1 > issued /\ issued + 1 # 0 /\ issued <= issued'
    BY <2>2 DEF TableOK
  <2>9. QED
    BY <2>1, <2>4, <2>5, <2>6, <2>7, <2>8
<1>2. CASE id[a] # 0 /\ RefreshRow(a)
  <2> USE DEF RefreshRow
  <2>1. /\ id' = id /\ issued' = issued /\ status' = status /\ age'[a] = 0
        /\ \A b \in Ads : b # a => age'[b] = age[b]
    BY <1>2 DEF TableOK
  <2>2. age' \in [Ads -> Nat]
    BY <1>2 DEF TableOK
  <2>3. TableOK'
    BY <2>1, <2>2 DEF TableOK
  <2>4. Live' = Live
    BY <2>1 DEF Live
  <2>5. issued <= issued' /\ \A j \in 1..issued' : ~(j > issued)
    BY <2>1 DEF TableOK
  <2>6. QED
    BY <1>2, <2>1, <2>3, <2>4, <2>5
<1>3. QED
  BY <1>1, <1>2 DEF Upsert

-----------------------------------------------------------------------------
(* The invariant is inductive *)

\* The steps of the collection that leave the table alone.
LEMMA FetchStep ==
  ASSUME IInv, Begin \/ FetchListings \/ FetchUnparsed \/ EndIngest
  PROVE  IInv'
<1> USE DEF IInv, Begin, FetchListings, FetchUnparsed, EndIngest, Answered, Mishap,
      table, file, run
<1>1. TypeOK'
  <2>1. TableOK'
    BY DEF TypeOK, TableOK
  <2>2. OutsideOK'
    <3>1. torn' \in BOOLEAN
      BY DEF TypeOK, OutsideOK
    <3>2. mishaps' \in Nat
      BY DEF TypeOK, OutsideOK
    <3>3. QED
      BY <3>1, <3>2 DEF TypeOK, OutsideOK
  <2>3. RunOK'
    BY DEF TypeOK, RunOK, OutsideOK
  <2>4. QED
    BY <2>1, <2>2, <2>3 DEF TypeOK
<1>2. PhaseOK' /\ OrderOK'
  BY DEF PhaseOK, OrderOK, Archiving
<1>3. FreshOK'
  BY DEF FreshOK, PhaseOK, Storing
<1>4. Live' = Live
  BY DEF Live
<1>5. NothingLost' /\ CalmOK' /\ ArchivedOnce'
  BY <1>4 DEF NothingLost, CalmOK, ArchivedOnce, PhaseOK, Archiving, TypeOK, OutsideOK
<1>6. QED
  BY <1>1, <1>2, <1>3, <1>5

\* The collection ends, of itself or by a crash.
LEMMA ResetStep ==
  ASSUME IInv, Reset, UNCHANGED <<table, discarded, told>>,
         listed' \subseteq Ads, request' \in [Requests -> Patches \cup {None}],
         \/ UNCHANGED <<file, mishaps>> /\ pc \notin Archiving
         \/ Mishap /\ UNCHANGED file
         \/ Mishap /\ Tear
  PROVE  IInv'
<1> USE DEF IInv, Reset, Mishap, Tear, table, file
<1>1. TypeOK'
  <2>1. TableOK'
    BY DEF TypeOK, TableOK
  <2>2. torn' \in BOOLEAN
    BY DEF TypeOK, OutsideOK
  <2>3. OutsideOK'
    <3>1. archive' \in [Rows -> 0..2]
      BY DEF TypeOK, OutsideOK
    <3>2. mishaps' \in Nat
      BY DEF TypeOK, OutsideOK
    <3>3. discarded' \subseteq 1..issued' /\ told' \subseteq 1..issued'
      BY DEF TypeOK, OutsideOK
    <3>4. QED
      BY <2>2, <3>1, <3>2, <3>3 DEF OutsideOK
  <2>4. RunOK'
    <3>1. elapsed' \in 0..StaleAfter /\ cur' \in 0..issued'
      BY DEF TypeOK, TableOK
    <3>2. dead' \in BOOLEAN
      OBVIOUS
    <3>3. /\ todo' \subseteq Ads /\ fresh' \subseteq 1..issued' /\ stale' \subseteq 1..issued'
          /\ pc' = "idle"
      OBVIOUS
    <3>4. QED
      BY <3>1, <3>2, <3>3 DEF RunOK
  <2>5. QED
    BY <2>1, <2>3, <2>4 DEF TypeOK
<1>2. PhaseOK' /\ OrderOK' /\ FreshOK'
  BY DEF PhaseOK, OrderOK, FreshOK, Archiving, Storing
<1>3. Live' = Live
  BY DEF Live
<1>4. NothingLost'
  BY <1>3 DEF NothingLost
<1>5. CalmOK' /\ ArchivedOnce'
  <2>1. CASE UNCHANGED <<file, mishaps>> /\ cur = 0
    BY <1>3, <2>1 DEF CalmOK, ArchivedOnce
  <2>2. CASE mishaps' # 0
    <3>1. \A i \in Rows : i > issued' => archive'[i] = 0
      BY DEF CalmOK
    <3>2. QED
      BY <2>2, <3>1 DEF CalmOK, ArchivedOnce
  <2>3. QED
    BY <2>1, <2>2 DEF TypeOK, OutsideOK, PhaseOK
<1>6. QED
  BY <1>1, <1>2, <1>4, <1>5

LEMMA StoreListingStep ==
  ASSUME IInv, NEW a \in Ads, StoreListing(a)
  PROVE  IInv'
<1> USE DEF IInv, file, run
<1>1. /\ pc = "ingest" /\ pc' = pc /\ todo' = todo \ {a} /\ dead' = dead
      /\ UNCHANGED <<listed, discarded, file, told, request, elapsed, stale, cur>>
      /\ mishaps' \in Nat /\ mishaps <= mishaps'
      /\ Upsert(a) \/ UNCHANGED <<table, fresh>>
  BY DEF StoreListing, StoreError, Mishap, Perhaps, TypeOK, OutsideOK
<1>2. stale = {} /\ cur = 0
  BY <1>1 DEF PhaseOK, Archiving
<1>3. CASE UNCHANGED <<table, fresh>>
  <2> USE <1>1, <1>3 DEF table
  <2>1. TableOK'
    BY DEF TypeOK, TableOK
  <2>2. OutsideOK' /\ RunOK'
    BY DEF TypeOK, OutsideOK, RunOK
  <2>3. Live' = Live
    BY DEF Live
  <2>4. PhaseOK' /\ OrderOK' /\ FreshOK'
    BY DEF PhaseOK, OrderOK, FreshOK, Storing
  <2>5. NothingLost' /\ CalmOK' /\ ArchivedOnce'
    BY <2>3 DEF NothingLost, CalmOK, ArchivedOnce, TypeOK, OutsideOK
  <2>6. QED
    BY <2>1, <2>2, <2>4, <2>5 DEF TypeOK
<1>4. CASE Upsert(a)
  <2>1. /\ TableOK' /\ issued <= issued'
        /\ \A j \in 1..issued' : j \in Live \/ j > issued => j \in Live'
        /\ \A j \in Live' : j \in Live \/ j > issued
        /\ id'[a] # 0 /\ age'[a] = 0
        /\ \A b \in Ads : b # a => id'[b] = id[b] /\ age'[b] = age[b]
        /\ fresh' = fresh \cup {id'[a]}
    BY <1>4, UpsertEffect DEF TypeOK
  <2>2. issued \in Nat /\ issued' \in 0..MaxRows /\ id'[a] \in 1..issued'
    BY <2>1 DEF TypeOK, TableOK
  <2>3. OutsideOK'
    <3>1. discarded' \subseteq 1..issued' /\ told' \subseteq 1..issued'
      BY <1>1, <2>1, <2>2 DEF TypeOK, OutsideOK
    <3>2. QED
      BY <1>1, <3>1 DEF TypeOK, OutsideOK
  <2>4. RunOK'
    <3>1. fresh' \subseteq 1..issued' /\ stale' \subseteq 1..issued' /\ cur' \in 0..issued'
      <4>1. 1..issued \subseteq 1..issued'
        BY <2>1, <2>2
      <4>2. stale' = {} /\ cur' = 0
        BY <1>1, <1>2
      <4>3. fresh \subseteq 1..issued /\ {} \subseteq 1..issued' /\ 0 \in 0..issued'
        BY <2>2 DEF TypeOK, RunOK
      <4>4. QED
        BY <2>1, <2>2, <4>1, <4>2, <4>3
    <3>2. dead' \in BOOLEAN
      BY <1>1 DEF TypeOK, RunOK
    <3>3. todo' \subseteq Ads /\ pc' = "ingest" /\ elapsed' \in 0..StaleAfter
      BY <1>1 DEF TypeOK, RunOK
    <3>4. QED
      BY <3>1, <3>2, <3>3 DEF RunOK
  <2>5. PhaseOK' /\ OrderOK'
    BY <1>1, <1>2 DEF PhaseOK, OrderOK, Archiving
  <2>6. FreshOK'
    <3>1. \A b \in Ads : id'[b] \in fresh' => age'[b] <= elapsed \/ elapsed = StaleAfter
      <4>1. SUFFICES ASSUME NEW b \in Ads, b # a, id'[b] \in fresh'
                     PROVE  age'[b] <= elapsed \/ elapsed = StaleAfter
        BY <2>1, <1>1 DEF TypeOK, RunOK
      <4>2. id'[b] # id'[a]
        BY <2>1, <4>1 DEF TableOK
      <4>3. id[b] \in fresh /\ age'[b] = age[b]
        BY <2>1, <4>1, <4>2
      <4>4. QED
        BY <1>1, <4>3 DEF FreshOK, Storing
    <3>2. \A i \in fresh' : i \notin stale' /\ i # cur'
      BY <1>1, <1>2, <2>1, <2>2 DEF TypeOK, RunOK
    <3>3. elapsed' = elapsed
      BY <1>1
    <3>4. QED
      BY <3>1, <3>2, <3>3 DEF FreshOK
  <2>7. NothingLost'
    BY <1>1, <2>1, <2>2 DEF NothingLost
  <2>8. CalmOK'
    BY <1>1, <1>2, <2>1, <2>2 DEF CalmOK, TypeOK, OutsideOK
  <2>9. ArchivedOnce'
    <3>1. SUFFICES ASSUME mishaps' = 0, NEW i \in 1..issued'
                   PROVE  /\ archive[i] <= 1
                          /\ archive[i] = 1 => i \notin Live'
                          /\ i \in told => i \notin Live'
      BY <1>1, <1>2 DEF ArchivedOnce
    <3>2. mishaps = 0
      BY <1>1, <3>1 DEF TypeOK, OutsideOK
    <3>3. CASE i \in 1..issued
      BY <1>2, <2>1, <2>2, <3>2, <3>3 DEF ArchivedOnce
    <3>4. CASE i > issued
      BY <2>2, <3>1, <3>4 DEF CalmOK, TypeOK, OutsideOK
    <3>5. QED
      BY <2>2, <3>1, <3>3, <3>4
  <2>10. QED
    BY <2>1, <2>3, <2>4, <2>5, <2>6, <2>7, <2>8, <2>9 DEF TypeOK
<1>5. QED
  BY <1>1, <1>3, <1>4

\* StaleOrders gives rows that this collection has not stored.
LEMMA StaleOrdersStep ==
  ASSUME IInv, StaleOrders
  PROVE  IInv'
<1>1. CASE Reset
  <2>1. /\ UNCHANGED <<table, discarded, told, listed, request, file>>
        /\ UNCHANGED mishaps \/ Mishap
        /\ pc = "stale"
    BY <1>1 DEF StaleOrders, Reset, StoreError, Mishap
  <2>2. QED
    BY <1>1, <2>1, ResetStep DEF IInv, TypeOK, OutsideOK, Archiving
<1>2. CASE /\ \E S \in SUBSET {a \in Ads : MayBeStale(a)} : stale' = {id[a] : a \in S}
           /\ ~dead /\ pc' = "archive"
           /\ UNCHANGED <<dead, elapsed, todo, fresh, cur, mishaps>>
  <2> USE <1>2 DEF IInv, table, file
  <2>1. UNCHANGED <<listed, table, discarded, file, told, request>> /\ pc = "stale"
    BY DEF StaleOrders
  <2>2. \A i \in stale' : \E a \in Ads : MayBeStale(a) /\ i = id[a]
    OBVIOUS
  <2>3. cur = 0 /\ 0 \notin stale'
    BY <2>1, <2>2 DEF PhaseOK, MayBeStale, Archiving
  <2>4. TypeOK'
    <3>1. TableOK'
      BY <2>1 DEF TypeOK, TableOK
    <3>2. OutsideOK'
      BY <2>1 DEF TypeOK, OutsideOK
    <3>3. stale' \subseteq 1..issued'
      BY <2>1, <2>2 DEF TypeOK, TableOK, MayBeStale
    <3>4. RunOK'
      BY <2>1, <3>3 DEF TypeOK, RunOK
    <3>5. QED
      BY <3>1, <3>2, <3>4 DEF TypeOK
  <2>5. PhaseOK' /\ OrderOK'
    BY <2>1, <2>3 DEF PhaseOK, OrderOK, Archiving
  <2>6. FreshOK'
    <3>1. ASSUME NEW i \in fresh, i \in stale' PROVE elapsed = StaleAfter
      <4>1. PICK a \in Ads : MayBeStale(a) /\ i = id[a]
        BY <2>2, <3>1
      <4>2. age[a] <= elapsed \/ elapsed = StaleAfter
        BY <2>1, <3>1, <4>1 DEF FreshOK, Storing
      <4>3. elapsed \in 0..StaleAfter /\ age[a] \in Nat /\ age[a] >= StaleAfter
        BY <4>1 DEF MayBeStale, TypeOK, TableOK, RunOK
      <4>4. QED
        BY <4>2, <4>3
    <3>2. \A i \in fresh : i # cur
      BY <2>3 DEF TypeOK, RunOK
    <3>3. QED
      BY <2>1, <2>3, <3>1, <3>2 DEF FreshOK, Storing
  <2>7. Live' = Live
    BY <2>1 DEF Live
  <2>8. NothingLost' /\ ArchivedOnce'
    BY <2>1, <2>7 DEF NothingLost, ArchivedOnce
  <2>9. CalmOK'
    <3>1. ASSUME mishaps = 0, NEW i \in stale' PROVE archive[i] = 0 /\ i \notin told
      <4>1. i \in Live /\ i \in 1..issued /\ i # cur
        BY <2>1, <2>2, <2>3, <2>4, <3>1 DEF Live, TypeOK, RunOK
      <4>2. archive[i] \in 0..2
        BY <4>1 DEF TypeOK, TableOK, OutsideOK
      <4>3. QED
        BY <3>1, <4>1, <4>2 DEF ArchivedOnce
    <3>2. QED
      BY <2>1, <2>4, <3>1 DEF CalmOK, TypeOK, RunOK
  <2>10. QED
    BY <2>4, <2>5, <2>6, <2>8, <2>9
<1>3. QED
  BY <1>1, <1>2 DEF StaleOrders

LEMMA OpenArchiveStep ==
  ASSUME IInv, OpenArchive
  PROVE  IInv'
<1> USE DEF IInv, OpenArchive, table, file
<1>1. PICK i \in stale : cur' = i /\ stale' = stale \ {i}
  OBVIOUS
<1>2. i \in 1..issued /\ cur = 0 /\ pc = "archive" /\ pc' = "write"
  BY DEF TypeOK, RunOK, PhaseOK, Archiving
<1>3. TypeOK'
  <2>1. TableOK'
    BY DEF TypeOK, TableOK
  <2>2. OutsideOK'
    BY DEF TypeOK, OutsideOK
  <2>3. RunOK'
    BY <1>1, <1>2 DEF TypeOK, TableOK, RunOK
  <2>4. QED
    BY <2>1, <2>2, <2>3 DEF TypeOK
<1>4. PhaseOK' /\ OrderOK'
  BY <1>1, <1>2 DEF PhaseOK, OrderOK, Archiving
<1>5. FreshOK'
  BY <1>1, <1>2 DEF FreshOK, Storing
<1>6. Live' = Live
  BY DEF Live
<1>7. NothingLost' /\ CalmOK'
  BY <1>1, <1>2, <1>6 DEF NothingLost, CalmOK
<1>8. ArchivedOnce'
  BY <1>2, <1>6 DEF ArchivedOnce, TypeOK, RunOK
<1>9. QED
  BY <1>3, <1>4, <1>5, <1>7, <1>8

LEMMA WriteArchiveStep ==
  ASSUME IInv, WriteArchive
  PROVE  IInv'
<1> USE DEF IInv, WriteArchive, table
<1>1. cur \in 1..issued /\ cur \in Rows /\ cur \notin stale /\ issued \in Nat
  BY DEF PhaseOK, Archiving, TypeOK, TableOK, RunOK
<1>2. /\ UNCHANGED <<listed, table, discarded, told, request, dead, elapsed, todo, fresh, stale>>
      /\ Live' = Live
  BY DEF Live
<1>3. CASE /\ archive' = [archive EXCEPT ![cur] = IF @ < 2 THEN @ + 1 ELSE @]
           /\ pc' = "emit"
           /\ UNCHANGED <<torn, cur, mishaps>>
  <2>1. archive' \in [Rows -> 0..2] /\ archive'[cur] > 0
        /\ \A i \in Rows : i # cur => archive'[i] = archive[i]
    BY <1>1, <1>3 DEF TypeOK, OutsideOK
  <2>2. TableOK'
    BY <1>2 DEF TypeOK, TableOK
  <2>3. OutsideOK'
    BY <1>2, <1>3, <2>1 DEF TypeOK, OutsideOK
  <2>4. RunOK'
    BY <1>2, <1>3 DEF TypeOK, RunOK
  <2>5. PhaseOK' /\ OrderOK'
    BY <1>2, <1>3, <2>1 DEF PhaseOK, OrderOK, Archiving
  <2>6. FreshOK'
    BY <1>2, <1>3 DEF FreshOK, Storing
  <2>7. NothingLost'
    <3>1. \A i \in 1..issued : archive[i] > 0 => archive'[i] > 0
      BY <2>1, <1>1 DEF TypeOK, TableOK
    <3>2. QED
      BY <1>2, <1>3, <3>1 DEF NothingLost
  <2>8. CalmOK'
    <3>1. \A i \in Rows : i > issued => i # cur
      BY <1>1
    <3>2. QED
      BY <1>1, <1>2, <1>3, <2>1, <3>1 DEF CalmOK
  <2>9. ArchivedOnce'
    <3>1. mishaps = 0 => archive[cur] = 0 /\ archive'[cur] = 1
      BY <1>1, <1>3 DEF CalmOK, TypeOK, OutsideOK
    <3>2. QED
      BY <1>1, <1>2, <1>3, <2>1, <3>1 DEF ArchivedOnce, TypeOK, TableOK
  <2>10. QED
    BY <2>2, <2>3, <2>4, <2>5, <2>6, <2>7, <2>8, <2>9 DEF TypeOK
<1>4. CASE Mishap /\ (Tear \/ UNCHANGED file) /\ ArchiveFailed
  <2> USE <1>4 DEF Mishap, Tear, ArchiveFailed, NextOrder, file
  <2>1. TableOK'
    BY <1>2 DEF TypeOK, TableOK
  <2>2. mishaps' \in Nat /\ mishaps' # 0
    BY DEF TypeOK, OutsideOK
  <2>3. torn' \in BOOLEAN
    BY DEF TypeOK, OutsideOK
  <2>4. archive' \in [Rows -> 0..2] /\ \A i \in Rows : archive'[i] \in {archive[i], 0}
    BY DEF TypeOK, OutsideOK
  <2>5. OutsideOK'
    BY <1>2, <2>2, <2>3, <2>4 DEF TypeOK, OutsideOK
  <2>6. RunOK'
    BY <1>2 DEF TypeOK, TableOK, RunOK
  <2>7. PhaseOK' /\ OrderOK'
    BY <1>1, <1>2 DEF PhaseOK, OrderOK, Archiving, TypeOK, RunOK
  <2>8. FreshOK'
    BY <1>1, <1>2 DEF FreshOK, Storing, TypeOK, RunOK
  <2>9. NothingLost'
    BY <1>2 DEF NothingLost
  <2>10. CalmOK' /\ ArchivedOnce'
    BY <1>2, <2>2, <2>4 DEF CalmOK, ArchivedOnce
  <2>11. QED
    BY <2>1, <2>5, <2>6, <2>7, <2>8, <2>9, <2>10 DEF TypeOK
<1>5. QED
  BY <1>3, <1>4

LEMMA EmitRemovedStep ==
  ASSUME IInv, EmitRemoved
  PROVE  IInv'
<1> USE DEF IInv, EmitRemoved, Broadcast, table, file, run
<1>1. cur \in 1..issued /\ cur \notin stale
  BY DEF PhaseOK, Archiving, TypeOK, TableOK, RunOK
<1>2. Live' = Live
  BY DEF Live
<1>3. TypeOK'
  <2>1. TableOK'
    BY DEF TypeOK, TableOK
  <2>2. told' \subseteq 1..issued'
    BY <1>1 DEF TypeOK, OutsideOK
  <2>3. OutsideOK'
    BY <2>2 DEF TypeOK, OutsideOK
  <2>4. RunOK'
    BY DEF TypeOK, RunOK
  <2>5. QED
    BY <2>1, <2>3, <2>4 DEF TypeOK
<1>4. PhaseOK' /\ OrderOK' /\ FreshOK'
  BY DEF PhaseOK, OrderOK, FreshOK, Archiving, Storing
<1>5. NothingLost' /\ CalmOK'
  BY <1>1, <1>2 DEF NothingLost, CalmOK
<1>6. ArchivedOnce'
  BY <1>2 DEF ArchivedOnce
<1>7. QED
  BY <1>3, <1>4, <1>5, <1>6

LEMMA DeleteOrderStep ==
  ASSUME IInv, DeleteOrder
  PROVE  IInv'
<1> USE DEF IInv, DeleteOrder, file
<1>1. cur \in 1..issued /\ cur \notin stale /\ archive[cur] > 0 /\ issued \in Nat
  BY DEF PhaseOK, OrderOK, Archiving, TypeOK, TableOK, RunOK
<1>2. /\ UNCHANGED <<listed, discarded, file, told, request, dead, elapsed, todo, fresh, stale>>
      /\ pc' = "archive" /\ cur' = 0
  BY DEF NextOrder
<1>3. /\ mishaps' \in Nat
      /\ mishaps' = 0 => mishaps = 0
      /\ DeleteRow(cur) \/ (UNCHANGED table /\ mishaps' # 0)
  BY DEF StoreError, Mishap, Perhaps, TypeOK, OutsideOK, CalmOK
<1>4. /\ TableOK' /\ issued' = issued
      /\ Live' = Live \ {cur} \/ (Live' = Live /\ mishaps' # 0)
  <2>1. CASE DeleteRow(cur)
    BY <1>1, <2>1, DeleteEffect DEF TypeOK
  <2>2. CASE UNCHANGED table /\ mishaps' # 0
    BY <2>2 DEF table, TypeOK, TableOK, Live
  <2>3. QED
    BY <1>3, <2>1, <2>2
<1>5. OutsideOK'
  <2>1. torn' \in BOOLEAN
    BY <1>2 DEF TypeOK, OutsideOK
  <2>2. archive' \in [Rows -> 0..2] /\ listed' \subseteq Ads /\ mishaps' \in Nat
    BY <1>2, <1>3 DEF TypeOK, OutsideOK
  <2>3. discarded' \subseteq 1..issued' /\ told' \subseteq 1..issued'
    BY <1>2, <1>4 DEF TypeOK, OutsideOK
  <2>4. request' \in [Requests -> Patches \cup {None}]
    BY <1>2 DEF TypeOK, OutsideOK
  <2>5. QED
    BY <2>1, <2>2, <2>3, <2>4 DEF OutsideOK
<1>6. RunOK'
  BY <1>1, <1>2, <1>4 DEF TypeOK, RunOK
<1>7. PhaseOK' /\ OrderOK'
  BY <1>1, <1>2 DEF PhaseOK, OrderOK, Archiving, TypeOK, RunOK
<1>8. FreshOK'
  BY <1>2 DEF FreshOK, Storing, TypeOK, RunOK
<1>9. NothingLost'
  BY <1>1, <1>2, <1>4 DEF NothingLost
<1>10. CalmOK'
  <2>1. dead' => mishaps' > 0
    <3>1. SUFFICES ASSUME dead PROVE mishaps' > 0
      BY <1>2
    <3>2. mishaps # 0
      BY <3>1 DEF CalmOK, TypeOK, OutsideOK
    <3>3. QED
      BY <1>3, <3>2
  <2>2. QED
    BY <1>2, <1>3, <1>4, <2>1 DEF CalmOK
<1>11. ArchivedOnce'
  <2>1. mishaps' = 0 => Live' = Live \ {cur}
    BY <1>4
  <2>2. QED
    BY <1>1, <1>2, <1>3, <1>4, <2>1 DEF ArchivedOnce
<1>12. QED
  BY <1>4, <1>5, <1>6, <1>7, <1>8, <1>9, <1>10, <1>11 DEF TypeOK

\* What PATCH, the site and a context that ends do not touch.
LEMMA PatchStep ==
  ASSUME IInv, NEW r \in Requests,
         PatchWrite(r) \/ \E a \in Ads : PatchRead(r, a)
  PROVE  IInv'
<1> USE DEF IInv, file, run
<1>1. /\ UNCHANGED <<listed, id, age, issued, discarded, file, told, pc, dead, run, mishaps>>
      /\ Live' = Live
  BY DEF PatchWrite, PatchRead, table, Live
<1>2. status' \in [Ads -> Statuses] /\ request' \in [Requests -> Patches \cup {None}]
  <2>1. CASE PatchWrite(r)
    <3>1. request[r] \in Patches
      BY <2>1 DEF PatchWrite, TypeOK, OutsideOK
    <3>2. request[r].status \in Statuses
      BY <3>1
    <3>3. status' \in [Ads -> Statuses]
      BY <2>1, <3>2 DEF PatchWrite, TypeOK, TableOK
    <3>4. QED
      BY <2>1, <3>3 DEF PatchWrite, TypeOK, OutsideOK
  <2>2. ASSUME NEW a \in Ads, PatchRead(r, a)
        PROVE  status' \in [Ads -> Statuses] /\ request' \in [Requests -> Patches \cup {None}]
    <3>1. id[a] \in Rows
      BY <2>2 DEF PatchRead, TypeOK, TableOK
    <3>2. PICK s \in Statuses : request' = [request EXCEPT ![r] = [row |-> id[a], status |-> s]]
      BY <2>2 DEF PatchRead
    <3>3. [row |-> id[a], status |-> s] \in Patches
      BY <3>1
    <3>4. request' \in [Requests -> Patches \cup {None}]
      BY <3>2, <3>3 DEF TypeOK, OutsideOK
    <3>5. QED
      BY <2>2, <3>4 DEF PatchRead, table, TypeOK, TableOK
  <2>3. QED
    BY <2>1, <2>2
<1>3. TableOK'
  BY <1>1, <1>2 DEF TypeOK, TableOK
<1>4. OutsideOK'
  <2>1. torn' \in BOOLEAN
    BY <1>1 DEF TypeOK, OutsideOK
  <2>2. QED
    BY <1>1, <1>2, <2>1 DEF TypeOK, OutsideOK
<1>5. RunOK'
  <2>1. dead' \in BOOLEAN
    BY <1>1 DEF TypeOK, RunOK
  <2>2. QED
    BY <1>1, <2>1 DEF TypeOK, RunOK
<1>6. PhaseOK' /\ OrderOK' /\ FreshOK'
  BY <1>1 DEF PhaseOK, OrderOK, FreshOK, Storing
<1>7. NothingLost' /\ CalmOK' /\ ArchivedOnce'
  BY <1>1 DEF NothingLost, CalmOK, ArchivedOnce
<1>8. QED
  BY <1>3, <1>4, <1>5, <1>6, <1>7 DEF TypeOK

LEMMA UserDeleteStep ==
  ASSUME IInv, NEW a \in Ads, UserDelete(a)
  PROVE  IInv'
<1> USE DEF IInv, UserDelete, file, run
<1>1. id[a] \in 1..issued /\ id[a] \in Nat \ {0}
  BY DEF TypeOK, TableOK
<1>2. /\ TableOK' /\ issued' = issued /\ Live' = Live \ {id[a]}
      /\ \A b \in Ads : id'[b] = id[b] \/ id'[b] = 0
      /\ \A b \in Ads : id'[b] # 0 => age'[b] = age[b]
  BY <1>1, DeleteEffect DEF TypeOK
<1>3. UNCHANGED <<listed, file, told, request, pc, dead, run, mishaps>>
  OBVIOUS
<1>4. OutsideOK'
  <2>1. torn' \in BOOLEAN
    BY <1>3 DEF TypeOK, OutsideOK
  <2>2. discarded' \subseteq 1..issued' /\ told' \subseteq 1..issued'
    BY <1>1, <1>2, <1>3 DEF TypeOK, OutsideOK
  <2>3. archive' \in [Rows -> 0..2] /\ listed' \subseteq Ads /\ mishaps' \in Nat
        /\ request' \in [Requests -> Patches \cup {None}]
    BY <1>3 DEF TypeOK, OutsideOK
  <2>4. QED
    BY <2>1, <2>2, <2>3 DEF OutsideOK
<1>5. RunOK'
  <2>1. dead' \in BOOLEAN
    BY <1>3 DEF TypeOK, RunOK
  <2>2. QED
    BY <1>2, <1>3, <2>1 DEF TypeOK, RunOK
<1>6. PhaseOK' /\ OrderOK'
  BY <1>3 DEF PhaseOK, OrderOK
<1>7. FreshOK'
  <2>1. \A b \in Ads : id'[b] \in fresh' => id'[b] # 0
    BY <1>3 DEF TypeOK, RunOK
  <2>2. QED
    BY <1>2, <1>3, <2>1 DEF FreshOK, Storing
<1>8. NothingLost'
  BY <1>2, <1>3 DEF NothingLost
<1>9. CalmOK' /\ ArchivedOnce'
  BY <1>2, <1>3 DEF CalmOK, ArchivedOnce
<1>10. QED
  BY <1>2, <1>4, <1>5, <1>6, <1>7, <1>8, <1>9 DEF TypeOK

LEMMA EnvironmentStep ==
  ASSUME IInv, ContextDone \/ \E a \in Ads : SiteChanges(a)
  PROVE  IInv'
<1> USE DEF IInv, table, file, run
<1>1. /\ UNCHANGED <<table, discarded, file, told, request, pc, run>>
      /\ listed' \subseteq Ads
      /\ Live' = Live
  BY DEF ContextDone, SiteChanges, TypeOK, OutsideOK, Live
<1>2. /\ mishaps' \in Nat
      /\ mishaps' = 0 => mishaps = 0
  BY DEF ContextDone, SiteChanges, Mishap, TypeOK, OutsideOK
<1>3. /\ dead' \in BOOLEAN
      /\ dead' => mishaps' > 0
  <2>1. CASE ContextDone
    BY <2>1 DEF ContextDone, Mishap, TypeOK, OutsideOK
  <2>2. CASE UNCHANGED <<dead, mishaps>>
    BY <2>2 DEF TypeOK, RunOK, CalmOK
  <2>3. QED
    BY <2>1, <2>2 DEF SiteChanges
<1>4. TableOK'
  BY <1>1 DEF TypeOK, TableOK
<1>5. OutsideOK'
  <2>1. torn' \in BOOLEAN
    BY <1>1 DEF TypeOK, OutsideOK
  <2>2. QED
    BY <1>1, <1>2, <2>1 DEF TypeOK, OutsideOK
<1>6. RunOK'
  BY <1>1, <1>3 DEF TypeOK, RunOK
<1>7. PhaseOK' /\ OrderOK' /\ FreshOK'
  BY <1>1 DEF PhaseOK, OrderOK, FreshOK, Storing
<1>8. NothingLost' /\ CalmOK' /\ ArchivedOnce'
  BY <1>1, <1>2, <1>3 DEF NothingLost, CalmOK, ArchivedOnce
<1>9. QED
  BY <1>4, <1>5, <1>6, <1>7, <1>8 DEF TypeOK

LEMMA TickStep ==
  ASSUME IInv, Tick
  PROVE  IInv'
<1> USE DEF IInv, Tick, file
<1>1. UNCHANGED <<listed, id, status, issued, discarded, file, told, request, pc, dead,
                  todo, fresh, stale, cur, mishaps>>
  OBVIOUS
<1>2. Live' = Live
  BY <1>1 DEF Live
<1>3. \A a \in Ads : age'[a] = IF id[a] # 0 /\ age[a] <= StaleAfter THEN age[a] + 1 ELSE age[a]
  OBVIOUS
<1>4. TableOK'
  <2>1. age' \in [Ads -> Nat] /\ \A a \in Ads : age'[a] <= StaleAfter + 1
    BY <1>3 DEF TypeOK, TableOK
  <2>2. QED
    BY <1>1, <2>1 DEF TypeOK, TableOK
<1>5. OutsideOK'
  <2>1. torn' \in BOOLEAN
    BY <1>1 DEF TypeOK, OutsideOK
  <2>2. QED
    BY <1>1, <2>1 DEF TypeOK, OutsideOK
<1>6. RunOK'
  <2>1. elapsed' \in 0..StaleAfter
    BY DEF TypeOK, RunOK
  <2>2. dead' \in BOOLEAN
    BY <1>1 DEF TypeOK, RunOK
  <2>3. QED
    BY <1>1, <2>1, <2>2 DEF TypeOK, RunOK
<1>7. PhaseOK' /\ OrderOK'
  BY <1>1 DEF PhaseOK, OrderOK, Storing
<1>8. FreshOK'
  <2>1. elapsed \in 0..StaleAfter /\ (elapsed = StaleAfter => elapsed' = StaleAfter)
    BY DEF TypeOK, RunOK
  <2>2. ASSUME Storing, NEW a \in Ads, id[a] \in fresh PROVE age'[a] <= elapsed' \/ elapsed' = StaleAfter
    <3>1. CASE elapsed = StaleAfter
      BY <2>1, <3>1
    <3>2. CASE elapsed # StaleAfter
      <4>1. elapsed' = elapsed + 1 /\ age[a] <= elapsed /\ age[a] \in Nat
        BY <2>1, <2>2, <3>2 DEF FreshOK, TypeOK, TableOK
      <4>2. QED
        BY <1>3, <2>1, <4>1
    <3>3. QED
      BY <3>1, <3>2
  <2>3. QED
    BY <1>1, <2>1, <2>2 DEF FreshOK, Storing
<1>9. NothingLost' /\ CalmOK' /\ ArchivedOnce'
  BY <1>1, <1>2 DEF NothingLost, CalmOK, ArchivedOnce
<1>10. QED
  BY <1>4, <1>5, <1>6, <1>7, <1>8, <1>9 DEF TypeOK

LEMMA NextStep ==
  ASSUME IInv, Next
  PROVE  IInv'
<1>1. CASE Collect
  <2>1. CASE Begin \/ FetchListings \/ FetchUnparsed \/ EndIngest
    BY <2>1, FetchStep
  <2>2. CASE FetchFailed \/ EndArchive
    BY <2>2, ResetStep DEF FetchFailed, EndArchive, IInv, TypeOK, OutsideOK, Archiving, Reset, file
  <2>3. QED
    BY <1>1, <2>1, <2>2, StoreListingStep, StaleOrdersStep, OpenArchiveStep, WriteArchiveStep,
       EmitRemovedStep, DeleteOrderStep DEF Collect
<1>2. CASE Crash
  <2>1. request' \in [Requests -> Patches \cup {None}] /\ listed' \subseteq Ads
    BY <1>2 DEF Crash, IInv, TypeOK, OutsideOK
  <2>2. QED
    BY <1>2, <2>1, ResetStep DEF Crash
<1>3. QED
  BY <1>1, <1>2, PatchStep, UserDeleteStep, EnvironmentStep, TickStep DEF Next

LEMMA StutterStep ==
  ASSUME IInv, UNCHANGED vars
  PROVE  IInv'
<1> USE DEF vars, table, file, run
<1>1. TypeOK'
  <2>1. TableOK'
    BY DEF IInv, TypeOK, TableOK
  <2>2. OutsideOK'
    BY DEF IInv, TypeOK, OutsideOK
  <2>3. RunOK'
    BY DEF IInv, TypeOK, RunOK
  <2>4. QED
    BY <2>1, <2>2, <2>3 DEF TypeOK
<1>2. PhaseOK' /\ OrderOK' /\ FreshOK'
  BY DEF IInv, PhaseOK, OrderOK, FreshOK, Storing
<1>3. Live' = Live
  BY DEF Live
<1>4. NothingLost' /\ CalmOK' /\ ArchivedOnce'
  BY <1>3 DEF IInv, NothingLost, CalmOK, ArchivedOnce
<1>5. QED
  BY <1>1, <1>2, <1>4 DEF IInv

-----------------------------------------------------------------------------
(* The theorems *)

\* The whole invariant holds in every state of SourceOrders.
THEOREM Inductive == Spec => []IInv
<1>1. IInv /\ [Next]_vars => IInv'
  BY NextStep, StutterStep
<1>2. QED
  BY InitIInv, <1>1, PTL DEF Spec

\* The variables keep to their ranges, and no two ads share a row.
THEOREM TypeCorrect == Spec => []TypeOK
<1>1. IInv => TypeOK
  BY DEF IInv
<1>2. QED
  BY <1>1, Inductive, PTL

\* No order vanishes unless the user deletes it or a write of the archive is cut
\* short.
THEOREM OrdersKept == Spec => []NothingLost
<1>1. IInv => NothingLost
  BY DEF IInv
<1>2. QED
  BY <1>1, Inductive, PTL

\* Without mishaps every order is archived once and "removed" is true.
THEOREM CalmArchive == Spec => []ArchivedOnce
<1>1. IInv => ArchivedOnce
  BY DEF IInv
<1>2. QED
  BY <1>1, Inductive, PTL

\* The only row the collector can remove is the one in its hand.
LEMMA RemovesCur ==
  ASSUME IInv, Next, NEW i, Removes(i)
  PROVE  i = cur
<1>1. CASE DeleteOrder
  <2>1. cur \in Nat \ {0} /\ TableOK
    BY <1>1 DEF DeleteOrder, IInv, PhaseOK, Archiving, TypeOK, RunOK
  <2>2. Live' = Live \ {cur} \/ Live' = Live
    BY <1>1, <2>1, DeleteEffect DEF DeleteOrder, Perhaps, StoreError, table, Live
  <2>3. QED
    BY <2>2 DEF Removes
<1>2. CASE ~DeleteOrder
  BY <1>2 DEF Removes, Next, Collect, Begin, FetchListings, FetchUnparsed, FetchFailed,
     StoreListing, EndIngest, StaleOrders, OpenArchive, WriteArchive, EmitRemoved, EndArchive,
     PatchRead, PatchWrite, UserDelete, SiteChanges, Tick, ContextDone, Crash, Reset
<1>3. QED
  BY <1>1, <1>2

\* Whatever the collector removes is in the archive and has been announced.
THEOREM RemovalInOrder == Spec => RemovedInOrder
<1>1. IInv /\ [Next]_vars => [\A i \in Rows : Removes(i) => (archive[i] > 0 /\ i \in told)]_vars
  BY RemovesCur DEF IInv, OrderOK, Removes
<1>2. QED
  BY <1>1, Inductive, PTL DEF Spec, RemovedInOrder

\* A collection that gets from the answer to StaleOrders within 2*JMW_POLL_INTERVAL removes
\* nothing that it has stored, whatever fails and whoever writes to the table meanwhile.
THEOREM FreshIsKept == Spec => FreshKept
<1>1. IInv /\ [Next]_vars => [\A i \in Rows : Removes(i) /\ i \in fresh => elapsed >= StaleAfter]_vars
  <2> SUFFICES ASSUME IInv, Next, NEW i \in Rows, Removes(i), i \in fresh PROVE elapsed >= StaleAfter
    OBVIOUS
  <2>1. i = cur
    BY RemovesCur
  <2>2. elapsed = StaleAfter
    BY <2>1 DEF IInv, FreshOK
  <2>3. QED
    BY <2>2
<1>2. QED
  BY <1>1, Inductive, PTL DEF Spec, FreshKept

-----------------------------------------------------------------------------
(* The table, the archive and the broadcasts implement OrderBook *)

\* The rows a collection is about to archive are there, or the user has deleted them
\* since StaleOrders.
StaleOK ==
  /\ stale \subseteq Live \cup discarded
  /\ cur # 0 => cur \in Live \cup discarded

LEMMA StaleNext ==
  ASSUME IInv, StaleOK, [Next]_vars
  PROVE  StaleOK'
<1>0. TypeOK /\ PhaseOK
  BY DEF IInv
<1>1. ASSUME UNCHANGED <<id, discarded>>, stale' \subseteq stale, cur' \in {0, cur} \cup stale
      PROVE  StaleOK'
  <2>1. Live' = Live
    BY <1>1 DEF Live
  <2>2. QED
    BY <1>1, <2>1 DEF StaleOK
<1>2. CASE Begin \/ FetchListings \/ FetchUnparsed \/ FetchFailed \/ EndIngest \/ OpenArchive
           \/ WriteArchive \/ EmitRemoved \/ EndArchive \/ Tick \/ ContextDone \/ Crash
           \/ UNCHANGED vars
  <2>1. UNCHANGED <<id, discarded>>
    BY <1>2 DEF Begin, FetchListings, FetchUnparsed, FetchFailed, EndIngest, OpenArchive,
       WriteArchive, EmitRemoved, EndArchive, Tick, ContextDone, Crash, vars, table
  <2>2. stale' \subseteq stale /\ cur' \in {0, cur} \cup stale
    BY <1>2 DEF Begin, FetchListings, FetchUnparsed, FetchFailed, EndIngest, OpenArchive, Reset,
       Answered, WriteArchive, ArchiveFailed, NextOrder, EmitRemoved, EndArchive, Tick,
       ContextDone, Crash, vars, run
  <2>3. QED
    BY <1>1, <2>1, <2>2
<1>3. ASSUME NEW a \in Ads, SiteChanges(a) \/ \E r \in Requests : PatchRead(r, a) \/ PatchWrite(r)
      PROVE  StaleOK'
  <2>1. UNCHANGED <<id, discarded, stale, cur>>
    BY <1>3 DEF SiteChanges, PatchRead, PatchWrite, table, run
  <2>2. QED
    BY <1>1, <2>1
<1>4. ASSUME NEW a \in Ads, StoreListing(a) PROVE StaleOK'
  <2>1. stale' = {} /\ cur' = 0
    BY <1>0, <1>4 DEF StoreListing, PhaseOK, Archiving
  <2>2. QED
    BY <2>1 DEF StaleOK
<1>5. CASE StaleOrders
  <2>1. UNCHANGED <<id, discarded>> /\ cur = 0
    BY <1>0, <1>5 DEF StaleOrders, table, PhaseOK, Archiving
  <2>2. Live' = Live
    BY <2>1 DEF Live
  <2>3. CASE Reset
    BY <2>3 DEF Reset, StaleOK
  <2>4. CASE cur' = cur /\ \E S \in SUBSET {a \in Ads : MayBeStale(a)} : stale' = {id[a] : a \in S}
    <3>1. stale' \subseteq Live
      BY <2>4 DEF MayBeStale, Live
    <3>2. QED
      BY <2>1, <2>2, <2>4, <3>1 DEF StaleOK
  <2>5. QED
    BY <1>5, <2>3, <2>4 DEF StaleOrders
<1>6. CASE DeleteOrder
  <2>1. /\ cur \in Nat \ {0} /\ cur \notin stale
        /\ stale' = stale /\ cur' = 0 /\ discarded' = discarded
    BY <1>0, <1>6 DEF DeleteOrder, NextOrder, PhaseOK, Archiving, TypeOK, RunOK
  <2>2. Live' = Live \ {cur} \/ Live' = Live
    BY <1>0, <1>6, <2>1, DeleteEffect DEF DeleteOrder, Perhaps, table, Live, TypeOK
  <2>3. QED
    BY <2>1, <2>2 DEF StaleOK
<1>7. ASSUME NEW a \in Ads, UserDelete(a) PROVE StaleOK'
  <2>1. id[a] \in Nat \ {0}
    BY <1>0, <1>7 DEF UserDelete, TypeOK, TableOK
  <2>2. Live' = Live \ {id[a]}
    BY <1>0, <1>7, <2>1, DeleteEffect DEF UserDelete, TypeOK
  <2>3. discarded' = discarded \cup {id[a]} /\ stale' = stale /\ cur' = cur
    BY <1>7 DEF UserDelete, run
  <2>4. QED
    BY <2>2, <2>3 DEF StaleOK
<1>8. ASSUME NEW r \in Requests, PatchWrite(r) PROVE StaleOK'
  <2>1. UNCHANGED <<id, discarded, stale, cur>>
    BY <1>8 DEF PatchWrite, run
  <2>2. QED
    BY <1>1, <2>1
<1>9. QED
  BY <1>2, <1>3, <1>4, <1>5, <1>6, <1>7, <1>8 DEF Next, Collect

LEMMA StaleStays == Spec => []StaleOK
<1>1. Init => StaleOK
  BY DEF Init, StaleOK
<1>2. QED
  BY <1>1, StaleNext, Inductive, PTL DEF Spec

InArchive == {i \in Rows : archive[i] > 0}

\* A write that goes through adds the order in hand to the archive.
LEMMA WriteAdds ==
  ASSUME TypeOK, NEW i \in Rows, archive' = [archive EXCEPT ![i] = IF @ < 2 THEN @ + 1 ELSE @]
  PROVE  InArchive' = InArchive \cup {i}
<1>1. archive \in [Rows -> 0..2]
  BY DEF TypeOK, OutsideOK
<1>2. \A j \in Rows : j # i => archive'[j] = archive[j]
  BY <1>1
<1>3. archive'[i] > 0
  BY <1>1
<1>4. QED
  BY <1>1, <1>2, <1>3 DEF InArchive

\* A torn file has nothing.
LEMMA TearLoses ==
  ASSUME Tear
  PROVE  InArchive' = {} /\ torn' = TRUE
<1>1. \A i \in Rows : archive'[i] = 0
  BY DEF Tear
<1>2. QED
  BY <1>1 DEF InArchive, Tear

LEMMA BookStep ==
  ASSUME IInv, StaleOK, [Next]_vars
  PROVE  Book!Next \/ UNCHANGED <<Live, issued, InArchive, told, discarded, torn>>
<1>0. TypeOK /\ TableOK /\ PhaseOK /\ OrderOK /\ issued \in Nat
  BY DEF IInv, TypeOK, TableOK
<1>1. ASSUME UNCHANGED <<id, issued, archive, torn, told, discarded>>
      PROVE  UNCHANGED <<Live, issued, InArchive, told, discarded, torn>>
  BY <1>1 DEF Live, InArchive
<1>2. CASE Begin \/ FetchListings \/ FetchUnparsed \/ FetchFailed \/ EndIngest \/ StaleOrders
           \/ OpenArchive \/ EndArchive \/ Tick \/ ContextDone \/ UNCHANGED vars
  BY <1>1, <1>2 DEF Begin, FetchListings, FetchUnparsed, FetchFailed, EndIngest, StaleOrders,
     OpenArchive, EndArchive, Tick, ContextDone, vars, table, file
<1>3. CASE (\E a \in Ads : SiteChanges(a)) \/ \E r \in Requests : PatchWrite(r) \/ \E a \in Ads : PatchRead(r, a)
  BY <1>1, <1>3 DEF SiteChanges, PatchRead, PatchWrite, table, file
<1>4. ASSUME NEW a \in Ads, StoreListing(a)
      PROVE  Book!Next \/ UNCHANGED <<Live, issued, InArchive, told, discarded, torn>>
  <2>1. UNCHANGED <<archive, torn, told, discarded>> /\ (Upsert(a) \/ UNCHANGED <<id, issued>>)
    BY <1>4 DEF StoreListing, Perhaps, table, file
  <2>2. CASE id[a] = 0 /\ InsertRow(a)
    <3>1. /\ id'[a] = issued + 1 /\ issued' = issued + 1
          /\ \A b \in Ads : b # a => id'[b] = id[b]
      BY <1>0, <2>2 DEF InsertRow, NextId, TableOK
    <3>2. \A j : j \in Live' <=> j \in Live \/ j = issued + 1
      BY <1>0, <2>2, <3>1, LiveRow, LiveRowNext
    <3>3. Live' = Live \cup {issued'} /\ InArchive' = InArchive
      BY <2>1, <3>1, <3>2 DEF InArchive
    <3>4. Book!Insert
      BY <2>1, <3>1, <3>3 DEF Book!Insert, InArchive
    <3>5. QED
      BY <3>4 DEF Book!Next
  <2>3. CASE RefreshRow(a) \/ UNCHANGED <<id, issued>>
    BY <1>1, <2>1, <2>3 DEF RefreshRow
  <2>4. QED
    BY <2>1, <2>2, <2>3 DEF Upsert
<1>5. CASE WriteArchive
  <2>1. /\ cur \in 1..issued /\ cur \in Rows /\ cur \in Live \cup discarded
        /\ UNCHANGED <<id, issued, told, discarded>>
    BY <1>0, <1>5 DEF WriteArchive, table, StaleOK, PhaseOK, Archiving, TypeOK, RunOK, TableOK
  <2>2. Live' = Live
    BY <2>1 DEF Live
  <2>3. CASE archive' = [archive EXCEPT ![cur] = IF @ < 2 THEN @ + 1 ELSE @] /\ torn' = torn
    <3>1. InArchive' = InArchive \cup {cur}
      BY <1>0, <2>1, <2>3, WriteAdds
    <3>2. \E i \in 1..issued : Book!Keep(i)
      BY <2>1, <2>2, <2>3, <3>1 DEF Book!Keep, InArchive
    <3>3. QED
      BY <3>2 DEF Book!Next
  <2>4. CASE Tear
    <3>1. Book!Lose
      BY <2>1, <2>2, <2>4, TearLoses DEF Book!Lose, InArchive
    <3>2. QED
      BY <3>1 DEF Book!Next
  <2>5. CASE UNCHANGED file
    BY <1>1, <2>1, <2>5 DEF file
  <2>6. QED
    BY <1>5, <2>3, <2>4, <2>5 DEF WriteArchive
<1>6. CASE EmitRemoved
  <2>1. /\ cur \in 1..issued /\ cur \in Rows /\ archive[cur] > 0
        /\ told' = told \cup {cur} /\ UNCHANGED <<id, issued, archive, torn, discarded>>
    BY <1>0, <1>6 DEF EmitRemoved, Broadcast, table, file, OrderOK, PhaseOK, Archiving, TypeOK, RunOK, TableOK
  <2>2. Live' = Live /\ InArchive' = InArchive /\ cur \in InArchive
    BY <2>1 DEF Live, InArchive
  <2>3. Book!Announce(cur)
    BY <2>1, <2>2 DEF Book!Announce, InArchive
  <2>4. QED
    BY <2>1, <2>3 DEF Book!Next
<1>7. CASE DeleteOrder
  <2>1. /\ cur \in 1..issued /\ cur \in Rows /\ cur \in Nat \ {0} /\ archive[cur] > 0 /\ cur \in told
        /\ UNCHANGED <<archive, torn, told, discarded>>
    BY <1>0, <1>7 DEF DeleteOrder, file, OrderOK, PhaseOK, Archiving, TypeOK, RunOK, TableOK
  <2>2. CASE UNCHANGED table
    BY <1>1, <2>1, <2>2 DEF table
  <2>3. CASE DeleteRow(cur)
    <3>1. Live' = Live \ {cur} /\ issued' = issued
      BY <1>0, <2>1, <2>3, DeleteEffect
    <3>2. InArchive' = InArchive /\ cur \in InArchive
      BY <2>1 DEF InArchive
    <3>3. CASE cur \in Live
      <4>1. Book!Remove(cur)
        BY <2>1, <3>1, <3>2, <3>3 DEF Book!Remove, InArchive
      <4>2. QED
        BY <2>1, <4>1 DEF Book!Next
    <3>4. CASE cur \notin Live
      BY <2>1, <3>1, <3>2, <3>4
    <3>5. QED
      BY <3>3, <3>4
  <2>4. QED
    BY <1>7, <2>2, <2>3 DEF DeleteOrder, Perhaps
<1>8. ASSUME NEW a \in Ads, UserDelete(a)
      PROVE  Book!Next
  <2>1. id[a] \in Nat \ {0} /\ id[a] \in 1..issued /\ id[a] \in Live
    BY <1>0, <1>8 DEF UserDelete, TableOK, Live
  <2>2. Live' = Live \ {id[a]} /\ issued' = issued
    BY <1>0, <1>8, <2>1, DeleteEffect DEF UserDelete
  <2>3. discarded' = discarded \cup {id[a]} /\ UNCHANGED <<archive, torn, told>>
    BY <1>8 DEF UserDelete, file
  <2>4. InArchive' = InArchive
    BY <2>3 DEF InArchive
  <2>5. Book!Discard(id[a])
    BY <2>1, <2>2, <2>3, <2>4 DEF Book!Discard, InArchive
  <2>6. QED
    BY <2>1, <2>5 DEF Book!Next
<1>9. CASE Crash
  <2>1. UNCHANGED <<id, issued, told, discarded>> /\ (Tear \/ UNCHANGED file)
    BY <1>9 DEF Crash, table
  <2>2. CASE UNCHANGED file
    BY <1>1, <2>1, <2>2 DEF file
  <2>3. CASE Tear
    <3>1. Live' = Live
      BY <2>1 DEF Live
    <3>2. Book!Lose
      BY <2>1, <2>3, <3>1, TearLoses DEF Book!Lose, InArchive
    <3>3. QED
      BY <3>2 DEF Book!Next
  <2>4. QED
    BY <2>1, <2>2, <2>3
<1>10. QED
  BY <1>2, <1>3, <1>4, <1>5, <1>6, <1>7, <1>8, <1>9 DEF Next, Collect

\* What collectSource, archiveStale, Append and the handlers do to an order is what
\* OrderBook allows, for any failures, crashes and acts of the user.
THEOREM BookImplemented == Spec => ImplementsOrderBook
<1>1. Init => Book!Init
  <2> SUFFICES ASSUME Init PROVE Book!Init
    OBVIOUS
  <2>1. Live = {} /\ \A i \in Rows : archive[i] = 0
    BY DEF Init, Live
  <2>2. {i \in Rows : archive[i] > 0} = {}
    BY <2>1
  <2>3. issued = 0 /\ told = {} /\ discarded = {} /\ torn = FALSE
    BY DEF Init
  <2>4. QED
    BY <2>1, <2>2, <2>3 DEF Book!Init
<1>2. IInv /\ StaleOK /\ [Next]_vars => [Book!Next]_(Book!vars)
  BY BookStep DEF Book!vars, InArchive
<1>3. QED
  BY <1>1, <1>2, Inductive, StaleStays, PTL DEF Spec, ImplementsOrderBook, Book!Spec

-----------------------------------------------------------------------------
(* Orders that are won *)

Late == pc \notin {"idle", "fetch", "ingest", "stale"}

\* No row that is about to be archived is won.
WonOK == Late => \A a \in Ads : id[a] # 0 /\ id[a] \in stale \cup {cur} => status[a] # "won"

LEMMA WonNext ==
  ASSUME IInv, WonOK, [Next]_vars, Late => \A r \in Requests : ~PatchWrite(r)
  PROVE  WonOK'
<1>0. TypeOK /\ PhaseOK
  BY DEF IInv
<1> SUFFICES ASSUME Late', NEW a \in Ads, id'[a] # 0, id'[a] \in stale' \cup {cur'}
             PROVE  status'[a] # "won"
  BY DEF WonOK
<1>1. ASSUME Late, id'[a] = id[a], status'[a] \in {status[a], "new"},
             stale' \subseteq stale, cur' \in {0, cur} \cup stale
      PROVE  status'[a] # "won"
  BY <1>1 DEF WonOK
<1>2. CASE Begin \/ FetchListings \/ FetchUnparsed \/ FetchFailed \/ EndIngest \/ EndArchive \/ Crash
  BY <1>2 DEF Begin, FetchListings, FetchUnparsed, FetchFailed, EndIngest, EndArchive, Crash, Reset,
     Answered, Late
<1>3. ASSUME NEW b \in Ads, StoreListing(b) PROVE FALSE
  BY <1>3 DEF StoreListing, Late
<1>4. CASE StaleOrders
  <2>1. ~Reset /\ UNCHANGED <<id, status>>
    BY <1>4 DEF StaleOrders, Reset, Late, table
  <2>2. PICK S \in SUBSET {b \in Ads : MayBeStale(b)} : stale' = {id[b] : b \in S} /\ cur' = cur
    BY <1>4, <2>1 DEF StaleOrders
  <2>3. cur = 0
    BY <1>0, <1>4 DEF StaleOrders, PhaseOK, Archiving
  <2>4. PICK b \in S : id[a] = id[b]
    BY <2>1, <2>2, <2>3
  <2>5. a = b /\ MayBeStale(b)
    BY <1>0, <2>1, <2>4 DEF TypeOK, TableOK
  <2>6. QED
    BY <2>1, <2>5 DEF MayBeStale
<1>5. CASE OpenArchive \/ WriteArchive \/ EmitRemoved \/ Tick \/ ContextDone \/ UNCHANGED vars
  <2>1. UNCHANGED <<id, status>> /\ Late
    BY <1>5 DEF OpenArchive, WriteArchive, EmitRemoved, Tick, ContextDone, vars, table, Late
  <2>2. stale' \subseteq stale /\ cur' \in {0, cur} \cup stale
    BY <1>5 DEF OpenArchive, WriteArchive, ArchiveFailed, NextOrder, EmitRemoved, Tick,
       ContextDone, vars, run
  <2>3. QED
    BY <1>1, <2>1, <2>2
<1>6. ASSUME NEW i, DeleteRow(i) PROVE id'[a] = id[a] /\ status'[a] \in {status[a], "new"}
  BY <1>6 DEF DeleteRow, RemoveRow
<1>7. CASE DeleteOrder
  <2>1. Late /\ stale' = stale /\ cur' = 0 /\ (DeleteRow(cur) \/ UNCHANGED <<id, status>>)
    BY <1>7 DEF DeleteOrder, NextOrder, Late, Perhaps, table
  <2>2. QED
    BY <1>1, <1>6, <2>1
<1>8. ASSUME NEW b \in Ads, UserDelete(b) PROVE status'[a] # "won"
  <2>1. Late /\ stale' = stale /\ cur' = cur /\ DeleteRow(id[b])
    BY <1>8 DEF UserDelete, Late, run
  <2>2. QED
    BY <1>1, <1>6, <2>1
<1>9. ASSUME NEW b \in Ads, SiteChanges(b) \/ \E r \in Requests : PatchRead(r, b)
      PROVE  status'[a] # "won"
  <2>1. Late /\ UNCHANGED <<id, status, stale, cur>>
    BY <1>9 DEF SiteChanges, PatchRead, Late, table, run
  <2>2. QED
    BY <1>1, <2>1
<1>10. ASSUME NEW r \in Requests, PatchWrite(r) PROVE FALSE
  BY <1>10 DEF PatchWrite, Late
<1>11. QED
  BY <1>2, <1>3, <1>4, <1>5, <1>7, <1>8, <1>9, <1>10 DEF Next, Collect

\* A won order is lost only to a status written after StaleOrders read the table.
THEOREM WonIsKept == Spec /\ Undisturbed => WonKept
<1>1. Init => WonOK
  BY DEF Init, WonOK, Late
<1>2. IInv /\ WonOK /\ [Next]_vars /\ [Late => \A r \in Requests : ~PatchWrite(r)]_vars => WonOK'
  <2> SUFFICES ASSUME IInv, WonOK, [Next]_vars, [Late => \A r \in Requests : ~PatchWrite(r)]_vars
               PROVE  WonOK'
    OBVIOUS
  <2>1. CASE UNCHANGED vars
    BY <2>1 DEF vars, table, run, WonOK, Late
  <2>2. CASE Late => \A r \in Requests : ~PatchWrite(r)
    BY <2>2, WonNext
  <2>3. QED
    BY <2>1, <2>2
<1>3. IInv /\ WonOK /\ [Next]_vars => [\A a \in Ads : Removes(id[a]) => status[a] # "won"]_vars
  <2> SUFFICES ASSUME IInv, WonOK, Next, NEW a \in Ads, Removes(id[a]) PROVE status[a] # "won"
    OBVIOUS
  <2>1. id[a] = cur /\ Late /\ id[a] # 0
    BY RemovesCur DEF Removes, Late, Live
  <2>2. QED
    BY <2>1 DEF WonOK
<1>4. Undisturbed <=> [][Late => \A r \in Requests : ~PatchWrite(r)]_vars
  BY PTL DEF Undisturbed, Late
<1>5. QED
  BY <1>1, <1>2, <1>3, <1>4, Inductive, PTL DEF Spec, WonKept
=============================================================================
