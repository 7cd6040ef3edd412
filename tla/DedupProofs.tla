----------------------------- MODULE DedupProofs -----------------------------
(***************************************************************************)
(* Dedup is correct for any number of ads, texts, changes and mishaps:     *)
(* proofs.                                                                 *)
(***************************************************************************)
EXTENDS Dedup, TLAPS

USE DedupAssumption

\* TypeOK in its halves: the table, and the collector's hands.
RowsOK ==
  /\ present \subseteq Ads /\ old \subseteq present /\ handled \subseteq present
  /\ newer \in [Ads -> SUBSET present]
  /\ \A a, b \in present : a # b => (a \in newer[b] <=> b \notin newer[a])
  /\ \A a \in Ads : a \notin newer[a]
  /\ text \in [Ads -> Texts \cup {None}]
  /\ dup \in [Ads -> present \cup {None}]
  /\ \A a \in Ads : dup[a] # a

RunOK ==
  /\ pc \in {"idle", "upsert", "radar", "emit"}
  /\ cur \in Ads \cup {None}
  /\ listing \in Texts \cup {None}
  /\ found \in Ads \cup {None, Gone}
  /\ inserted \in BOOLEAN

WorldOK ==
  /\ site \in [Ads -> Texts \cup {None}]
  /\ changes \in 0..MaxChanges
  /\ mishaps \in 0..MaxMishaps

\* A listing under way has an ad and a text; a duplicate in hand is in the table
\* or known to be gone; and a new row is not its own duplicate.
HandOK ==
  /\ pc # "idle" => cur \in Ads /\ listing \in Texts
  /\ pc = "idle" => cur = None /\ found = None
  /\ found \in Ads => found \in present
  /\ pc = "upsert" /\ found = cur => cur \in present
  /\ pc # "upsert" /\ inserted => found # cur
  /\ pc = "emit" => inserted /\ found \in {None, cur}

\* Nothing found means that there is nothing but the row itself, as long as the
\* query did not fail.
SearchOK ==
  mishaps = 0 /\ pc # "idle" /\ found = None => Known(listing) \subseteq {cur}

IInv == TypeOK /\ HandOK /\ SearchOK

LEMMA TypeParts == TypeOK <=> RowsOK /\ RunOK /\ WorldOK
BY DEF TypeOK, RowsOK, RunOK, WorldOK

LEMMA TypePartsNext == TypeOK' <=> RowsOK' /\ RunOK' /\ WorldOK'
BY DEF TypeOK, RowsOK, RunOK, WorldOK

LEMMA InitIInv == Init => IInv
<1> SUFFICES ASSUME Init PROVE IInv
  OBVIOUS
<1> USE DEF Init
<1>1. RowsOK
  BY DEF RowsOK
<1>2. RunOK
  <2>1. inserted \in BOOLEAN
    OBVIOUS
  <2>2. QED
    BY <2>1 DEF RunOK
<1>3. WorldOK
  BY DEF WorldOK
<1>4. HandOK
  <2>1. found \notin Ads /\ inserted = FALSE /\ pc = "idle"
    OBVIOUS
  <2>2. QED
    BY <2>1 DEF HandOK
<1>5. SearchOK
  BY DEF SearchOK
<1>6. QED
  BY <1>1, <1>2, <1>3, <1>4, <1>5, TypeParts DEF IInv

-----------------------------------------------------------------------------
(* The parts of a step *)

\* Going on to the next listing leaves nothing in hand.
LEMMA ContinueOK ==
  ASSUME Continue
  PROVE  RunOK' /\ HandOK' /\ SearchOK'
<1>1. pc' = "idle" /\ cur' = None /\ listing' = None /\ found' = None
  BY DEF Continue
<1>2. inserted' = FALSE
  BY DEF Continue
<1>3. inserted' \in BOOLEAN
  BY <1>2
<1>4. RunOK'
  BY <1>1, <1>3 DEF RunOK
<1>5. HandOK'
  BY <1>1, <1>2 DEF HandOK
<1>6. SearchOK'
  BY <1>1 DEF SearchOK
<1>7. QED
  BY <1>4, <1>5, <1>6

LEMMA BudgetsOK ==
  ASSUME WorldOK
  PROVE  /\ Mishap => mishaps' \in 0..MaxMishaps /\ mishaps' # 0
         /\ Change => changes' \in 0..MaxChanges
BY DEF WorldOK, Mishap, Change

LEMMA SameRows ==
  ASSUME RowsOK, UNCHANGED order
  PROVE  RowsOK'
BY DEF RowsOK, order

LEMMA InsertRowOK ==
  ASSUME RowsOK, NEW a \in Ads, a \notin present, InsertRow(a)
  PROVE  RowsOK' /\ present' = present \cup {a}
<1>1. \A b \in Ads : newer'[b] = IF b \in present THEN newer[b] \cup {a} ELSE {}
  BY DEF InsertRow
<1>2. /\ present' = present \cup {a} /\ old' = old /\ handled' = handled
      /\ text' = text /\ dup' = dup
  BY DEF InsertRow
<1>3. newer' \in [Ads -> SUBSET present']
  BY <1>2 DEF InsertRow, RowsOK
<1>4. \A b \in Ads : b \notin newer'[b]
  <2> SUFFICES ASSUME NEW b \in Ads PROVE b \notin newer'[b]
    OBVIOUS
  <2>1. CASE b \in present
    <3>1. newer'[b] = newer[b] \cup {a} /\ b # a
      BY <1>1, <2>1
    <3>2. b \notin newer[b]
      BY DEF RowsOK
    <3>3. QED
      BY <3>1, <3>2
  <2>2. CASE b \notin present
    <3>1. newer'[b] = {}
      BY <1>1, <2>2
    <3>2. QED
      BY <3>1
  <2>3. QED
    BY <2>1, <2>2
<1>5. \A b, c \in present' : b # c => (b \in newer'[c] <=> c \notin newer'[b])
  <2> SUFFICES ASSUME NEW b \in present', NEW c \in present', b # c
               PROVE  b \in newer'[c] <=> c \notin newer'[b]
    OBVIOUS
  <2>1. b \in Ads /\ c \in Ads /\ newer'[a] = {}
    BY <1>1, <1>2 DEF RowsOK
  <2>2. CASE b = a
    <3>1. newer'[c] = newer[c] \cup {a}
      BY <1>1, <1>2, <2>1, <2>2
    <3>2. QED
      BY <2>1, <2>2, <3>1
  <2>3. CASE c = a
    <3>1. newer'[b] = newer[b] \cup {a}
      BY <1>1, <1>2, <2>1, <2>3
    <3>2. QED
      BY <2>1, <2>3, <3>1
  <2>4. CASE b # a /\ c # a
    <3>1. newer'[b] = newer[b] \cup {a} /\ newer'[c] = newer[c] \cup {a}
      BY <1>1, <1>2, <2>1, <2>4
    <3>2. b \in newer[c] <=> c \notin newer[b]
      BY <1>2, <2>4 DEF RowsOK
    <3>3. QED
      BY <2>4, <3>1, <3>2
  <2>5. QED
    BY <2>2, <2>3, <2>4
<1>6. dup' \in [Ads -> present' \cup {None}]
  BY <1>2 DEF RowsOK
<1>7. QED
  BY <1>2, <1>3, <1>4, <1>5, <1>6 DEF RowsOK

LEMMA RemoveRowOK ==
  ASSUME RowsOK, NEW a \in Ads, RemoveRow(a)
  PROVE  /\ RowsOK'
         /\ present' = present \ {a}
         /\ \A t \in Texts : Known(t)' \subseteq Known(t)
<1>1. /\ present' = present \ {a} /\ old' = old \ {a} /\ handled' = handled \ {a}
      /\ \A b \in Ads : newer'[b] = IF b = a THEN {} ELSE newer[b] \ {a}
      /\ \A b \in Ads : text'[b] = IF b = a THEN None ELSE text[b]
      /\ \A b \in Ads : dup'[b] = IF b = a \/ dup[b] = a THEN None ELSE dup[b]
  BY DEF RemoveRow, RowsOK
<1>2. newer' \in [Ads -> SUBSET present']
  BY DEF RemoveRow, RowsOK
<1>3. text' \in [Ads -> Texts \cup {None}]
  BY DEF RemoveRow, RowsOK
<1>4. dup' \in [Ads -> present' \cup {None}]
  BY DEF RemoveRow, RowsOK
<1>5. \A b, c \in present' : b # c => (b \in newer'[c] <=> c \notin newer'[b])
  <2> SUFFICES ASSUME NEW b \in present', NEW c \in present', b # c
               PROVE  b \in newer'[c] <=> c \notin newer'[b]
    OBVIOUS
  <2>1. b \in present /\ c \in present /\ b # a /\ c # a /\ b \in Ads /\ c \in Ads
    BY <1>1 DEF RowsOK
  <2>2. newer'[b] = newer[b] \ {a} /\ newer'[c] = newer[c] \ {a}
    BY <1>1, <2>1
  <2>3. b \in newer[c] <=> c \notin newer[b]
    BY <2>1 DEF RowsOK
  <2>4. QED
    BY <2>1, <2>2, <2>3
<1>6. \A b \in Ads : b \notin newer'[b] /\ dup'[b] # b
  BY <1>1 DEF RowsOK
<1>7. present' \subseteq Ads /\ old' \subseteq present' /\ handled' \subseteq present'
  BY <1>1 DEF RowsOK
<1>8. RowsOK'
  BY <1>2, <1>3, <1>4, <1>5, <1>6, <1>7 DEF RowsOK
<1>9. \A t \in Texts : Known(t)' \subseteq Known(t)
  BY <1>1 DEF Known, RowsOK
<1>10. QED
  BY <1>1, <1>8, <1>9

LEMMA SetRadarOK ==
  ASSUME RowsOK, HandOK, RunOK, pc = "radar", SetRadar, UNCHANGED <<present, old, newer, handled>>
  PROVE  RowsOK' /\ \A t \in Texts : Known(t)' \subseteq Known(t) \cup {cur}
<1>1. cur \in Ads /\ listing \in Texts
  BY DEF HandOK
<1>2. CASE UNCHANGED <<text, dup>>
  <2>1. RowsOK'
    BY <1>2, SameRows DEF order
  <2>2. \A t \in Texts : Known(t)' = Known(t)
    BY <1>2 DEF Known
  <2>3. QED
    BY <2>1, <2>2
<1>3. CASE /\ text' = [text EXCEPT ![cur] = listing]
           /\ dup' = [dup EXCEPT ![cur] = MarkedRow]
           /\ found # Gone
  <2>1. MarkedRow \in present \cup {None} /\ MarkedRow # cur
    BY <1>1, <1>3 DEF MarkedRow, HandOK, RunOK
  <2>2. text' \in [Ads -> Texts \cup {None}] /\ dup' \in [Ads -> present \cup {None}]
    BY <1>1, <1>3, <2>1 DEF RowsOK
  <2>3. \A a \in Ads : dup'[a] # a
    BY <1>1, <1>3, <2>1 DEF RowsOK
  <2>4. RowsOK'
    BY <2>2, <2>3 DEF RowsOK
  <2>5. \A b \in Ads : b # cur => text'[b] = text[b]
    BY <1>3 DEF RowsOK
  <2>6. \A t \in Texts : Known(t)' \subseteq Known(t) \cup {cur}
    BY <2>5 DEF Known, RowsOK
  <2>7. QED
    BY <2>4, <2>6
<1>4. QED
  BY <1>2, <1>3 DEF SetRadar

-----------------------------------------------------------------------------
(* The actions *)

LEMMA FindIInv ==
  ASSUME IInv, NEW a \in Ads, FindDuplicateByFingerprint(a)
  PROVE  IInv'
<1>1. RowsOK /\ RunOK /\ WorldOK
  BY TypeParts DEF IInv
<1>2. /\ pc' = "upsert" /\ cur' = a /\ listing' = site[a] /\ inserted' = inserted
      /\ UNCHANGED <<site, order, changes>> /\ site[a] # None
  BY DEF FindDuplicateByFingerprint
<1>3. site[a] \in Texts
  BY <1>1, <1>2 DEF WorldOK
<1>4. Known(site[a]) \subseteq present /\ present \subseteq Ads
  BY <1>1 DEF Known, RowsOK
<1>5. found' = None \/ found' \in present
  BY <1>4 DEF FindDuplicateByFingerprint, Newest
<1>6. RowsOK'
  BY <1>1, <1>2, SameRows
<1>7. RunOK'
  BY <1>1, <1>2, <1>3, <1>4, <1>5 DEF RunOK
<1>8. mishaps' \in 0..MaxMishaps
  BY <1>1, BudgetsOK DEF FindDuplicateByFingerprint, WorldOK
<1>9. WorldOK'
  BY <1>1, <1>2, <1>8 DEF WorldOK
<1>10. HandOK'
  BY <1>2, <1>3, <1>4, <1>5 DEF HandOK, order
<1>11. SearchOK'
  <2> SUFFICES ASSUME mishaps' = 0, found' = None PROVE Known(listing)' \subseteq {cur'}
    BY DEF SearchOK
  <2>1. ~Mishap
    BY <1>1, BudgetsOK
  <2>2. Known(site[a]) = {}
    <3>1. found' \notin Newest(Known(site[a]))
      BY <1>4 DEF Newest
    <3>2. QED
      BY <2>1, <3>1 DEF FindDuplicateByFingerprint
  <2>3. Known(listing)' = Known(site[a])
    BY <1>2 DEF Known, order
  <2>4. QED
    BY <2>2, <2>3
<1>12. QED
  BY <1>6, <1>7, <1>9, <1>10, <1>11, TypePartsNext DEF IInv

\* A row inserted has no text yet.
LEMMA UpsertIInv ==
  ASSUME IInv, UpsertListing
  PROVE  IInv'
<1>1. RowsOK /\ RunOK /\ WorldOK /\ HandOK /\ SearchOK
  BY TypeParts DEF IInv
<1>2. cur \in Ads /\ listing \in Texts /\ pc = "upsert" /\ UNCHANGED <<site, changes>>
  BY <1>1 DEF UpsertListing, HandOK
<1>3. UNCHANGED order \/ (cur \notin present /\ InsertRow(cur))
  BY DEF UpsertListing
<1>4. RowsOK' /\ present \subseteq present'
  <2>1. CASE UNCHANGED order
    BY <1>1, <2>1, SameRows DEF order
  <2>2. CASE cur \notin present /\ InsertRow(cur)
    BY <1>1, <1>2, <2>2, InsertRowOK
  <2>3. QED
    BY <1>3, <2>1, <2>2
<1>5. WorldOK'
  <2>1. mishaps' \in 0..MaxMishaps
    BY <1>1, BudgetsOK DEF UpsertListing, WorldOK
  <2>2. QED
    BY <1>1, <1>2, <2>1 DEF WorldOK
<1>6. CASE Continue
  BY <1>4, <1>5, <1>6, ContinueOK, TypePartsNext DEF IInv
<1>7. CASE pc' = "radar" /\ inserted' = (cur \notin present) /\ UNCHANGED <<cur, listing, found, mishaps>>
  <2>1. inserted' \in BOOLEAN
    BY <1>7
  <2>2. RunOK'
    BY <1>1, <1>7, <2>1 DEF RunOK
  <2>3. HandOK'
    <3>1. found' \in Ads => found' \in present'
      BY <1>1, <1>4, <1>7 DEF HandOK
    <3>2. inserted' => found' # cur'
      BY <1>1, <1>2, <1>7 DEF HandOK
    <3>3. QED
      BY <1>2, <1>7, <3>1, <3>2 DEF HandOK
  <2>4. SearchOK'
    <3> SUFFICES ASSUME mishaps = 0, found = None PROVE Known(listing)' \subseteq {cur}
      BY <1>7 DEF SearchOK
    <3>1. Known(listing) \subseteq {cur}
      BY <1>1, <1>2 DEF SearchOK
    <3>2. old' = old /\ text' = text /\ present' \subseteq present \cup {cur}
      BY <1>3 DEF InsertRow, order
    <3>3. QED
      BY <1>7, <3>1, <3>2 DEF Known
  <2>5. QED
    BY <1>4, <1>5, <2>2, <2>3, <2>4, TypePartsNext DEF IInv
<1>8. QED
  BY <1>6, <1>7 DEF UpsertListing

LEMMA RadarIInv ==
  ASSUME IInv, UpdateOrderRadar
  PROVE  IInv'
<1>1. RowsOK /\ RunOK /\ WorldOK /\ HandOK /\ SearchOK
  BY TypeParts DEF IInv
<1>2. /\ pc = "radar" /\ UNCHANGED <<present, old, newer, handled>>
      /\ UNCHANGED <<site, changes>> /\ listing \in Texts
  BY <1>1 DEF UpdateOrderRadar, HandOK
<1>3. RowsOK' /\ \A t \in Texts : Known(t)' \subseteq Known(t) \cup {cur}
  <2>1. CASE SetRadar
    BY <1>1, <1>2, <2>1, SetRadarOK
  <2>2. CASE UNCHANGED <<text, dup>>
    <3>1. RowsOK'
      BY <1>1, <1>2, <2>2, SameRows DEF order
    <3>2. \A t \in Texts : Known(t)' = Known(t)
      BY <1>2, <2>2 DEF Known
    <3>3. QED
      BY <3>1, <3>2
  <2>3. QED
    BY <2>1, <2>2 DEF UpdateOrderRadar
<1>4. mishaps' \in 0..MaxMishaps /\ (mishaps' = 0 => mishaps = 0)
  BY <1>1, BudgetsOK DEF UpdateOrderRadar, WorldOK
<1>5. WorldOK'
  BY <1>1, <1>2, <1>4 DEF WorldOK
<1>6. CASE Continue
  BY <1>3, <1>5, <1>6, ContinueOK, TypePartsNext DEF IInv
<1>7. CASE Announces /\ pc' = "emit" /\ UNCHANGED <<cur, listing, found, inserted>>
  <2>1. RunOK'
    BY <1>1, <1>7 DEF RunOK
  <2>2. HandOK'
    BY <1>1, <1>2, <1>7 DEF HandOK, Announces
  <2>3. SearchOK'
    <3> SUFFICES ASSUME mishaps' = 0, found = None PROVE Known(listing)' \subseteq {cur}
      BY <1>7 DEF SearchOK
    <3>1. Known(listing) \subseteq {cur}
      BY <1>1, <1>2, <1>4 DEF SearchOK
    <3>2. Known(listing)' \subseteq Known(listing) \cup {cur}
      <4>1. listing' = listing
        BY <1>7
      <4>2. QED
        BY <1>2, <1>3, <4>1 DEF Known
    <3>3. QED
      BY <3>1, <3>2
  <2>4. QED
    BY <1>3, <1>5, <2>1, <2>2, <2>3, TypePartsNext DEF IInv
<1>8. QED
  BY <1>6, <1>7 DEF UpdateOrderRadar

LEMMA EmitIInv ==
  ASSUME IInv, Emit
  PROVE  IInv'
<1>1. RowsOK /\ WorldOK
  BY TypeParts DEF IInv
<1>2. Continue /\ UNCHANGED <<site, order, changes, mishaps>>
  BY DEF Emit
<1>3. RowsOK' /\ WorldOK'
  BY <1>1, <1>2, SameRows DEF WorldOK
<1>4. QED
  BY <1>2, <1>3, ContinueOK, TypePartsNext DEF IInv

LEMMA CrashIInv ==
  ASSUME IInv, Crash
  PROVE  IInv'
<1>1. RowsOK /\ WorldOK
  BY TypeParts DEF IInv
<1>2. Continue /\ UNCHANGED <<site, order, changes>> /\ mishaps' \in 0..MaxMishaps
  BY <1>1, BudgetsOK DEF Crash
<1>3. RowsOK' /\ WorldOK'
  BY <1>1, <1>2, SameRows DEF WorldOK
<1>4. QED
  BY <1>2, <1>3, ContinueOK, TypePartsNext DEF IInv

LEMMA ArchiveIInv ==
  ASSUME IInv, NEW a \in Ads, Archive(a)
  PROVE  IInv'
<1>1. RowsOK /\ RunOK /\ WorldOK /\ HandOK
  BY TypeParts DEF IInv
<1>2. pc = "idle" /\ RemoveRow(a) /\ UNCHANGED <<site, run, changes>> /\ (mishaps' = mishaps \/ Mishap)
  BY DEF Archive
<1>3. RowsOK' /\ present' = present \ {a}
  BY <1>1, <1>2, RemoveRowOK
<1>4. RunOK' /\ WorldOK'
  BY <1>1, <1>2, DedupAssumption DEF RunOK, WorldOK, run, Mishap
<1>5. HandOK'
  BY <1>1, <1>2, <1>3 DEF HandOK, run
<1>6. SearchOK'
  BY <1>2 DEF SearchOK, run
<1>7. QED
  BY <1>3, <1>4, <1>5, <1>6, TypePartsNext DEF IInv

\* The row deleted may be the duplicate in hand.
LEMMA DeleteIInv ==
  ASSUME IInv, NEW a \in Ads, DeleteOrder(a)
  PROVE  IInv'
<1>1. RowsOK /\ RunOK /\ WorldOK /\ HandOK /\ SearchOK
  BY TypeParts DEF IInv
<1>2. /\ RemoveRow(a) /\ UNCHANGED <<site, pc, cur, listing, inserted, mishaps>>
      /\ found' = IF found = a THEN Gone ELSE found
  BY DEF DeleteOrder
<1>3. /\ RowsOK' /\ present' = present \ {a}
      /\ \A t \in Texts : Known(t)' \subseteq Known(t)
  BY <1>1, <1>2, RemoveRowOK
<1>4. RunOK'
  BY <1>1, <1>2 DEF RunOK
<1>5. WorldOK'
  BY <1>1, <1>2, BudgetsOK DEF WorldOK, DeleteOrder
<1>6. HandOK'
  <2>1. found' \in Ads => found' = found /\ found # a
    BY <1>2
  <2>2. found' = cur' /\ pc' # "idle" => found = cur /\ found # a
    BY <1>1, <1>2 DEF HandOK
  <2>3. pc = "idle" => found' = None
    BY <1>1, <1>2 DEF HandOK
  <2>4. pc = "emit" => inserted /\ found' \in {None, cur}
    BY <1>1, <1>2 DEF HandOK
  <2>5. QED
    BY <1>1, <1>2, <1>3, <2>1, <2>2, <2>3, <2>4 DEF HandOK
<1>7. SearchOK'
  <2> SUFFICES ASSUME mishaps = 0, pc # "idle", found' = None PROVE Known(listing)' \subseteq {cur}
    BY <1>2 DEF SearchOK
  <2>1. found = None /\ listing \in Texts
    BY <1>1, <1>2 DEF HandOK
  <2>2. Known(listing)' \subseteq Known(listing)
    <3>1. listing' = listing
      BY <1>2
    <3>2. QED
      BY <1>3, <2>1, <3>1 DEF Known
  <2>3. QED
    BY <1>1, <2>1, <2>2 DEF SearchOK
<1>8. QED
  BY <1>3, <1>4, <1>5, <1>6, <1>7, TypePartsNext DEF IInv

\* What leaves the rows' texts and the collector alone.
LEMMA OutsideIInv ==
  ASSUME IInv,
         (\E a \in Ads : Handle(a) \/ SiteChanges(a)) \/ Age
  PROVE  IInv'
<1>1. RowsOK /\ RunOK /\ WorldOK /\ HandOK /\ SearchOK
  BY TypeParts DEF IInv
<1>2. Change /\ UNCHANGED <<present, newer, text, dup, run, mishaps>>
  BY DEF Handle, SiteChanges, Age, order
<1>3. old \subseteq old' /\ old' \subseteq present /\ handled' \subseteq present
  BY <1>1 DEF Handle, SiteChanges, Age, order, RowsOK
<1>4. RowsOK'
  BY <1>1, <1>2, <1>3 DEF RowsOK
<1>5. site' \in [Ads -> Texts \cup {None}]
  BY <1>1 DEF Handle, SiteChanges, Age, WorldOK
<1>6. WorldOK'
  BY <1>1, <1>2, <1>5, BudgetsOK DEF WorldOK
<1>7. RunOK' /\ HandOK'
  BY <1>1, <1>2 DEF RunOK, HandOK, run
<1>8. SearchOK'
  <2>1. Known(listing)' \subseteq Known(listing)
    BY <1>2, <1>3 DEF Known, run
  <2>2. QED
    BY <1>1, <1>2, <2>1 DEF SearchOK, run
<1>9. QED
  BY <1>4, <1>6, <1>7, <1>8, TypePartsNext DEF IInv

LEMMA NextIInv == IInv /\ [Next]_vars => IInv'
<1> SUFFICES ASSUME IInv, [Next]_vars PROVE IInv'
  OBVIOUS
<1>1. ASSUME NEW a \in Ads, Begin(a) PROVE IInv'
  BY <1>1, FindIInv, ArchiveIInv DEF Begin
<1>2. CASE GoOn
  BY <1>2, UpsertIInv, RadarIInv, EmitIInv DEF GoOn
<1>3. ASSUME NEW a \in Ads, DeleteOrder(a) PROVE IInv'
  BY <1>3, DeleteIInv
<1>4. CASE (\E a \in Ads : Handle(a) \/ SiteChanges(a)) \/ Age
  BY <1>4, OutsideIInv
<1>5. CASE Crash
  BY <1>5, CrashIInv
<1>6. CASE UNCHANGED vars
  BY <1>6 DEF vars, order, run, IInv, TypeOK, HandOK, SearchOK, Known
<1>7. QED
  BY <1>1, <1>2, <1>3, <1>4, <1>5, <1>6 DEF Next

LEMMA Invariance == Spec => []IInv
BY InitIInv, NextIInv, PTL DEF Spec

-----------------------------------------------------------------------------
(* The theorems *)

\* Every variable keeps its range; no row is its own duplicate or that of a row
\* deleted, and the rows stay in the order of their insertion.
THEOREM TypeCorrect == Spec => []TypeOK
<1>1. IInv => TypeOK
  BY DEF IInv
<1>2. QED
  BY <1>1, Invariance, PTL

\* A gig announced as new has no counterpart of the last 14 days in the table.
THEOREM AnnouncedIsUnique == Spec => []AnnouncedUnique
<1>1. IInv => AnnouncedUnique
  <2> SUFFICES ASSUME IInv, mishaps = 0, pc = "emit" PROVE Known(listing) \subseteq {cur}
    BY DEF AnnouncedUnique
  <2>1. found = None
    BY DEF IInv, HandOK
  <2>2. QED
    BY <2>1 DEF IInv, SearchOK
<1>2. QED
  BY <1>1, Invariance, PTL
-----------------------------------------------------------------------------
(* The mark *)

\* The duplicate in hand says what the listing in hand says.
FoundOK == found \in Ads => text[found] = listing

LEMMA FoundNext == IInv /\ FoundOK /\ [Next]_vars => FoundOK'
<1> SUFFICES ASSUME IInv, FoundOK, [Next]_vars, found' \in Ads
             PROVE  text'[found'] = listing'
  BY DEF FoundOK
<1>1. RowsOK /\ RunOK /\ HandOK
  BY TypeParts DEF IInv
<1>2. ~Continue
  BY DEF Continue
<1>3. ASSUME NEW a \in Ads, FindDuplicateByFingerprint(a) PROVE text'[found'] = listing'
  <2>1. listing' = site[a] /\ text' = text
    BY <1>3 DEF FindDuplicateByFingerprint, order
  <2>2. found' \in Known(site[a])
    BY <1>3 DEF FindDuplicateByFingerprint, Newest
  <2>3. QED
    BY <2>1, <2>2 DEF Known
<1>4. CASE UpsertListing
  <2>1. UNCHANGED <<found, listing, text>>
    BY <1>2, <1>4 DEF UpsertListing, InsertRow, order
  <2>2. QED
    BY <2>1 DEF FoundOK
<1>5. CASE UpdateOrderRadar
  <2>1. UNCHANGED <<cur, listing, found>> /\ (SetRadar \/ UNCHANGED <<text, dup>>)
    BY <1>2, <1>5 DEF UpdateOrderRadar
  <2>2. text' = text \/ text' = [text EXCEPT ![cur] = listing]
    BY <2>1 DEF SetRadar
  <2>3. text'[found] \in {text[found], listing}
    BY <1>1, <2>1, <2>2 DEF RowsOK
  <2>4. QED
    BY <2>1, <2>3 DEF FoundOK
<1>6. ASSUME NEW a \in Ads, DeleteOrder(a) PROVE text'[found'] = listing'
  <2>1. found' = found /\ found # a /\ listing' = listing
    BY <1>6 DEF DeleteOrder
  <2>2. text'[found] = text[found]
    BY <1>1, <1>6, <2>1 DEF DeleteOrder, RemoveRow, RowsOK
  <2>3. QED
    BY <2>1, <2>2 DEF FoundOK
<1>7. ASSUME NEW a \in Ads, Archive(a) PROVE FALSE
  BY <1>1, <1>7 DEF Archive, HandOK, run
<1>8. CASE (\E a \in Ads : Handle(a) \/ SiteChanges(a)) \/ Age \/ UNCHANGED vars
  <2>1. UNCHANGED <<found, listing, text>>
    BY <1>8 DEF Handle, SiteChanges, Age, vars, order, run
  <2>2. QED
    BY <2>1 DEF FoundOK
<1>9. QED
  BY <1>2, <1>3, <1>4, <1>5, <1>6, <1>7, <1>8 DEF Next, Begin, GoOn, Emit, Crash

LEMMA FoundAlike == Spec => []FoundOK
<1>1. Init => FoundOK
  BY DEF Init, FoundOK
<1>2. QED
  BY <1>1, FoundNext, Invariance, PTL DEF Spec

\* Who is marked as a duplicate is one.
THEOREM MarksAreTrue == Spec => MarkedAlike
<1>1. ASSUME IInv, FoundOK, [Next]_vars, NEW a \in Ads, dup'[a] \notin {dup[a], None}
      PROVE  dup'[a] \in present \ {a} /\ text[dup'[a]] = text'[a]
  <2>1. RowsOK /\ RunOK /\ HandOK
    BY <1>1, TypeParts DEF IInv
  <2>2. SetRadar /\ pc = "radar"
    <3>1. dup' # dup
      BY <1>1
    <3>2. ASSUME NEW b \in Ads, RemoveRow(b) PROVE FALSE
      BY <1>1, <3>2 DEF RemoveRow
    <3>3. ~UNCHANGED order /\ ~UNCHANGED dup
      BY <3>1 DEF order
    <3>4. UpdateOrderRadar
      BY <1>1, <3>2, <3>3 DEF Next, Begin, GoOn, FindDuplicateByFingerprint, Archive, DeleteOrder,
         Handle, SiteChanges, UpsertListing, InsertRow, Emit, Age, Crash, vars
    <3>5. QED
      BY <3>3, <3>4 DEF UpdateOrderRadar
  <2>3. /\ text' = [text EXCEPT ![cur] = listing] /\ dup' = [dup EXCEPT ![cur] = MarkedRow]
        /\ cur \in present /\ found # Gone
    BY <1>1, <2>2 DEF SetRadar
  <2>4. a = cur /\ dup'[a] = MarkedRow /\ text'[a] = listing
    BY <1>1, <2>1, <2>3 DEF RowsOK
  <2>5. MarkedRow = found /\ found # cur /\ found \in Ads
    BY <1>1, <2>1, <2>3, <2>4 DEF MarkedRow, RunOK
  <2>6. found \in present /\ text[found] = listing
    BY <1>1, <2>1, <2>5 DEF HandOK, FoundOK
  <2>7. QED
    BY <2>4, <2>5, <2>6
<1>2. IInv /\ FoundOK /\ [Next]_vars =>
        [\A a \in Ads : dup'[a] \notin {dup[a], None} =>
           dup'[a] \in present \ {a} /\ text[dup'[a]] = text'[a]]_vars
  BY <1>1
<1>3. QED
  BY <1>2, Invariance, FoundAlike, PTL DEF Spec, MarkedAlike
=============================================================================
