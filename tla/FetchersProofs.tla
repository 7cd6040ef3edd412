----------------------------- MODULE FetchersProofs -----------------------------
(***************************************************************************)
(* What a fetch brings is whole, for any ads, cards and numbers of         *)
(* channels, changes and failures: proofs.                                 *)
(***************************************************************************)
EXTENDS Fetchers, TLAPS

USE FetchersAssumption

-----------------------------------------------------------------------------
(* From a card to a listing *)

\* What a card is like does not change while the service runs.
SiteOK == src \in Names /\ card \in [Ads -> Cards] /\ page \in [Ads -> 1..Pages]

\* Whether PostgreSQL refuses the listing of an ad.
Refused(a) ==
  \/ src = "telegram" /\ (CutTitle(a) \/ card[a].budget # "fits")
  \/ src = "freelancehunt" /\ card[a].budget # "fits"
  \/ src \in {"weblancer", "dou", "djinni"} /\ card[a].budget = "huge dollars"

Shown(a) == card[a].title # "blank" /\ (card[a].link # "none" \/ src \in {"telegram", "freelancehunt"})

IdOf(a) == IF src \in {"dou", "djinni"} THEN LastSegment(a) ELSE <<a, None>>

Row(a) == [ad |-> a, id |-> IdOf(a), refused |-> Refused(a)]

First(a) == src = "weblancer" => card[a].selector = "first"

LEMMA RowIn ==
  ASSUME NEW a \in Ads, query \in [Ads -> Queries \cup {None}]
  PROVE  /\ Row(a) \in [ad : Ads, id : Ids, refused : BOOLEAN]
         /\ Row(a).ad = a /\ Row(a).refused = Refused(a)
<1>1. IdOf(a) \in Ids
  BY DEF IdOf, LastSegment, Ids
<1>2. Refused(a) \in BOOLEAN
  BY DEF Refused
<1> QED
  BY <1>1, <1>2 DEF Row

\* A page gives listings of ads that it shows, and one of every such ad that the first
\* selector matches.
LEMMA SourcesGive ==
  ASSUME SiteOK, NEW S \in SUBSET Ads
  PROVE  /\ \A l \in Sources(S) : \E a \in S : Shown(a) /\ l = Row(a)
         /\ \A a \in S : Shown(a) /\ First(a) => Row(a) \in Sources(S)
<1>0. \A a \in Ads : /\ card[a].budget \in {"fits", "huge dollars", "huge hryvnias"}
                    /\ card[a].selector \in {"first", "later"}
  BY DEF SiteOK, Cards
<1>1. CASE src = "telegram"
  <2>1. Sources(S) = {[ad |-> a, id |-> <<a, None>>, refused |-> CutTitle(a) \/ (ParseUAHBudgetCents(a) \/ ParseBudgetCents(a))] : a \in Titled(S)}
    BY <1>1 DEF Sources, FetchTelegram, Listing
  <2>2. Titled(S) = {b \in S : Shown(b)}
    BY <1>1 DEF Titled, Shown
  <2>3. \A a \in S : /\ IdOf(a) = <<a, None>>
                     /\ Refused(a) = (CutTitle(a) \/ (ParseUAHBudgetCents(a) \/ ParseBudgetCents(a)))
    BY <1>0, <1>1 DEF IdOf, Refused, ParseUAHBudgetCents, ParseBudgetCents
  <2>4. Sources(S) = {Row(a) : a \in {b \in S : Shown(b)}}
    BY <2>1, <2>2, <2>3 DEF Row
  <2> QED
    BY <2>4
<1>2. CASE src = "freelancehunt"
  <2>1. Sources(S) = {[ad |-> a, id |-> <<a, None>>, refused |-> FALSE \/ card[a].budget # "fits"] : a \in Titled(S)}
    BY <1>2 DEF Sources, FetchFreelancehunt, Listing
  <2>2. Titled(S) = {b \in S : Shown(b)}
    BY <1>2 DEF Titled, Shown
  <2>3. \A a \in S : IdOf(a) = <<a, None>> /\ Refused(a) = (FALSE \/ card[a].budget # "fits")
    BY <1>2 DEF IdOf, Refused
  <2>4. Sources(S) = {Row(a) : a \in {b \in S : Shown(b)}}
    BY <2>1, <2>2, <2>3 DEF Row
  <2> QED
    BY <2>4
<1>3. CASE src = "weblancer"
  <2>1. Sources(S) = {[ad |-> a, id |-> <<a, None>>, refused |-> FALSE \/ ParseBudgetCents(a)] : a \in Matched(Linked(Titled(S)))}
    BY <1>3 DEF Sources, FetchWeblancer, Listing, ExternalIdFromLink
  <2>2. Linked(Titled(S)) = {b \in S : Shown(b)}
    BY <1>3 DEF Linked, Titled, Shown
  <2>3. \A a \in S : IdOf(a) = <<a, None>> /\ Refused(a) = (FALSE \/ ParseBudgetCents(a))
    BY <1>3 DEF IdOf, Refused, ParseBudgetCents
  <2>4. /\ Matched(Linked(Titled(S))) \subseteq {b \in S : Shown(b)}
        /\ \A a \in S : Shown(a) /\ First(a) => a \in Matched(Linked(Titled(S)))
    BY <1>3, <2>2 DEF Matched, First
  <2>5. Sources(S) = {Row(a) : a \in Matched(Linked(Titled(S)))}
    BY <2>1, <2>3, <2>4 DEF Row
  <2> QED
    BY <2>4, <2>5
<1>4. CASE src \in {"dou", "djinni"}
  <2>1. Sources(S) = {[ad |-> a, id |-> LastSegment(a), refused |-> FALSE \/ ParseBudgetCents(a)] : a \in Linked(Titled(S))}
    BY <1>4 DEF Sources, FetchDOU, FetchDjinni, Listing
  <2>2. Linked(Titled(S)) = {b \in S : Shown(b)}
    BY <1>4 DEF Linked, Titled, Shown
  <2>3. \A a \in S : IdOf(a) = LastSegment(a) /\ Refused(a) = (FALSE \/ ParseBudgetCents(a))
    BY <1>4 DEF IdOf, Refused, ParseBudgetCents
  <2>4. Sources(S) = {Row(a) : a \in {b \in S : Shown(b)}}
    BY <2>1, <2>2, <2>3 DEF Row
  <2> QED
    BY <2>4
<1> QED
  BY <1>1, <1>2, <1>3, <1>4 DEF SiteOK, Names

\* An ad is clear if it is shown, matched first and not refused.
LEMMA ClearIs ==
  ASSUME SiteOK, NEW a \in Ads, query \in [Ads -> Queries \cup {None}]
  PROVE  Clear(a) <=> Shown(a) /\ First(a) /\ ~Refused(a)
<1>1. /\ \A l \in Sources({a}) : Shown(a) /\ l = Row(a)
      /\ Shown(a) /\ First(a) => Row(a) \in Sources({a})
  BY SourcesGive
<1>2. Row(a).refused = Refused(a)
  BY RowIn
<1>3. ASSUME Clear(a) PROVE Shown(a) /\ First(a) /\ ~Refused(a)
  <2>1. PICK l \in Sources({a}) : ~l.refused
    BY <1>3 DEF Clear
  <2> QED
    BY <1>1, <1>2, <1>3, <2>1 DEF Clear, First
<1>4. ASSUME Shown(a), First(a), ~Refused(a) PROVE Clear(a)
  BY <1>1, <1>2, <1>4 DEF Clear, First
<1> QED
  BY <1>3, <1>4

-----------------------------------------------------------------------------
(* The inductive invariant *)

\* A listing is refused as the card of its ad says.
OutOK == \A l \in out : l.refused = Refused(l.ad)

\* What stayed up is among the listings once its page has been read, unless it was cut.
ReadOK == pc = "read" => \A a \in stayed : Clear(a) /\ page[a] < at /\ page[a] \notin cut => \E l \in out : l.ad = a

IInv == TypeOK /\ OutOK /\ ReadOK /\ WholeResult

ClearMeans ==
  SiteOK /\ query \in [Ads -> Queries \cup {None}] =>
    \A a \in Ads : Clear(a) <=> (Shown(a) /\ First(a) /\ ~Refused(a))

LEMMA ClearNow == ClearMeans
  BY ClearIs DEF ClearMeans

LEMMA ClearThen == ClearMeans'
  BY ClearNow, PTL

\* What the ads S of a page give, put into the terms of the invariant.
LEMMA PageGives ==
  ASSUME SiteOK, query \in [Ads -> Queries \cup {None}], NEW S \in SUBSET Ads
  PROVE  /\ Sources(S) \subseteq [ad : Ads, id : Ids, refused : BOOLEAN]
         /\ \A l \in Sources(S) : l.refused = Refused(l.ad)
         /\ \A a \in S : Clear(a) => \E l \in Sources(S) : l.ad = a
<1>1. ASSUME NEW l \in Sources(S)
      PROVE  l \in [ad : Ads, id : Ids, refused : BOOLEAN] /\ l.refused = Refused(l.ad)
  <2>1. PICK a \in S : l = Row(a)
    BY SourcesGive
  <2> QED
    BY <2>1, RowIn
<1>2. ASSUME NEW a \in S, Clear(a) PROVE \E l \in Sources(S) : l.ad = a
  <2>1. Shown(a) /\ First(a)
    BY <1>2, ClearIs
  <2>2. Row(a) \in Sources(S) /\ Row(a).ad = a
    BY <2>1, SourcesGive, RowIn
  <2> QED
    BY <2>2
<1> QED
  BY <1>1, <1>2

\* Clear and Refused depend on the site, which stays as it is.
LEMMA Fixed ==
  ASSUME SiteOK, UNCHANGED site, query \in [Ads -> Queries \cup {None}],
         query' \in [Ads -> Queries \cup {None}], NEW a \in Ads
  PROVE  Refused(a)' = Refused(a) /\ (Clear(a)' <=> Clear(a))
<1>1. Refused(a)' = Refused(a)
  BY DEF site, Refused, CutTitle
<1>2. (Shown(a)' <=> Shown(a)) /\ (First(a)' <=> First(a))
  BY DEF site, Shown, First
<1>3. SiteOK'
  BY DEF SiteOK, site, Pages
<1>4. Clear(a) <=> Shown(a) /\ First(a) /\ ~Refused(a)
  BY ClearIs
<1>5. Clear(a)' <=> (Shown(a) /\ First(a) /\ ~Refused(a))'
  BY <1>3, ClearThen DEF ClearMeans
<1> QED
  BY <1>1, <1>2, <1>4, <1>5

-----------------------------------------------------------------------------
(* Steps *)

SiteSteps == \E a \in Ads : Publish(a) \/ Withdraw(a) \/ Track(a)

LEMMA SiteStays == ASSUME SiteOK, [Next]_vars PROVE SiteOK' /\ UNCHANGED site
<1>1. UNCHANGED site
  BY DEF Next, Collect, vars, Begin, ReadPage, ReadPageCut, FetchFails, StoreListing, Finish, Publish, Withdraw, Track
<1> QED
  BY <1>1 DEF SiteOK, site, Pages

LEMMA TypeNext == ASSUME TypeOK, [Next]_vars PROVE TypeOK'
<1>0. SiteOK' /\ Pages' = Pages /\ Pages \in Nat \ {0}
  BY SiteStays DEF TypeOK, SiteOK, Pages, site
<1> USE DEF TypeOK
<1> SUFFICES /\ (up \subseteq Ads /\ query \in [Ads -> Queries \cup {None}])'
             /\ (pc \in {"idle", "read", "store"} /\ at \in 0..Pages /\ (pc = "read" <=> at # 0))'
             /\ (out \cup seen \subseteq [ad : Ads, id : Ids, refused : BOOLEAN])'
             /\ (cut \subseteq 1..Pages /\ stayed \subseteq up)'
             /\ (stored \in [Ids -> Ads \cup {None}])'
             /\ (changes \in 0..MaxChanges /\ failures \in 0..MaxFailures)'
  BY <1>0 DEF SiteOK
<1>1. CASE Begin
  BY <1>0, <1>1 DEF Begin
<1>2. CASE ReadPage
  <2>1. Found(at) \subseteq [ad : Ads, id : Ids, refused : BOOLEAN]
    BY PageGives DEF Found, SiteOK
  <2>2. (pc \in {"idle", "read", "store"} /\ at \in 0..Pages /\ (pc = "read" <=> at # 0))'
    <3>1. CASE at = Pages
      BY <1>0, <1>2, <3>1 DEF ReadPage
    <3>2. CASE at # Pages
      BY <1>0, <1>2, <3>2 DEF ReadPage
    <3> QED
      BY <3>1, <3>2
  <2> QED
    BY <1>0, <1>2, <2>1, <2>2 DEF ReadPage
<1>10. CASE ReadPageCut
  <2>1. PICK S \in SUBSET {a \in up : page[a] = at} : out' = out \cup Sources(S)
    BY <1>10 DEF ReadPageCut
  <2>2. Sources(S) \subseteq [ad : Ads, id : Ids, refused : BOOLEAN]
    BY PageGives DEF SiteOK
  <2>3. (pc \in {"idle", "read", "store"} /\ at \in 0..Pages /\ (pc = "read" <=> at # 0))'
    <3>1. CASE at = Pages
      BY <1>0, <1>10, <3>1 DEF ReadPageCut
    <3>2. CASE at # Pages
      BY <1>0, <1>10, <3>2 DEF ReadPageCut
    <3> QED
      BY <3>1, <3>2
  <2>4. cut' \subseteq 1..Pages'
    BY <1>0, <1>10 DEF ReadPageCut
  <2>5. changes' \in 0..MaxChanges /\ failures' \in 0..MaxFailures
    BY <1>10, FetchersAssumption DEF ReadPageCut
  <2> QED
    BY <1>0, <1>10, <2>1, <2>2, <2>3, <2>4, <2>5 DEF ReadPageCut
<1>3. CASE FetchFails
  BY <1>0, <1>3 DEF FetchFails
<1>4. ASSUME NEW l \in out, StoreListing(l) PROVE TypeOK'
  <2>1. l.id \in Ids /\ l.ad \in Ads
    OBVIOUS
  <2>2. /\ (stored \in [Ids -> Ads \cup {None}])'
        /\ seen' \subseteq [ad : Ads, id : Ids, refused : BOOLEAN]
    <3>1. CASE l.refused
      BY <1>4, <3>1 DEF StoreListing
    <3>2. CASE ~l.refused
      BY <1>4, <2>1, <3>2 DEF StoreListing
    <3> QED
      BY <3>1, <3>2
  <2> QED
    BY <1>0, <1>4, <2>2 DEF StoreListing, SiteOK
<1>5. CASE Finish
  BY <1>0, <1>5 DEF Finish
<1>6. ASSUME NEW a \in Ads, Publish(a) PROVE TypeOK'
  BY <1>0, <1>6 DEF Publish, Change, SiteOK
<1>7. ASSUME NEW a \in Ads, Withdraw(a) PROVE TypeOK'
  BY <1>0, <1>7 DEF Withdraw, Change, SiteOK
<1>8. ASSUME NEW a \in Ads, Track(a) PROVE TypeOK'
  <2>1. query' \in [Ads -> Queries \cup {None}]
    BY <1>8 DEF Track
  <2> QED
    BY <1>0, <1>8, <2>1 DEF Track, Change, SiteOK
<1>9. CASE UNCHANGED vars
  BY <1>0, <1>9 DEF vars
<1> QED
  BY <1>1, <1>2, <1>3, <1>4, <1>5, <1>6, <1>7, <1>8, <1>9, <1>10 DEF Next, Collect

\* Along every step the site is as it was, as the definitions see it.
LEMMA Same ==
  ASSUME TypeOK, [Next]_vars, NEW a \in Ads
  PROVE  Refused(a)' = Refused(a) /\ (Clear(a)' <=> Clear(a)) /\ page'[a] = page[a]
<1>1. SiteOK /\ UNCHANGED site /\ query \in [Ads -> Queries \cup {None}]
  BY SiteStays DEF TypeOK, SiteOK
<1>2. query' \in [Ads -> Queries \cup {None}]
  BY TypeNext DEF TypeOK
<1> QED
  BY <1>1, <1>2, Fixed DEF site

\* What a page that is read adds to the listings.
LEMMA OutNext == ASSUME TypeOK, OutOK, [Next]_vars PROVE OutOK'
<1>0. \A l \in out \cup out' : l.ad \in Ads
  BY TypeNext DEF TypeOK
<1>1. ASSUME out' \subseteq out PROVE OutOK'
  BY <1>0, <1>1, Same DEF OutOK
<1>2. ASSUME NEW S \in SUBSET Ads, out' = out \cup Sources(S) PROVE OutOK'
  <2>1. \A l \in Sources(S) : l.refused = Refused(l.ad)
    BY PageGives DEF TypeOK, SiteOK
  <2> QED
    BY <1>0, <1>2, <2>1, Same DEF OutOK
<1>3. CASE ReadPage
  BY <1>2, <1>3 DEF ReadPage, Found, TypeOK
<1>4. CASE ReadPageCut
  BY <1>2, <1>4 DEF ReadPageCut, TypeOK
<1>5. CASE ~ReadPage /\ ~ReadPageCut
  <2>1. out' \subseteq out
    BY <1>5 DEF Next, Collect, vars, Begin, FetchFails, StoreListing, Finish, Publish, Withdraw, Track
  <2> QED
    BY <1>1, <2>1
<1> QED
  BY <1>3, <1>4, <1>5

\* ReadOK and WholeResult: what stayed up is found on its page, and stays found.
LEMMA WholeNext == ASSUME TypeOK, OutOK, ReadOK, WholeResult, [Next]_vars PROVE ReadOK' /\ WholeResult'
<1>0. /\ stayed \subseteq Ads /\ stayed' \subseteq Ads /\ Pages \in Nat \ {0}
      /\ \A a \in Ads : page[a] \in 1..Pages
      /\ at \in 0..Pages /\ (pc = "read" <=> at # 0)
  BY TypeNext DEF TypeOK, Pages
<1> SUFFICES ASSUME NEW a \in stayed', Clear(a)', page'[a] \notin cut'
             PROVE  /\ pc' = "read" /\ page'[a] < at' => \E l \in out' : l.ad = a
                    /\ pc' = "store" => \E l \in out' \cup seen' : l.ad = a
  BY DEF ReadOK, WholeResult
<1>1. a \in Ads /\ Clear(a) /\ page'[a] = page[a]
  BY <1>0, Same
<1>2. CASE Begin
  BY <1>0, <1>1, <1>2 DEF Begin
<1>3. ASSUME pc = "read", a \in stayed, page[a] \notin cut, out \subseteq out',
             page[a] = at => \E l \in out' : l.ad = a,
             IF at = Pages THEN pc' = "store" /\ at' = 0 ELSE at' = at + 1 /\ UNCHANGED pc
      PROVE  /\ pc' = "read" /\ page'[a] < at' => \E l \in out' : l.ad = a
             /\ pc' = "store" => \E l \in out' \cup seen' : l.ad = a
  <2>1. page[a] < at => \E l \in out : l.ad = a
    BY <1>1, <1>3 DEF ReadOK
  <2>2. page[a] <= at => \E l \in out' : l.ad = a
    BY <1>0, <1>1, <1>3, <2>1
  <2>3. CASE at = Pages
    BY <1>0, <1>1, <1>3, <2>2, <2>3
  <2>4. CASE at # Pages
    BY <1>0, <1>1, <1>3, <2>2, <2>4
  <2> QED
    BY <2>3, <2>4
<1>4. CASE ReadPage
  <2>1. a \in stayed /\ a \in up /\ page[a] \notin cut /\ out' = out \cup Found(at)
    BY <1>1, <1>4 DEF ReadPage, TypeOK
  <2>2. page[a] = at => \E l \in Found(at) : l.ad = a
    BY <1>1, <2>1, PageGives DEF Found, TypeOK, SiteOK
  <2>3. page[a] = at => \E l \in out' : l.ad = a
    BY <2>1, <2>2
  <2>4. out \subseteq out'
    BY <2>1
  <2> QED
    BY <1>3, <1>4, <2>1, <2>3, <2>4 DEF ReadPage
<1>5. CASE ReadPageCut
  <2>1. a \in stayed /\ page[a] \notin cut /\ page[a] # at /\ out \subseteq out'
    BY <1>1, <1>5 DEF ReadPageCut
  <2> QED
    BY <1>3, <1>5, <2>1 DEF ReadPageCut
<1>6. CASE FetchFails
  BY <1>6 DEF FetchFails
<1>7. ASSUME NEW l \in out, StoreListing(l)
      PROVE  pc' = "store" /\ \E k \in out' \cup seen' : k.ad = a
  <2>1. a \in stayed /\ page[a] \notin cut /\ pc = "store" /\ pc' = "store" /\ out' = out \ {l} /\ seen \subseteq seen'
    BY <1>1, <1>7 DEF StoreListing
  <2>2. \E k \in out \cup seen : k.ad = a
    BY <1>1, <2>1 DEF WholeResult
  <2>3. ASSUME l.ad = a PROVE l \in seen'
    <3>1. l.refused = Refused(a)
      BY <2>3 DEF OutOK
    <3>2. ~Refused(a)
      BY <1>1, ClearIs DEF TypeOK, SiteOK
    <3> QED
      BY <1>7, <3>1, <3>2 DEF StoreListing
  <2> QED
    BY <2>1, <2>2, <2>3
<1>8. CASE Finish
  BY <1>8 DEF Finish
<1>9. CASE SiteSteps \/ UNCHANGED vars
  <2>1. stayed' \subseteq stayed /\ pc' = pc /\ at' = at /\ out' = out /\ seen' = seen /\ cut' = cut
    BY <1>9 DEF SiteSteps, Publish, Withdraw, Track, vars
  <2> QED
    BY <1>1, <2>1 DEF ReadOK, WholeResult
<1> QED
  BY <1>2, <1>4, <1>5, <1>6, <1>7, <1>8, <1>9 DEF Next, Collect, SiteSteps

LEMMA Start == Init => IInv
<1> SUFFICES ASSUME Init PROVE IInv
  OBVIOUS
<1>1. Pages \in Nat \ {0}
  BY DEF Init, Pages
<1>2. TypeOK
  BY <1>1 DEF Init, TypeOK
<1> QED
  BY <1>2 DEF Init, IInv, OutOK, ReadOK, WholeResult

\* The inductive invariant holds of every behaviour: what a fetch has read, what it
\* returned and what is stored stay tied to the site (FetchTelegram, collectSource).
THEOREM Invariance == Spec => []IInv
<1>1. IInv /\ [Next]_vars => IInv'
  BY TypeNext, OutNext, WholeNext DEF IInv
<1> QED
  BY <1>1, Start, PTL DEF Spec

-----------------------------------------------------------------------------
(* What a reader wants to know *)

\* The variables stay in their ranges for any ads, channels, changes and failures.
THEOREM TypeCorrect == Spec => []TypeOK
<1>1. IInv => TypeOK
  BY DEF IInv
<1> QED
  BY <1>1, Invariance, PTL

\* A fetch that succeeds has every ad that stayed up while it read, on whatever page that
\* was not cut (FetchTelegram): archiveStale sees no gap that the site had not.
THEOREM FetchIsWhole == Spec => []WholeResult
<1>1. IInv => WholeResult
  BY DEF IInv
<1> QED
  BY <1>1, Invariance, PTL
=============================================================================
