------------------------------- MODULE Fetchers -------------------------------
(***************************************************************************)
(* The five fetchers and what becomes of what they find: the pages of a    *)
(* source are read one after another while the site changes, cards become  *)
(* listings with an external_id, and collectSource stores them one by one. *)
(* SourceOrders takes a fetch for one look at the site; here it is not.    *)
(*                                                                         *)
(* Of a card all that counts is whether it has a title, what its link is   *)
(* like, whether the row can be stored and which of Weblancer's selectors  *)
(* match it.  A link is the ad's path, with or without a slash at its end, *)
(* and perhaps a tracking query.  An id is what the fetcher leaves of the  *)
(* path and the query.                                                     *)
(***************************************************************************)
EXTENDS Naturals, FiniteSets

CONSTANTS
  Ads,
  Channels,       \* number of JMW_TELEGRAM_CHANNELS; the other sources have one page
  Queries,        \* tracking queries that the site may put behind a link
  None,
  MaxChanges,     \* bound: ads put up or taken down, queries changed
  MaxFailures     \* bound: requests that fail, bodies that are cut

ASSUME FetchersAssumption ==
  /\ Channels \in Nat \ {0} /\ MaxChanges \in Nat /\ MaxFailures \in Nat
  /\ None \notin Ads \cup Queries

VARIABLES
  src, card, page,      \* the source; what each ad's card is like and where it is
  up, query,            \* the ads on the site, the query behind each one's link, or None
  pc, at, out,          \* the fetch: idle, read page at, store; the listings found
  cut,                  \* the pages of which the fetch has the beginning only
  stayed,               \* the ads that were up since the fetch began
  stored,               \* the rows of the source: external_id to the ad it is from, or None
  seen,                 \* the listings that the collection has stored
  changes, failures

site == <<src, card, page>>
vars == <<site, up, query, pc, at, out, cut, stayed, stored, seen, changes, failures>>

Names == {"telegram", "freelancehunt", "weblancer", "dou", "djinni"}
Cards == [title : {"blank", "whole", "torn"}, link : {"none", "path", "slash"},
          budget : {"fits", "huge dollars", "huge hryvnias"}, selector : {"first", "later"}]
Ids == (Ads \cup {None}) \X (Queries \cup {None})
Pages == IF src = "telegram" THEN Channels ELSE 1

Init ==
  /\ src \in Names /\ card \in [Ads -> Cards]
  /\ page \in [Ads -> 1..Pages]
  /\ up \in SUBSET Ads /\ \E q \in Queries \cup {None} : query = [a \in Ads |-> q]
  /\ pc = "idle" /\ at = 0 /\ out = {} /\ cut = {} /\ stayed = {}
  /\ stored = [i \in Ids |-> None] /\ seen = {}
  /\ changes = 0 /\ failures = 0

-----------------------------------------------------------------------------
(* From a card to a listing *)

\* A listing of ad a with external_id i; torn if its title is not UTF-8 any more, huge
\* if its cents do not fit an INTEGER.  PostgreSQL refuses both.
Listing(a, i, torn, huge) == [ad |-> a, id |-> i, refused |-> torn \/ huge]

Titled(S) == {a \in S : card[a].title # "blank"}
Linked(S) == {a \in S : card[a].link # "none"}

\* The budget in dollars, and that in hryvnias.
ParseBudgetCents(a) == card[a].budget = "huge dollars"
ParseUAHBudgetCents(a) == card[a].budget = "huge hryvnias"

\* A title of more than 120 bytes is cut, perhaps within a character.
CutTitle(a) == card[a].title = "torn"

\* The link up to its query; the last segment of the link with no slash at its ends: the
\* query goes with it, and is all that it is when a slash comes before the query.
ExternalIdFromLink(a) == <<a, None>>
LastSegment(a) ==
  IF card[a].link = "slash" /\ query[a] # None THEN <<None, query[a]>> ELSE <<a, query[a]>>

\* The selectors of weblancerCards in turn, until one gives a listing.
Matched(S) ==
  LET first == {a \in S : card[a].selector = "first"} IN IF first # {} THEN first ELSE S

\* A post without a date link, and a project without one, get a link made up; their ids
\* are not made from it.
FetchTelegram(S) ==
  {Listing(a, <<a, None>>, CutTitle(a), ParseUAHBudgetCents(a) \/ ParseBudgetCents(a)) : a \in Titled(S)}
FetchFreelancehunt(S) ==
  {Listing(a, <<a, None>>, FALSE, card[a].budget # "fits") : a \in Titled(S)}
FetchWeblancer(S) ==
  {Listing(a, ExternalIdFromLink(a), FALSE, ParseBudgetCents(a)) : a \in Matched(Linked(Titled(S)))}
FetchDOU(S) ==
  {Listing(a, LastSegment(a), FALSE, ParseBudgetCents(a)) : a \in Linked(Titled(S))}
FetchDjinni(S) ==
  {Listing(a, LastSegment(a), FALSE, ParseBudgetCents(a)) : a \in Linked(Titled(S))}

Sources(S) ==
  CASE src = "telegram" -> FetchTelegram(S)
    [] src = "freelancehunt" -> FetchFreelancehunt(S)
    [] src = "weblancer" -> FetchWeblancer(S)
    [] src = "dou" -> FetchDOU(S)
    [] src = "djinni" -> FetchDjinni(S)

-----------------------------------------------------------------------------
(* A collection *)

Begin ==
  /\ pc = "idle"
  /\ pc' = "read" /\ at' = 1 /\ out' = {} /\ cut' = {} /\ stayed' = up
  /\ UNCHANGED <<site, up, query, stored, seen, changes, failures>>

Found(p) == Sources({a \in up : page[a] = p})

\* Variant: a channel is asked for twice.
ReadPageTwice ==
  /\ pc = "read"
  /\ out' = out \cup Found(at)
  /\ IF at > Pages THEN pc' = "store" /\ at' = 0 ELSE at' = at + 1 /\ UNCHANGED pc
  /\ UNCHANGED <<site, up, query, cut, stayed, stored, seen, changes, failures>>

ReadPage ==
  /\ pc = "read"
  /\ out' = out \cup Found(at)
  /\ IF at = Pages THEN pc' = "store" /\ at' = 0 ELSE at' = at + 1 /\ UNCHANGED pc
  /\ UNCHANGED <<site, up, query, cut, stayed, stored, seen, changes, failures>>

\* A body of more than 5 MiB: fetchURL reads its beginning and reports no error.  HTML
\* without its end is parsed like any other, JSON is not (FetchFails).
ReadPageCut ==
  /\ pc = "read" /\ src # "freelancehunt"
  /\ failures < MaxFailures /\ failures' = failures + 1
  /\ \E S \in SUBSET {a \in up : page[a] = at} : out' = out \cup Sources(S)
  /\ cut' = cut \cup {at}
  /\ IF at = Pages THEN pc' = "store" /\ at' = 0 ELSE at' = at + 1 /\ UNCHANGED pc
  /\ UNCHANGED <<site, up, query, stayed, stored, seen, changes>>

\* Variant: a channel that does not answer is left out.
PageFails ==
  /\ pc = "read"
  /\ failures < MaxFailures /\ failures' = failures + 1
  /\ IF at = Pages THEN pc' = "store" /\ at' = 0 ELSE at' = at + 1 /\ UNCHANGED pc
  /\ UNCHANGED <<site, up, query, out, cut, stayed, stored, seen, changes>>

\* No answer, a status other than 200, a body that cannot be parsed: the whole
\* fetch fails, whatever the pages before it gave.
FetchFails ==
  /\ pc = "read"
  /\ failures < MaxFailures /\ failures' = failures + 1
  /\ pc' = "idle" /\ at' = 0 /\ out' = {}
  /\ UNCHANGED <<site, up, query, cut, stayed, stored, seen, changes>>

\* Variant: a refused row ends the collection.
StoreListingOrStop(l) ==
  /\ pc = "store" /\ l \in out
  /\ out' = IF l.refused THEN {} ELSE out \ {l}
  /\ IF ~l.refused
       THEN stored' = [stored EXCEPT ![l.id] = l.ad] /\ seen' = seen \cup {l}
       ELSE UNCHANGED <<stored, seen>>
  /\ UNCHANGED <<site, up, query, pc, at, cut, stayed, changes, failures>>

\* The next listing: a refused row is logged and the loop goes on.
StoreListing(l) ==
  /\ pc = "store" /\ l \in out
  /\ out' = out \ {l}
  /\ IF ~l.refused
       THEN stored' = [stored EXCEPT ![l.id] = l.ad] /\ seen' = seen \cup {l}
       ELSE UNCHANGED <<stored, seen>>
  /\ UNCHANGED <<site, up, query, pc, at, cut, stayed, changes, failures>>

Finish ==
  /\ pc = "store" /\ out = {}
  /\ pc' = "idle" /\ cut' = {} /\ stayed' = {} /\ seen' = {}
  /\ UNCHANGED <<site, up, query, at, out, stored, changes, failures>>

-----------------------------------------------------------------------------
(* The site *)

Change == changes < MaxChanges /\ changes' = changes + 1

Publish(a) ==
  /\ Change /\ a \notin up
  /\ up' = up \cup {a}
  /\ UNCHANGED <<site, query, pc, at, out, cut, stayed, stored, seen, failures>>

Withdraw(a) ==
  /\ Change /\ a \in up
  /\ up' = up \ {a} /\ stayed' = stayed \ {a}
  /\ UNCHANGED <<site, query, pc, at, out, cut, stored, seen, failures>>

Track(a) ==
  /\ Change /\ card[a].link # "none"
  /\ \E q \in (Queries \cup {None}) \ {query[a]} : query' = [query EXCEPT ![a] = q]
  /\ UNCHANGED <<site, up, pc, at, out, cut, stayed, stored, seen, failures>>

Collect == Begin \/ ReadPage \/ ReadPageCut \/ FetchFails \/ (\E l \in out : StoreListing(l)) \/ Finish

Next == Collect \/ \E a \in Ads : Publish(a) \/ Withdraw(a) \/ Track(a)

\* Every source is polled again and again (EverySourcePolled of Collector).
Spec == Init /\ [][Next]_vars /\ WF_vars(Collect)

-----------------------------------------------------------------------------
(* Properties *)

\* Ranges of the variables.  What stayed is still up; a page is read in a fetch only.
TypeOK ==
  /\ src \in Names /\ card \in [Ads -> Cards] /\ page \in [Ads -> 1..Pages]
  /\ up \subseteq Ads /\ query \in [Ads -> Queries \cup {None}]
  /\ pc \in {"idle", "read", "store"} /\ at \in 0..Pages /\ (pc = "read" <=> at # 0)
  /\ out \cup seen \subseteq [ad : Ads, id : Ids, refused : BOOLEAN]
  /\ cut \subseteq 1..Pages /\ stayed \subseteq up
  /\ stored \in [Ids -> Ads \cup {None}]
  /\ changes \in 0..MaxChanges /\ failures \in 0..MaxFailures

\* An ad is clear if its card gives a listing that the database takes, whatever else the
\* page shows: on Weblancer only the first selector sees to that.
Clear(a) ==
  /\ \E l \in Sources({a}) : ~l.refused
  /\ src = "weblancer" => card[a].selector = "first"

\* A fetch that succeeds has every ad that stayed up, whichever page it is on and
\* whatever was read before it: what is missing may be archived (FetchTelegram).  Of
\* a page that was cut nothing is said.
WholeResult ==
  pc = "store" =>
    \A a \in stayed : Clear(a) /\ page[a] \notin cut => \E l \in out \cup seen : l.ad = a

\* "The same posting is not pulled twice": an ad has one row, whatever the site puts
\* behind its link.  Not so on DOU and Djinni, whose ids keep the query.
OneRow == \A i, j \in Ids : stored[i] # None /\ stored[i] = stored[j] => i = j

\* An ad that stays up, on pages that answer again at last, gets a row, also when
\* another ad of the same fetch is refused by the database (collectSource's continue).
Arrives == \A a \in Ads : Clear(a) => [](<>[](a \in up) => <>(\E i \in Ids : stored[i] = a))
=============================================================================
