-------------------------------- MODULE Dedup --------------------------------
(***************************************************************************)
(* The same gig from several sources: what collectSource does with one     *)
(* listing after another (FindDuplicateByFingerprint, UpsertListing,       *)
(* UpdateOrderRadar, the event 'new'), and the inbox that FreshOrders      *)
(* gives the user.                                                         *)
(*                                                                         *)
(* Collections exclude each other (OneCollector of Collector), so there is *)
(* one listing under way.  A row is known by its ad; which rows are newer  *)
(* than which is all that is kept of first_seen_at, besides which of them  *)
(* are older than 14 days.  Orders that were won, which the archive spares *)
(* (SourceOrders), and edits in the database grid are not modelled.        *)
(***************************************************************************)
EXTENDS Naturals

CONSTANTS
  Ads,          \* (source, external_id) of listings
  Texts,        \* their content, as listingFingerprint tells it apart
  None,
  Gone,         \* an id whose row was deleted after it was read
  MaxChanges,   \* bound: changes of the sites, acts of the user, rows ageing
  MaxMishaps    \* bound: failed calls and crashes

ASSUME DedupAssumption ==
  /\ {None, Gone} \cap (Ads \cup Texts) = {}
  /\ None # Gone
  /\ MaxChanges \in Nat /\ MaxMishaps \in Nat

VARIABLES
  site,         \* what each ad says at the moment, None if it is not there
  present,      \* ads with a row in orders
  old,          \* those whose first_seen_at is more than 14 days ago
  newer,        \* for each row the rows with a later first_seen_at
  text,         \* content_fingerprint
  dup,          \* duplicate_of_id
  handled,      \* is_seen_by_user or is_dismissed
  pc, cur,      \* the collector: the listing in hand,
  listing,      \* its content,
  found,        \* the duplicate found for it,
  inserted,     \* whether its row is new
  changes, mishaps

order == <<present, old, newer, text, dup, handled>>
run   == <<pc, cur, listing, found, inserted>>
vars == <<site, order, run, changes, mishaps>>

Mishap == mishaps < MaxMishaps /\ mishaps' = mishaps + 1
Change == changes < MaxChanges /\ changes' = changes + 1

Init ==
  /\ site \in [Ads -> Texts \cup {None}]
  /\ present = {} /\ old = {} /\ handled = {}
  /\ newer = [a \in Ads |-> {}]
  /\ text = [a \in Ads |-> None]
  /\ dup = [a \in Ads |-> None]
  /\ pc = "idle" /\ cur = None /\ listing = None /\ found = None /\ inserted = FALSE
  /\ changes = 0 /\ mishaps = 0

-----------------------------------------------------------------------------
(* The collector, one listing at a time *)

Known(t) == {b \in present \ old : text[b] = t}
Newest(S) == {b \in S : newer[b] \cap S = {}}

\* On to the next listing.
Continue ==
  /\ pc' = "idle"
  /\ cur' = None /\ listing' = None /\ found' = None /\ inserted' = FALSE

\* ORDER BY first_seen_at DESC LIMIT 1: the row of the listing itself is not left
\* out.  A failed query counts as nothing found.
FindDuplicateByFingerprint(a) ==
  /\ pc = "idle"
  /\ site[a] # None
  /\ pc' = "upsert" /\ cur' = a /\ listing' = site[a]
  /\ \/ /\ IF Known(site[a]) = {} THEN found' = None ELSE found' \in Newest(Known(site[a]))
        /\ UNCHANGED mishaps
     \/ Mishap /\ found' = None
  /\ UNCHANGED <<site, order, inserted, changes>>

InsertRow(a) ==
  /\ present' = present \cup {a}
  /\ newer' = [b \in Ads |-> IF b \in present THEN newer[b] \cup {a} ELSE {}]
  /\ UNCHANGED <<old, text, dup, handled>>

\* The listing is left alone when its upsert fails, which may have its effect all
\* the same.
UpsertListing ==
  /\ pc = "upsert"
  /\ \/ /\ pc' = "radar"
        /\ inserted' = (cur \notin present)
        /\ UNCHANGED <<cur, listing, found, mishaps>>
     \/ Mishap /\ Continue
  /\ \/ IF cur \notin present THEN InsertRow(cur) ELSE UNCHANGED order
     \/ pc' = "idle" /\ UNCHANGED order
  /\ UNCHANGED <<site, changes>>

\* CASE WHEN $7 = id THEN NULL ELSE $7 END.  Variants: no CASE; a duplicate once
\* found is kept.
MarkedAsFound == found
MarkedOnceFound == IF found \in {None, cur} THEN dup[cur] ELSE found
MarkedRow == IF found = cur THEN None ELSE found

\* No row, or a duplicate that the foreign key refuses, changes nothing.
SetRadar ==
  IF cur \in present /\ found # Gone
    THEN /\ text' = [text EXCEPT ![cur] = listing]
         /\ dup' = [dup EXCEPT ![cur] = MarkedRow]
    ELSE UNCHANGED <<text, dup>>

\* "Only a unique new gig becomes a visible live event".  Variant: every insert.
AnnouncesInserted == inserted
Announces == inserted /\ found \in {None, cur}

UpdateOrderRadar ==
  /\ pc = "radar"
  /\ \/ SetRadar /\ UNCHANGED mishaps
     \/ Mishap /\ (SetRadar \/ UNCHANGED <<text, dup>>)
  /\ IF Announces
       THEN pc' = "emit" /\ UNCHANGED <<cur, listing, found, inserted>>
       ELSE Continue
  /\ UNCHANGED <<site, present, old, newer, handled, changes>>

\* The event and its broadcast.
Emit ==
  /\ pc = "emit"
  /\ Continue
  /\ UNCHANGED <<site, order, changes, mishaps>>

-----------------------------------------------------------------------------
(* Rows that go: ON DELETE SET NULL for whoever is a duplicate of them *)

RemoveRow(a) ==
  /\ a \in present
  /\ present' = present \ {a}
  /\ old' = old \ {a}
  /\ handled' = handled \ {a}
  /\ newer' = [b \in Ads |-> IF b = a THEN {} ELSE newer[b] \ {a}]
  /\ text' = [text EXCEPT ![a] = None]
  /\ dup' = [b \in Ads |-> IF b = a \/ dup[b] = a THEN None ELSE dup[b]]

\* archiveStale, after the listings of the source: the ad is gone, or it is listed but its
\* upserts failed until the row was stale.
Archive(a) ==
  /\ pc = "idle"
  /\ \/ site[a] = None /\ UNCHANGED mishaps
     \/ site[a] # None /\ Mishap
  /\ RemoveRow(a)
  /\ UNCHANGED <<site, run, changes>>

\* The user's DELETE comes at any time.
DeleteOrder(a) ==
  /\ Change
  /\ RemoveRow(a)
  /\ found' = IF found = a THEN Gone ELSE found
  /\ UNCHANGED <<site, pc, cur, listing, inserted, mishaps>>

\* MarkOrderSeen, DismissOrder.
Handle(a) ==
  /\ Change
  /\ a \in present \ handled
  /\ handled' = handled \cup {a}
  /\ UNCHANGED <<site, present, old, newer, text, dup, run, mishaps>>

-----------------------------------------------------------------------------
(* The world *)

SiteChanges(a) ==
  /\ Change
  /\ \E s \in Texts \cup {None} : s # site[a] /\ site' = [site EXCEPT ![a] = s]
  /\ UNCHANGED <<order, run, mishaps>>

\* The oldest of the younger rows is 14 days old.
Age ==
  /\ Change
  /\ \E a \in present \ old :
       /\ \A b \in present \ old : a \notin newer[b]
       /\ old' = old \cup {a}
  /\ UNCHANGED <<site, present, newer, text, dup, handled, run, mishaps>>

Crash ==
  /\ Mishap
  /\ pc # "idle"
  /\ Continue
  /\ UNCHANGED <<site, order, changes>>

\* What the collector does about one ad, from the first step to the last.
Begin(a) == FindDuplicateByFingerprint(a) \/ Archive(a)
GoOn == UpsertListing \/ UpdateOrderRadar \/ Emit

Next ==
  \/ \E a \in Ads : Begin(a) \/ DeleteOrder(a) \/ Handle(a) \/ SiteChanges(a)
  \/ GoOn
  \/ Age \/ Crash

Spec == Init /\ [][Next]_vars

\* Every source is polled again and again (EverySourcePolled of Collector), and each
\* collection takes all listings of its source and archives what is gone from it.
Fairness == WF_vars(GoOn) /\ \A a \in Ads : SF_vars(Begin(a))

FairSpec == Spec /\ Fairness

-----------------------------------------------------------------------------
(* Properties *)

\* Ranges of the variables; no row is a duplicate of itself or of a row that is
\* not there, and first_seen_at orders the rows.
TypeOK ==
  /\ site \in [Ads -> Texts \cup {None}]
  /\ present \subseteq Ads /\ old \subseteq present /\ handled \subseteq present
  /\ newer \in [Ads -> SUBSET present]
  /\ \A a, b \in present : a # b => (a \in newer[b] <=> b \notin newer[a])
  /\ \A a \in Ads : a \notin newer[a]
  /\ text \in [Ads -> Texts \cup {None}]
  /\ dup \in [Ads -> present \cup {None}]
  /\ \A a \in Ads : dup[a] # a
  /\ pc \in {"idle", "upsert", "radar", "emit"}
  /\ cur \in Ads \cup {None}
  /\ listing \in Texts \cup {None}
  /\ found \in Ads \cup {None, Gone}
  /\ inserted \in BOOLEAN
  /\ changes \in 0..MaxChanges
  /\ mishaps \in 0..MaxMishaps

\* While the database answers, a gig that is announced as new has no counterpart of
\* the last 14 days in the table.
AnnouncedUnique ==
  mishaps = 0 /\ pc = "emit" => \A b \in Known(listing) : b = cur

\* A row is marked as a duplicate only of another row that is there at that moment
\* and says the same, although the search was two statements earlier and the user
\* may have deleted rows since, the one it found among them (collectSource).
MarkedAlike ==
  [][\A a \in Ads : dup'[a] \notin {dup[a], None} =>
       dup'[a] \in present \ {a} /\ text[dup'[a]] = text'[a]]_vars

\* A row FreshOrders returns.
Shown(a) == a \in present \ handled /\ dup[a] = None

\* Once sites, user and clock leave them alone, the rows with one text agree on the
\* newest of them: it alone is no duplicate.  Until then two rows may be duplicates
\* of each other, or none of any.
Converges ==
  <>[](\A t \in Texts :
         Known(t) # {} => {a \in present : text[a] = t /\ dup[a] = None} = Newest(Known(t)))
=============================================================================
