------------------------------- MODULE OrderBook -------------------------------
(***************************************************************************)
(* What the table orders, its archive and the broadcasts of removals       *)
(* promise together: an order gets a number of its own; it leaves the      *)
(* table because the user deletes it, or after it was archived and then    *)
(* announced as removed, in that order; and only orders that are there, or *)
(* that the user has just deleted, are archived.  SourceOrders implements  *)
(* this specification.                                                     *)
(***************************************************************************)
EXTENDS Naturals

VARIABLES
  rows,         \* orders in the table
  last,         \* the last number given
  kept,         \* orders in the archive
  told,         \* orders announced as removed
  discarded,    \* orders the user deleted
  lost          \* the archive was cut short, what it had is gone

vars == <<rows, last, kept, told, discarded, lost>>

Init ==
  /\ rows = {} /\ last = 0
  /\ kept = {} /\ told = {} /\ discarded = {}
  /\ lost = FALSE

Insert ==
  /\ last' = last + 1
  /\ rows' = rows \cup {last'}
  /\ UNCHANGED <<kept, told, discarded, lost>>

Keep(i) ==
  /\ i \in rows \cup discarded
  /\ kept' = kept \cup {i}
  /\ UNCHANGED <<rows, last, told, discarded, lost>>

Announce(i) ==
  /\ i \in kept
  /\ told' = told \cup {i}
  /\ UNCHANGED <<rows, last, kept, discarded, lost>>

Remove(i) ==
  /\ i \in rows \cap kept \cap told
  /\ rows' = rows \ {i}
  /\ UNCHANGED <<last, kept, told, discarded, lost>>

Discard(i) ==
  /\ i \in rows
  /\ rows' = rows \ {i}
  /\ discarded' = discarded \cup {i}
  /\ UNCHANGED <<last, kept, told, lost>>

Lose ==
  /\ kept' = {} /\ lost' = TRUE
  /\ UNCHANGED <<rows, last, told, discarded>>

Next ==
  \/ Insert \/ Lose
  \/ \E i \in 1..last : Keep(i) \/ Announce(i) \/ Remove(i) \/ Discard(i)

Spec == Init /\ [][Next]_vars
=============================================================================
