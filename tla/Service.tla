------------------------------- MODULE Service -------------------------------
(***************************************************************************)
(* The process and what it serves: the event feed runs while main is past  *)
(* its migrations and ends with it; the tables and the pages outlive it.   *)
(***************************************************************************)
EXTENDS Startup, EventFeed

vars == <<bootVars, feedVars>>

Init == BootInit /\ FeedInit /\ mishaps = 0

Main == BootNext /\ MainStep
Feed == FeedStep /\ UNCHANGED bootVars

Next == Main \/ Feed

Spec == Init /\ [][Next]_vars /\ BootFairness /\ FeedFairness

\* Ranges of the variables, of one step of Migrate and of one holder of the hub's lock.
TypeOK == BootTypeOK /\ FeedTypeOK
=============================================================================
