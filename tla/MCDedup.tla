------------------------------- MODULE MCDedup -------------------------------
(***************************************************************************)
(* Dedup for TLC: at first every site has its ad, all with one text.  What *)
(* else there is at the start is a change of a site away.                  *)
(***************************************************************************)
EXTENDS Dedup

CONSTANT FirstText

ASSUME FirstTextAssumption == FirstText \in Texts

MCInit == Init /\ site = [a \in Ads |-> FirstText]
MCSpec == MCInit /\ [][Next]_vars /\ Fairness
=============================================================================
