------------------------------ MODULE MCFetchers ------------------------------
(***************************************************************************)
(* Fetchers for TLC: one ad has any card; the others' give a listing.  The *)
(* selectors make a difference on Weblancer only, the length of a title on *)
(* Telegram, hryvnias there and on Freelancehunt.                          *)
(***************************************************************************)
EXTENDS Fetchers

CONSTANT AnyAd

ASSUME AnyAdAssumption == AnyAd \in Ads

MCInit ==
  /\ Init
  /\ \A a \in Ads \ {AnyAd} : card[a].title = "whole" /\ card[a].budget = "fits" /\ card[a].link # "none"
  /\ \A a \in Ads : /\ card[a].selector = "later" => src = "weblancer"
                    /\ card[a].title = "torn" => src = "telegram"
                    /\ card[a].budget = "huge hryvnias" => src \in {"telegram", "freelancehunt"}

MCSpec == MCInit /\ [][Next]_vars /\ WF_vars(Collect)
=============================================================================
