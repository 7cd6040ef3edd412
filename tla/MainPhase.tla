---- MODULE MainPhase ----
(***************************************************************************)
(* What Startup and EventFeed both see of cmd/jmw/main.go: how far main    *)
(* has come, and how often something may still go wrong.                   *)
(***************************************************************************)
EXTENDS Naturals

CONSTANT MaxMishaps   \* bound: crashes, signals, failed calls, lost connections

VARIABLES
  phase,      \* no process, db.Connect, Migrate, ListenAndServe, Shutdown
  mishaps     \* what went wrong so far

Phases == {"off", "connect", "migrate", "serving", "closing"}

\* One more thing goes wrong.
Mishap ==
  /\ mishaps < MaxMishaps
  /\ mishaps' = mishaps + 1

ASSUME MishapAssumption == MaxMishaps \in Nat
====
