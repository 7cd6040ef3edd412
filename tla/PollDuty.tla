------------------------------ MODULE PollDuty ------------------------------
(***************************************************************************)
(* What the scheduling of the scraper owes the sites it reads, whatever    *)
(* goroutines, failures and restarts it is made of: one poll at a time in  *)
(* the whole process, none within a period of the source's last recorded   *)
(* answer, and none within the back-off after a recorded failure.          *)
(* Collector implements this specification.                                *)
(***************************************************************************)
EXTENDS Integers

CONSTANTS Sources, None,
  Gap(_)        \* fewest periods between a recorded outcome and the next poll

VARIABLES
  active,       \* the source being polled, or None
  last,         \* what the health columns of each source record
  age           \* and for how many periods they have

vars == <<active, last, age>>

Init ==
  /\ active = None
  /\ last = [s \in Sources |-> "never"]
  /\ age = [s \in Sources |-> 0]

Rested(s) == last[s] = "never" \/ age[s] >= Gap(last[s])

Begin(s) ==
  /\ active = None
  /\ Rested(s)
  /\ active' = s
  /\ UNCHANGED <<last, age>>

\* The poll ends and its outcome is recorded ...
Record(kind) ==
  /\ active # None
  /\ last' = [last EXCEPT ![active] = kind]
  /\ age' = [age EXCEPT ![active] = 0]
  /\ active' = None

\* ... or is lost.
Drop ==
  /\ active # None
  /\ active' = None
  /\ UNCHANGED <<last, age>>

\* Ages never shrink while time passes.
Pass ==
  /\ age' \in [Sources -> Nat]
  /\ \A s \in Sources : age'[s] \in {age[s], age[s] + 1}
  /\ UNCHANGED <<active, last>>

\* The source is deleted.
Forget(s) ==
  /\ last' = [last EXCEPT ![s] = "never"]
  /\ age' = [age EXCEPT ![s] = 0]
  /\ UNCHANGED active

Next ==
  \/ \E s \in Sources : Begin(s) \/ Forget(s)
  \/ \E kind \in {"success", "failure"} : Record(kind)
  \/ Drop
  \/ Pass

Spec == Init /\ [][Next]_vars
=============================================================================
