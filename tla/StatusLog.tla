------------------------------ MODULE StatusLog ------------------------------
(***************************************************************************)
(* What order_status_history promises to whoever reads it: one order has   *)
(* one status at a time, every change of it is one entry that starts where *)
(* the entry before it ended, and nothing else writes the log.  It goes    *)
(* with its order.  OrderStatus implements this specification.             *)
(***************************************************************************)
EXTENDS Sequences

CONSTANTS Keys, None

VARIABLES
  present,      \* the order exists
  current,      \* its status, None before the first change
  log           \* its changes, oldest first

vars == <<present, current, log>>

Init ==
  /\ present = TRUE
  /\ current \in Keys \cup {None}
  /\ log = <<>>

Change(key) ==
  /\ present
  /\ key # current
  /\ current' = key
  /\ log' = Append(log, [from |-> current, to |-> key])
  /\ UNCHANGED present

Remove ==
  /\ present
  /\ present' = FALSE
  /\ current' = None
  /\ log' = <<>>

Next == Remove \/ \E key \in Keys : Change(key)

Spec == Init /\ [][Next]_vars
=============================================================================
