------------------------------ MODULE Broadcast ------------------------------
(***************************************************************************)
(* What the hub promises: there is one log of broadcasts, and a            *)
(* subscription receives it from the place where it joined, entry after    *)
(* entry, for as long as it receives anything.                             *)
(***************************************************************************)
EXTENDS Naturals, Sequences

CONSTANTS Subscriptions, Entries

VARIABLES
  log,
  from,       \* the length of the log when the subscription joined
  got         \* what it has received

Init ==
  /\ log = <<>>
  /\ from = [c \in Subscriptions |-> 0]
  /\ got = [c \in Subscriptions |-> <<>>]

Publish == (\E e \in Entries : log' = Append(log, e)) /\ UNCHANGED <<from, got>>

Join(c) ==
  /\ got[c] = <<>>
  /\ from' = [from EXCEPT ![c] = Len(log)]
  /\ UNCHANGED <<log, got>>

Receive(c) ==
  /\ from[c] + Len(got[c]) < Len(log)
  /\ got' = [got EXCEPT ![c] = Append(@, log[from[c] + Len(@) + 1])]
  /\ UNCHANGED <<log, from>>

Next == Publish \/ \E c \in Subscriptions : Join(c) \/ Receive(c)

Spec == Init /\ [][Next]_<<log, from, got>>
=============================================================================
