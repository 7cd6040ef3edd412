------------------------------ MODULE MCRequests ------------------------------
(***************************************************************************)
(* Requests for TLC: three requests, named in the order of what they ask   *)
(* for.  Requests are interchangeable, and any others can be renamed so.   *)
(***************************************************************************)
EXTENDS Requests

CONSTANTS r1, r2, r3

ASSUME ThreeAssumption == Requests = {r1, r2, r3}

Place == [list |-> 1, get |-> 2, create |-> 3, patch |-> 4,
          delete |-> 5, rows |-> 6, insert |-> 7, edit |-> 8]

Sorted(r, q) == kind[r] # None /\ kind[q] # None => Place[kind[r]] <= Place[kind[q]]

MCNext == Next /\ (Sorted(r1, r2) /\ Sorted(r1, r3) /\ Sorted(r2, r3))'

MCSpec == Init /\ [][MCNext]_vars /\ Fairness
=============================================================================
