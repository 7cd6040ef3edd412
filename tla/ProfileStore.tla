----------------------------- MODULE ProfileStore -----------------------------
(***************************************************************************)
(* What the handlers of search profiles promise: a profile is written as a *)
(* whole, row, tags and sources from one request; edited in its row alone  *)
(* by the database grid; or removed with everything.  A write is known by  *)
(* its stamp.                                                              *)
(***************************************************************************)
EXTENDS Naturals

CONSTANTS Profiles, Existing

VARIABLES
  row,            \* the stamp of the last write of the row, 0 if there is none
  tags, sources   \* the stamps of the writes that the child rows are from

vars == <<row, tags, sources>>

Init ==
  /\ row = [i \in Profiles |-> IF i \in Existing THEN 1 ELSE 0]
  /\ tags = [i \in Profiles |-> IF i \in Existing THEN {1} ELSE {}]
  /\ sources = tags

\* The stamp of the write is the one the row has afterwards.
Written(i) == row'[i] # 0 /\ row' = [row EXCEPT ![i] = row'[i]]

Put(i) ==
  /\ Written(i)
  /\ tags' = [tags EXCEPT ![i] = {row'[i]}] /\ sources' = [sources EXCEPT ![i] = {row'[i]}]

\* A change of the row, or a new row without children.
Edit(i) == Written(i) /\ UNCHANGED <<tags, sources>>

Remove(i) ==
  /\ row' = [row EXCEPT ![i] = 0]
  /\ tags' = [tags EXCEPT ![i] = {}] /\ sources' = [sources EXCEPT ![i] = {}]

Next == \E i \in Profiles : Put(i) \/ Edit(i) \/ Remove(i)

Spec == Init /\ [][Next]_vars
=============================================================================
