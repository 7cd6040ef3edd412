------------------------------- MODULE MCReports -------------------------------
(* Reports for TLC: a behaviour has the steps of one part or of the other, whose *)
(* product would say nothing about either.                                       *)
EXTENDS Reports

VARIABLE part

MCInit == Init /\ part \in {"files", "summary"}

MCNext ==
  /\ part' = part
  /\ \/ part = "files" /\ FilesNext
     \/ part = "summary" /\ SummaryNext

MCSpec == MCInit /\ [][MCNext]_<<vars, part>>
=============================================================================
