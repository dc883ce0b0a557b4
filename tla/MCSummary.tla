------------------------------ MODULE MCSummary ------------------------------
(* A small instance of SessionSummary.  Ids 1 to 3 may be entries; 9 is    *)
(* invented by the model, 2 is cited twice, and any may be left out.       *)
EXTENDS SessionSummary

MCEntries == 1 .. 3
MCAnswers == {<<{2, 9}>>, <<{1, 2}, {2, 3, 9}>>}
=============================================================================
