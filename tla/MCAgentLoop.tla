----------------------------- MODULE MCAgentLoop -----------------------------
(* A small instance of AgentLoop for TLC.                                   *)
EXTENDS AgentLoop

CONSTANTS c1, c2, r1

TwoAnswers == {c1, c2}
OneRebuttal == {r1}
OneWidth  == {3}
AllOn == [structured |-> TRUE, critic |-> TRUE, figures |-> TRUE, escalation |-> TRUE]
Deployments == {AllOn, [AllOn EXCEPT !.structured = FALSE]}
=============================================================================
