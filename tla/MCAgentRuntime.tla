--------------------------- MODULE MCAgentRuntime ---------------------------
(***************************************************************************)
(* Instances of AgentRuntime for TLC: event 2 is another event about the   *)
(* task of event 1, event 3 lacks an id.                                   *)
(***************************************************************************)
EXTENDS AgentRuntime

CONSTANTS t1, t2

Events  == {1, 2, 3}
Tasks   == {t1, t2}
TaskMap == [e \in Events |-> IF e = 3 THEN t2 ELSE t1]
=============================================================================
