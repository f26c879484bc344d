---------------------------- MODULE MCAgentStream ----------------------------
(* Every request is for the same session. *)
EXTENDS AgentStream

MCSessionOf == [r \in Requests |-> CHOOSE s \in Sessions : TRUE]
=============================================================================
