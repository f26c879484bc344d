----------------------------- MODULE MCChatStream -----------------------------
(* Every request is for the same session. *)
EXTENDS ChatStream

MCSessionOf == [r \in Requests |-> CHOOSE s \in Sessions : TRUE]
=============================================================================
