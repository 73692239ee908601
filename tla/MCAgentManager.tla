--------------------------- MODULE MCAgentManager ---------------------------
(* The instance in which two handlers come to ask about one tick.          *)
EXTENDS AgentManager
=============================================================================
