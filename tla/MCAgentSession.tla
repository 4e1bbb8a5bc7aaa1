--------------------------- MODULE MCAgentSession ---------------------------
(* TLC instance of AgentSession: one agent, and a second node that may be  *)
(* named as the target of focus.                                           *)
EXTENDS AgentSession

CONSTANTS left

=============================================================================
