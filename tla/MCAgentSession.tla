--------------------------- MODULE MCAgentSession ---------------------------
(* A small instance of AgentSession: two connections, a buffer of two samples, *)
(* chunks of two points or two bytes.                                      *)
EXTENDS AgentSession
=============================================================================
