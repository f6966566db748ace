--------------------------- MODULE MCAgentTransport ---------------------------
(* Two records of two sessions, two attempts for a post.                   *)
EXTENDS AgentTransport
=============================================================================
