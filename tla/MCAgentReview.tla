--------------------------- MODULE MCAgentReview ---------------------------
(* A small instance of AgentReview for TLC. *)
EXTENDS AgentReview
=============================================================================
