---------------------------- MODULE MCAgentTurn ----------------------------
\* Instances of AgentTurn for TLC.
EXTENDS AgentTurn
=============================================================================
