--------------------------- MODULE MCAgentRestart ---------------------------
EXTENDS AgentRestart, TLC
=============================================================================
