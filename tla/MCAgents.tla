------------------------------ MODULE MCAgents ------------------------------
EXTENDS Agents
CONSTANTS a, b, out
MCFiles == {a, b}
MCSkipped == {b}
=============================================================================
