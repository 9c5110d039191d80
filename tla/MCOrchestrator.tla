--------------------------- MODULE MCOrchestrator ---------------------------
(* One run of either mode with two evaluators, for TLC.                    *)
EXTENDS Orchestrator
=============================================================================
