-------------------------- MODULE MCShellPipeline --------------------------
(* The script's default of three iterations.                               *)
EXTENDS ShellPipeline
=============================================================================
