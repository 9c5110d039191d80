-------------------------- MODULE MCSuiteExecution --------------------------
(* Three grades: a report can be stale by one and by two of them, and the  *)
(* generator may or may not have worked in between.                        *)
EXTENDS SuiteExecution
=============================================================================
