---------------------------- MODULE RunProtocol ----------------------------
(***************************************************************************)
(* What a benchmark run promises to whoever watches its directory, and     *)
(* nothing about how it keeps the promise: a status that settles, a marker *)
(* that follows it, one record that is never rewritten, and all of them in *)
(* place when the run returns.  When a record comes, before the marker or  *)
(* after it, of a run that succeeded, failed or was interrupted, is left   *)
(* open.  Orchestrator.tla is shown to implement it.                       *)
(***************************************************************************)

VARIABLES
    announced,  \* contents of .status
    marked,     \* .done exists
    recorded,   \* the manifest's verdict
    outcome     \* how the run ended, or "none"

vars == <<announced, marked, recorded, outcome>>

Init ==
    /\ announced = "none" /\ marked = FALSE
    /\ recorded = "none" /\ outcome = "none"

Start ==
    /\ announced = "none" /\ announced' = "running"
    /\ UNCHANGED <<marked, recorded, outcome>>

Succeed ==
    /\ announced = "running" /\ ~marked /\ announced' = "done"
    /\ UNCHANGED <<marked, recorded, outcome>>

\* Ctrl-C turns even a success into an error, and nothing turns it back.
Fail ==
    /\ announced' = "error"
    /\ UNCHANGED <<marked, recorded, outcome>>

Mark ==
    /\ announced \in {"done", "error"} /\ marked' = TRUE
    /\ UNCHANGED <<announced, recorded, outcome>>

\* Any run may be recorded, once; only one that announced no error as a PASS.
Record ==
    /\ announced # "none" /\ recorded = "none"
    /\ recorded' \in {"PASS", "FAIL"}
    /\ recorded' = "PASS" => announced # "error"
    /\ UNCHANGED <<announced, marked, outcome>>

\* Whoever is returned to finds a success that is announced, marked, recorded.
Return ==
    /\ announced = "done" /\ marked /\ recorded # "none"
    /\ outcome' = "returned"
    /\ UNCHANGED <<announced, marked, recorded>>

\* A run may raise, be interrupted or be killed at any point.
Abort ==
    /\ outcome' \in {"exception", "interrupt", "killed"}
    /\ UNCHANGED <<announced, marked, recorded>>

Next ==
    /\ outcome = "none"
    /\ Start \/ Succeed \/ Fail \/ Mark \/ Record \/ Return \/ Abort

Spec == Init /\ [][Next]_vars
=============================================================================
