---------------------------- MODULE MCEvaluator ----------------------------
(* One grade for TLC: a criterion on either side of the refusal limit of 7 *)
(* and a name off the rubric, one score in every band the code tells apart *)
(* (below 5, below 7, below 9, above), and sheets of up to two entries, so *)
(* that criteria are missed, repeated and mixed with others.               *)
EXTENDS Evaluator

MCCriteria  == <<"functionality", "quality">>
MCOffRubric == {"style"}
MCThreshold == [n \in {"functionality", "quality"} |->
                  IF n = "functionality" THEN 60 ELSE 80]
MCScores    == {40, 65, 75, 95}

MCEntries == [criterion : {"functionality", "quality", "style"},
              score : MCScores]
MCSheets  == UNION {[1..n -> MCEntries] : n \in 0..2}

\* All pass; one in twenty fails; one in two fails; nothing could be
\* collected; nothing could be read of the run.
MCOutcomes ==
    {[passed |-> 20, failed |-> 0, errors |-> 0, execution_ok |-> TRUE],
     [passed |-> 19, failed |-> 1, errors |-> 0, execution_ok |-> TRUE],
     [passed |-> 1,  failed |-> 1, errors |-> 0, execution_ok |-> TRUE],
     [passed |-> 0,  failed |-> 0, errors |-> 1, execution_ok |-> TRUE],
     [passed |-> 0,  failed |-> 0, errors |-> 0, execution_ok |-> FALSE]}
=============================================================================
