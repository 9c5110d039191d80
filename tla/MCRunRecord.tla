---------------------------- MODULE MCRunRecord ----------------------------
(* Two criteria on either side of one another's scores, a name off the      *)
(* rubric; score sheets that miss, lift, repeat or omit a criterion, with   *)
(* and without a veto or a re-prompt; bug lists with and without a place.   *)
EXTENDS RunRecord

MCCriteria  == {"functionality", "quality"}
\* On either side of the report's 70.
MCThreshold == [c \in MCCriteria |-> IF c = "quality" THEN 80 ELSE 60]

\* Neighbours are exactly a point apart, less (with a mean of half a tenth), and
\* more.
MCScores == {46, 56, 65, 76}
MCSheets ==
    {<<>>, <<Entry("style", 20)>>}
      \cup {<<Entry("functionality", s)>> : s \in MCScores}
      \cup {<<Entry("functionality", s), Entry("quality", q)>> :
               s \in MCScores, q \in {76, 86}}
      \cup {<<Entry("quality", 65), Entry("functionality", 65)>>,
            <<Entry("functionality", 46), Entry("functionality", 65)>>,
            <<Entry("functionality", 65), Entry("functionality", 46)>>}

Verdict(sheet) ==
    IF \E e \in Entries(sheet) : Misses(e) THEN "FAIL" ELSE "PASS"

Graded(sheet, bugs, veto) ==
    [scores |-> sheet, bugs |-> bugs, veto |-> veto, reprompted |-> FALSE,
     verdict |-> IF veto THEN "FAIL" ELSE Verdict(sheet)]

Bug(place, text) == [place |-> place, text |-> text]

MCBugs == {<<Bug("a:1", 1)>>, <<Bug("a:1", 2), Bug("a:2", 1)>>,
           <<Bug("", 1), Bug("", 2)>>, <<Bug("", 2), Bug("a:2", 2)>>}

MCResults ==
    {Graded(sheet, <<>>, FALSE) : sheet \in MCSheets}
      \cup {Graded(<<Entry("functionality", 76)>>, <<>>, TRUE)}
      \cup {Graded(<<>>, bugs, FALSE) : bugs \in MCBugs}
      \cup {[Graded(<<Entry("functionality", 46)>>, <<>>, FALSE)
                EXCEPT !.verdict = "PASS", !.reprompted = TRUE]}
=============================================================================
