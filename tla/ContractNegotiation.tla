------------------------ MODULE ContractNegotiation ------------------------
(***************************************************************************)
(* ContractNegotiator.negotiate (agents/contract.py): the generator        *)
(* proposes, the evaluator reviews, the generator revises, for at most     *)
(* max_rounds rounds; every proposal and review is saved, and the last of  *)
(* both is returned whether or not it was approved.                        *)
(*                                                                         *)
(* The agents are seen from outside: an answer parses, with any contents,  *)
(* or it does not, and then negotiate raises.                              *)
(***************************************************************************)
EXTENDS Naturals

CONSTANTS
    MaxRounds,   \* max_rounds
    Criterion    \* acceptance criteria the agents may name

ASSUME MaxRoundsAssumption == MaxRounds \in Nat \ {0}

VARIABLES
    pc,          \* the statement about to run
    round,       \* round_num
    proposal,    \* the last ContractProposal
    agreement,   \* the last ContractAgreement
    completed,   \* rounds_completed
    proposals,   \* contracts/sprint-N-proposal.md: N -> what it holds
    agreements   \* contracts/sprint-N-agreement.md

files == <<proposals, agreements>>
vars  == <<pc, round, proposal, agreement, completed, files>>

-----------------------------------------------------------------------------
(* Data *)

\* answers is the round of the feedback it was asked to answer, 0 for none.
ContractProposal ==
    [round : 1..MaxRounds, answers : 0..MaxRounds, criteria : SUBSET Criterion]

\* reviews is the round of the proposal that was reviewed.
ContractAgreement ==
    [reviews : 1..MaxRounds, approved : BOOLEAN, added : SUBSET Criterion]

NoProposal  == [round |-> 0, answers |-> 0, criteria |-> {}]
NoAgreement == [reviews |-> 0, approved |-> FALSE, added |-> {}]

-----------------------------------------------------------------------------

Init ==
    /\ pc = "propose" /\ round = 1
    /\ proposal = NoProposal /\ agreement = NoAgreement
    /\ completed = 0
    /\ proposals = [n \in 1..MaxRounds |-> NoProposal]
    /\ agreements = [n \in 1..MaxRounds |-> NoAgreement]

Propose(criteria) ==
    /\ pc \in {"propose", "revise"}
    /\ proposal' = [round |-> round, criteria |-> criteria,
                    answers |-> IF pc = "revise" THEN agreement.reviews ELSE 0]
    /\ pc' = "saveProposal"
    /\ UNCHANGED <<round, agreement, completed, files>>

\* Definitions named X_HowItBreaks are X with a plausible bug, for the mutants.
SaveProposal_FirstRoundOnly ==
    /\ pc = "saveProposal"
    /\ proposals' = [proposals EXCEPT ![1] = proposal]
    /\ pc' = "review"
    /\ UNCHANGED <<round, proposal, agreement, completed, agreements>>

SaveProposal ==
    /\ pc = "saveProposal"
    /\ proposals' = [proposals EXCEPT ![round] = proposal]
    /\ pc' = "review"
    /\ UNCHANGED <<round, proposal, agreement, completed, agreements>>

ReviewProposal(approved, added) ==
    /\ pc = "review"
    /\ agreement' = [reviews |-> proposal.round, approved |-> approved,
                     added |-> added]
    /\ pc' = "saveAgreement"
    /\ UNCHANGED <<round, proposal, completed, files>>

SaveAgreement ==
    /\ pc = "saveAgreement"
    /\ agreements' = [agreements EXCEPT ![round] = agreement]
    /\ pc' = "completeRound"
    /\ UNCHANGED <<round, proposal, agreement, completed, proposals>>

CompleteRound_RevisesAtTheEnd ==
    /\ pc = "completeRound"
    /\ completed' = round
    /\ IF agreement.approved
       THEN pc' = "returned" /\ UNCHANGED <<round, proposal>>
       ELSE IF round = MaxRounds
       THEN /\ pc' = "returned"
            /\ proposal' = [proposal EXCEPT !.answers = round]
            /\ UNCHANGED round
       ELSE pc' = "revise" /\ round' = round + 1 /\ UNCHANGED proposal
    /\ UNCHANGED <<agreement, files>>

CompleteRound_CountsPastTheEnd ==
    /\ pc = "completeRound"
    /\ completed' = round
    /\ round' = IF agreement.approved THEN round ELSE round + 1
    /\ pc' = IF agreement.approved \/ round = MaxRounds THEN "returned" ELSE "revise"
    /\ UNCHANGED <<proposal, agreement, files>>

CompleteRound_NeverGivesUp ==
    /\ pc = "completeRound"
    /\ completed' = round
    /\ round' = IF agreement.approved \/ round = MaxRounds THEN round ELSE round + 1
    /\ pc' = IF agreement.approved THEN "returned" ELSE "revise"
    /\ UNCHANGED <<proposal, agreement, files>>

CompleteRound ==
    /\ pc = "completeRound"
    /\ completed' = round
    /\ IF agreement.approved \/ round = MaxRounds
       THEN pc' = "returned" /\ UNCHANGED round
       ELSE pc' = "revise" /\ round' = round + 1
    /\ UNCHANGED <<proposal, agreement, files>>

\* An answer that holds no JSON object of the shape asked for.
ParseFails ==
    /\ pc \in {"propose", "revise", "review"}
    /\ pc' = "raised"
    /\ UNCHANGED <<round, proposal, agreement, completed, files>>

Over == pc \in {"returned", "raised"} /\ UNCHANGED vars

Step ==
    \/ \E c \in SUBSET Criterion : Propose(c)
    \/ SaveProposal
    \/ \E approved \in BOOLEAN, added \in SUBSET Criterion :
           ReviewProposal(approved, added)
    \/ SaveAgreement \/ CompleteRound \/ ParseFails

Next == Step \/ Over

Spec == Init /\ [][Next]_vars

\* Each agent call is bounded by the executor's timeout of 600 s.
FairSpec == Spec /\ WF_vars(Step)

-----------------------------------------------------------------------------
(* Properties *)

\* Type correctness.
TypeOK ==
    /\ pc \in {"propose", "saveProposal", "review", "saveAgreement",
               "completeRound", "revise", "returned", "raised"}
    /\ round \in 1..MaxRounds
    /\ proposal \in ContractProposal \cup {NoProposal}
    /\ agreement \in ContractAgreement \cup {NoAgreement}
    /\ completed \in 0..MaxRounds
    /\ proposals \in [1..MaxRounds -> ContractProposal \cup {NoProposal}]
    /\ agreements \in [1..MaxRounds -> ContractAgreement \cup {NoAgreement}]

\* The agreement returned is a review of the proposal returned, and both are
\* what the last files of contracts/ hold: no revision goes unreviewed, and a
\* rejection is overridden only when the rounds are spent.
ReturnedIsReviewed ==
    pc = "returned" =>
        /\ agreement.approved \/ completed = MaxRounds
        /\ agreement.reviews = proposal.round
        /\ proposals[completed] = proposal
        /\ agreements[completed] = agreement

\* contracts/ is the whole negotiation: of every completed round a proposal
\* and its review, a later proposal answering the rejection before it.
FilesTellTheStory ==
    \A n \in 1..completed :
        /\ proposals[n].round = n /\ proposals[n].answers = n - 1
        /\ agreements[n].reviews = n
        /\ n < completed => ~agreements[n].approved

\* Negotiation ends, agreed, given up or raised.
Terminates == <>(pc \in {"returned", "raised"})

-----------------------------------------------------------------------------
(* The inductive invariant behind the two of them                          *)

InRound == {"saveProposal", "review", "saveAgreement", "completeRound"}

\* What the round in progress has done at each statement.
RoundInv ==
    /\ pc = "propose" => round = 1
    /\ pc = "revise" => round > 1 /\ agreement.reviews = round - 1
    /\ pc \in InRound \cup {"propose", "revise"} => completed = round - 1
    /\ pc \in InRound \cup {"revise"} /\ completed > 0 =>
          ~agreements[completed].approved
    /\ pc \in InRound => proposal.round = round /\ proposal.answers = round - 1
    /\ pc \in InRound \ {"saveProposal"} => proposals[round] = proposal
    /\ pc \in {"saveAgreement", "completeRound"} => agreement.reviews = round
    /\ pc = "completeRound" => agreements[round] = agreement
    /\ completed <= round

IInv == TypeOK /\ RoundInv /\ ReturnedIsReviewed /\ FilesTellTheStory

-----------------------------------------------------------------------------
(* The measure behind Terminates                                           *)

StatementsLeft ==
    [propose |-> 5, revise |-> 5, saveProposal |-> 4, review |-> 3,
     saveAgreement |-> 2, completeRound |-> 1, returned |-> 0, raised |-> 0]

\* At most so many statements are still to run.
Left == 5 * (MaxRounds - round) + StatementsLeft[pc]

Countdown == [][Left' < Left]_vars
=============================================================================
