---------------------- MODULE ContractNegotiationProofs ----------------------
(***************************************************************************)
(* What a negotiation returns and leaves on disk, for every max_rounds and *)
(* every set of criteria.  IInv adds to the two properties what the round  *)
(* in progress has done at each statement.                                 *)
(***************************************************************************)
EXTENDS ContractNegotiation, TLAPS

USE MaxRoundsAssumption

\* Every step keeps the types, given that a review has a proposal to review.
LEMMA TypeStep == TypeOK /\ RoundInv /\ [Next]_vars => TypeOK'
  <1> SUFFICES ASSUME TypeOK, RoundInv, [Next]_vars
               PROVE  TypeOK'
    OBVIOUS
  <1> USE DEF TypeOK, files
  <1>1. ASSUME NEW c \in SUBSET Criterion, Propose(c)
        PROVE  TypeOK'
    <2>1. agreement.reviews \in 0..MaxRounds
      BY DEF ContractAgreement, NoAgreement
    <2>2. proposal' \in ContractProposal
      BY <1>1, <2>1 DEF Propose, ContractProposal
    <2>q. QED
      BY <1>1, <2>2 DEF Propose
  <1>2. CASE SaveProposal
    BY <1>2 DEF SaveProposal
  <1>3. ASSUME NEW approved \in BOOLEAN, NEW added \in SUBSET Criterion,
               ReviewProposal(approved, added)
        PROVE  TypeOK'
    <2>1. agreement' \in ContractAgreement
      BY <1>3 DEF ReviewProposal, ContractAgreement, RoundInv, InRound
    <2>q. QED
      BY <1>3, <2>1 DEF ReviewProposal
  <1>4. CASE SaveAgreement
    BY <1>4 DEF SaveAgreement
  <1>5. CASE CompleteRound
    BY <1>5 DEF CompleteRound
  <1>6. CASE ParseFails
    BY <1>6 DEF ParseFails
  <1>7. CASE UNCHANGED vars
    BY <1>7 DEF vars
  <1>q. QED
    BY <1>1, <1>2, <1>3, <1>4, <1>5, <1>6, <1>7 DEF Next, Step, Over

\* Every step keeps what the round in progress has done.
LEMMA RoundStep == TypeOK /\ RoundInv /\ [Next]_vars => RoundInv'
  <1> SUFFICES ASSUME TypeOK, RoundInv, [Next]_vars
               PROVE  RoundInv'
    OBVIOUS
  <1> USE DEF TypeOK, RoundInv, InRound, files
  <1>1. ASSUME NEW c \in SUBSET Criterion, Propose(c)
        PROVE  RoundInv'
    BY <1>1 DEF Propose
  <1>2. CASE SaveProposal
    BY <1>2 DEF SaveProposal
  <1>3. ASSUME NEW approved \in BOOLEAN, NEW added \in SUBSET Criterion,
               ReviewProposal(approved, added)
        PROVE  RoundInv'
    BY <1>3 DEF ReviewProposal
  <1>4. CASE SaveAgreement
    BY <1>4 DEF SaveAgreement
  <1>5. CASE CompleteRound
    BY <1>5 DEF CompleteRound
  <1>6. CASE ParseFails
    BY <1>6 DEF ParseFails
  <1>7. CASE UNCHANGED vars
    BY <1>7 DEF vars
  <1>q. QED
    BY <1>1, <1>2, <1>3, <1>4, <1>5, <1>6, <1>7 DEF Next, Step, Over

\* Every step keeps the two properties; only CompleteRound completes a round.
LEMMA StoryStep ==
    IInv /\ [Next]_vars => ReturnedIsReviewed' /\ FilesTellTheStory'
  <1> SUFFICES ASSUME IInv, [Next]_vars
               PROVE  ReturnedIsReviewed' /\ FilesTellTheStory'
    OBVIOUS
  <1> USE DEF IInv, TypeOK, RoundInv, InRound, ReturnedIsReviewed,
              FilesTellTheStory, files
  <1>1. ASSUME NEW c \in SUBSET Criterion, Propose(c)
        PROVE  ReturnedIsReviewed' /\ FilesTellTheStory'
    BY <1>1 DEF Propose
  <1>2. CASE SaveProposal
    BY <1>2 DEF SaveProposal
  <1>3. ASSUME NEW approved \in BOOLEAN, NEW added \in SUBSET Criterion,
               ReviewProposal(approved, added)
        PROVE  ReturnedIsReviewed' /\ FilesTellTheStory'
    BY <1>3 DEF ReviewProposal
  <1>4. CASE SaveAgreement
    BY <1>4 DEF SaveAgreement
  <1>5. CASE CompleteRound
    <2>1. ReturnedIsReviewed'
      BY <1>5 DEF CompleteRound
    <2>2. FilesTellTheStory'
      BY <1>5 DEF CompleteRound
    <2>q. QED
      BY <2>1, <2>2
  <1>6. CASE ParseFails
    BY <1>6 DEF ParseFails
  <1>7. CASE UNCHANGED vars
    BY <1>7 DEF vars
  <1>q. QED
    BY <1>1, <1>2, <1>3, <1>4, <1>5, <1>6, <1>7 DEF Next, Step, Over

\* The inductive invariant holds in every negotiation.
LEMMA Inductive == Spec => []IInv
<1>1. Init => IInv
  BY DEF Init, IInv, TypeOK, RoundInv, InRound, ReturnedIsReviewed,
         FilesTellTheStory
<1>2. IInv /\ [Next]_vars => IInv'
  BY TypeStep, RoundStep, StoryStep DEF IInv
<1>q. QED
  BY <1>1, <1>2, PTL DEF Spec

\* Every variable keeps its type, the files of contracts/ included.
THEOREM TypeCorrect == Spec => []TypeOK
<1>1. IInv => TypeOK
  BY DEF IInv
<1>q. QED
  BY Inductive, <1>1, PTL

\* However many rounds are allowed, negotiate returns a proposal with its own
\* review, both on disk, and overrides a rejection in the last round only.
THEOREM ReturnsReviewed == Spec => []ReturnedIsReviewed
<1>1. IInv => ReturnedIsReviewed
  BY DEF IInv
<1>q. QED
  BY Inductive, <1>1, PTL

\* The files of contracts/ are the whole exchange, round by round.
THEOREM StoryIsTold == Spec => []FilesTellTheStory
<1>1. IInv => FilesTellTheStory
  BY DEF IInv
<1>q. QED
  BY Inductive, <1>1, PTL

-----------------------------------------------------------------------------

\* Statements are counted down by every step, so a negotiation is over after at
\* most five for each round it may have, whatever the agents answer
\* (ContractNegotiator.negotiate).
THEOREM NegotiationIsShort ==
    Spec => Left = 5 * MaxRounds /\ [](Left \in Nat) /\ Countdown
<1>1. Init => Left = 5 * MaxRounds
  BY DEF Init, Left, StatementsLeft
<1>2. IInv => Left \in Nat
  BY DEF IInv, TypeOK, Left, StatementsLeft
<1>3. IInv /\ [Next]_vars => [Left' < Left]_vars
  <2> SUFFICES ASSUME TypeOK, Step
               PROVE  Left' < Left
    BY DEF IInv, Next, Over
  <2> USE DEF TypeOK, Left, StatementsLeft
  <2>1. ASSUME NEW c \in SUBSET Criterion, Propose(c) PROVE Left' < Left
    BY <2>1 DEF Propose
  <2>2. CASE SaveProposal
    BY <2>2 DEF SaveProposal
  <2>3. ASSUME NEW approved \in BOOLEAN, NEW added \in SUBSET Criterion,
               ReviewProposal(approved, added)
        PROVE  Left' < Left
    BY <2>3 DEF ReviewProposal
  <2>4. CASE SaveAgreement
    BY <2>4 DEF SaveAgreement
  <2>5. CASE CompleteRound
    BY <2>5 DEF CompleteRound
  <2>6. CASE ParseFails
    BY <2>6 DEF ParseFails
  <2>q. QED
    BY <2>1, <2>2, <2>3, <2>4, <2>5, <2>6 DEF Step
<1>q. QED
  BY Inductive, <1>1, <1>2, <1>3, PTL DEF Spec, Countdown
=============================================================================
