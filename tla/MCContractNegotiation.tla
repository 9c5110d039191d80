------------------------ MODULE MCContractNegotiation ------------------------
(* Three rounds, one more than the default, so that a round lies between   *)
(* the first and the last; two criteria, proposed, added or neither.       *)
EXTENDS ContractNegotiation
=============================================================================
