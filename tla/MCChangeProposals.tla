-------------------------- MODULE MCChangeProposals --------------------------
(* A small instance of the proposals. *)
EXTENDS ChangeProposals, TLC

ItemSymmetry == Permutations(Proposals) \cup Permutations(Codes) \cup Permutations(Executors)
==============================================================================
