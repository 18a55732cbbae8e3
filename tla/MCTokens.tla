------------------------------ MODULE MCTokens ------------------------------
(* Instances of Tokens, and of its refinement, for TLC. *)
EXTENDS TokensRefinement, TLC

(* Ids and slots are interchangeable: no formula names one. *)
Symmetry == Permutations(TokenIds) \cup Permutations(Slots)
=============================================================================
