----------------------------- MODULE MCCatalogue -----------------------------
(* Instances of Catalogue for TLC. *)
EXTENDS Catalogue, TLC

Symmetry == Permutations(Products) \cup Permutations(Prices) \cup Permutations(Slots)

MinusOne == -1
=============================================================================
