------------------------------- MODULE MCShop -------------------------------
(* Instances of Shop for TLC. *)
EXTENDS Shop, TLC

Symmetry == Permutations(Users) \cup Permutations(Products) \cup Permutations(LineIds)

MinusOne == -1

(* Counts as an administrator may type them: any number is taken. *)
Signed == {-1, 1}

(* Total adds up, as the sum of the library does. *)
Sums == INSTANCE FiniteSetsExt

ASSUME TotalIsTheSum ==
    \A f \in [1 .. 3 -> -2 .. 2] : Total(f) = Sums!MapThenSumSet(LAMBDA x : f[x], 1 .. 3)
=============================================================================
