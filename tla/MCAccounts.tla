------------------------------ MODULE MCAccounts ------------------------------
(* Instances of Accounts for TLC. *)
EXTENDS Accounts, TLC

Symmetry == Permutations(Roles) \cup Permutations(Perms) \cup Permutations(Passwords) \cup Permutations(Slots)
=============================================================================
