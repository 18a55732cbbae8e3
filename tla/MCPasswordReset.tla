--------------------------- MODULE MCPasswordReset ---------------------------
(* Instances of PasswordReset for TLC. *)
EXTENDS PasswordReset, TLC

Symmetry == Permutations(OtpIds) \cup Permutations(KeyIds)
            \cup Permutations(Slots) \cup Permutations(Passwords)
=============================================================================
