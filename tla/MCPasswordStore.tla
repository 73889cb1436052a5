-------------------------- MODULE MCPasswordStore --------------------------
(* Instances of PasswordStore for TLC.                                      *)
EXTENDS PasswordStore, TLC

CONSTANTS ResetTokenExpiry, VerificationTokenExpiry

MCExpiry == [type \in TokenTypes |-> IF type = "password_reset"
                                     THEN ResetTokenExpiry
                                     ELSE VerificationTokenExpiry]

\* Requests, row identifiers and token values are interchangeable.
Symmetry == Permutations(Procs) \cup Permutations(Rows) \cup Permutations(Tokens)
=============================================================================
