----------------------------- MODULE MCAccounts -----------------------------
(* Instances of Accounts for TLC. *)
EXTENDS Accounts, TLC

Symmetry ==
    UNION {Permutations(S) : S \in {Register, Login, Forgot, Reset, Change, Logout,
                                    Revoke, Visit, Password}}
=============================================================================
