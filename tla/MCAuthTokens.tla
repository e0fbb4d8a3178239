----------------------------- MODULE MCAuthTokens -----------------------------
(* Model values for AuthTokens. *)
EXTENDS AuthTokens, TLC

CONSTANTS ana, k1, k2, k3, old, new, r1, r2

MCUsers == {ana}
MCTokens == {k1, k2, k3}
MCPasswords == {old, new}
MCRequests == {r1, r2}
MCSymmetry == Permutations(MCTokens) \cup Permutations(MCPasswords) \cup Permutations(MCRequests)
===============================================================================
