----------------------------- MODULE MCAccounts -----------------------------
(* Two requests at a time; they are interchangeable.                       *)
EXTENDS Accounts, TLC

CONSTANTS p1, p2

AllIds == 1..2
AllTokens == 1..2
Requests == Permutations({p1, p2})
=============================================================================
