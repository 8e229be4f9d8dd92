--------------------------- MODULE MCMailAccounts ---------------------------
(* Two providers of user passwords beside Microsoft Graph.                 *)
EXTENDS MailAccounts, TLC

CONSTANTS p1, p2, s1, s2

Quotas == [v \in {"gmail", "generic"} |-> IF v = "gmail" THEN 100 ELSE 0]
Asked == {0, 120}
Symmetry == Permutations({p1, p2}) \union Permutations({s1, s2})
=============================================================================
