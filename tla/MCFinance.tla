----------------------------- MODULE MCFinance ------------------------------
(* Small instances of the money side for TLC. *)
EXTENDS Finance, TLC

Symmetric == Permutations(Account) \cup Permutations(Clerk) \cup Permutations(Worker)
                \cup Permutations(Refresher)
=============================================================================
