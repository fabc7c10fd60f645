----------------------------- MODULE MCLeasing ------------------------------
(* Small instances of the leasing core for TLC. *)
EXTENDS Leasing, TLC

CONSTANTS g   \* the one floor

OneFloor == [u \in Unit |-> g]
Symmetric == Permutations(Proc) \cup Permutations(Unit) \cup Permutations(Lead)
=============================================================================
