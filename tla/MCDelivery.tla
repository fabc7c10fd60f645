----------------------------- MODULE MCDelivery -----------------------------
(* Small instances of the sending of messages for TLC. *)
EXTENDS Delivery, TLC

Symmetric == Permutations(Email) \cup Permutations(Policy) \cup Permutations(Staff)
                \cup Permutations(Proc)
=============================================================================
