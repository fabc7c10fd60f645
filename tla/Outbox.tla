------------------------------- MODULE Outbox -------------------------------
(***************************************************************************)
(* What every way of sending a message promises, whatever repeats a call,  *)
(* stops or answers late: a message is claimed once, is put to the         *)
(* provider at most once and only by its claim, and what is recorded of it *)
(* in the end is never changed.                                            *)
(***************************************************************************)
EXTENDS Naturals

CONSTANT Message

VARIABLES stage, handed

Init ==
    /\ stage = [k \in Message |-> "open"]
    /\ handed = [k \in Message |-> 0]

Claim(k) ==
    /\ stage[k] = "open"
    /\ stage' = [stage EXCEPT ![k] = "claimed"]
    /\ UNCHANGED handed

Hand(k) ==
    /\ stage[k] = "claimed" /\ handed[k] = 0
    /\ handed' = [handed EXCEPT ![k] = 1]
    /\ UNCHANGED stage

(* Only a message that was handed over is ever recorded as accepted. *)
Accept(k) ==
    /\ stage[k] = "claimed" /\ handed[k] = 1
    /\ stage' = [stage EXCEPT ![k] = "accepted"]
    /\ UNCHANGED handed

(* Refused, uncertain, or withdrawn after the claim: somebody must look. *)
Stop(k) ==
    /\ stage[k] = "claimed"
    /\ stage' = [stage EXCEPT ![k] = "stopped"]
    /\ UNCHANGED handed

Next == \E k \in Message : Claim(k) \/ Hand(k) \/ Accept(k) \/ Stop(k)

Spec == Init /\ [][Next]_<<stage, handed>>
=============================================================================
