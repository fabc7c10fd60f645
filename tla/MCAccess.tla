----------------------------- MODULE MCAccess -----------------------------
(* Small instances of the access evidence for TLC. *)
EXTENDS Access, TLC

UpTo(customer, people, copy, most) ==
    [customer |-> customer, people |-> people, copy |-> copy, turns |-> most]

(* A photograph that is replaced; a photograph and an identity copy, both  *)
(* of which the keys need, under policies that change; and two people      *)
(* photographed, of three that were named.                                 *)
Mixed == {UpTo(2, 0, 0, 1), UpTo(1, 0, 1, 1), UpTo(0, 4, 0, 0)}
OnePhoto == {UpTo(1, 0, 0, 1)}

(* Every person is nominated for the one booking of the instance. *)
OneHost == [p \in Person |-> CHOOSE b \in Booking : TRUE]

(* The settings that matter: an identity policy where there are copies,    *)
(* and a photo policy of the environment until the owner uses the switch.  *)
SmallInit ==
    /\ Init
    /\ env
    /\ \A b \in Booking : home[b].identified <=> quota.copy > 0
    /\ quota.copy = 0 => notice = "TENANCY"

SmallSpec == SmallInit /\ [][Next]_vars
SmallFairSpec == SmallSpec /\ \A r \in Run : WF_vars(RunSteps(r))
=============================================================================
