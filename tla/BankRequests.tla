---------------------------- MODULE BankRequests ----------------------------
(***************************************************************************)
(* What debit order runs promise about one account's month, whatever runs, *)
(* processes and lost answers it takes: it is reserved by one run at a     *)
(* time, may be let go until a submission has begun, and from then on is   *)
(* put to the bank once at most, and never again by anybody.               *)
(***************************************************************************)
CONSTANT Request     \* an account and a billing period

VARIABLES stage, asked

Init ==
    /\ stage = [k \in Request |-> "open"]
    /\ asked = [k \in Request |-> 0]

(* The requests in K go from one stage to another together. *)
Advance(K, from, to) ==
    /\ \A k \in K : stage[k] = from
    /\ stage' = [k \in Request |-> IF k \in K THEN to ELSE stage[k]]
    /\ asked' = asked

Reserve(K) == Advance(K, "open", "reserved")
LetGo(K) == Advance(K, "reserved", "open")
Commit(K) == Advance(K, "reserved", "committed")

Ask(K) ==
    /\ \A k \in K : stage[k] = "committed" /\ asked[k] = 0
    /\ asked' = [k \in Request |-> IF k \in K THEN 1 ELSE asked[k]]
    /\ stage' = stage

Next == \E K \in SUBSET Request : Reserve(K) \/ LetGo(K) \/ Commit(K) \/ Ask(K)

Spec == Init /\ [][Next]_<<stage, asked>>
=============================================================================
