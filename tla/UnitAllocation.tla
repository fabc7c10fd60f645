--------------------------- MODULE UnitAllocation ---------------------------
(***************************************************************************)
(* What the leasing core promises about a storage unit, whatever tables    *)
(* and requests it takes to keep it: a unit is promised to one party at a  *)
(* time, goes from one party to another only by way of being free, and a   *)
(* party keeps one unit, which a transfer swaps in one step.               *)
(***************************************************************************)
CONSTANTS Unit, Party, Nobody

VARIABLE holder   \* the party each unit is promised to

Init == holder = [u \in Unit |-> Nobody]

Allocate(u, x) ==
    /\ holder[u] = Nobody
    /\ \A v \in Unit : holder[v] # x
    /\ holder' = [holder EXCEPT ![u] = x]

Vacate(u) ==
    /\ holder[u] # Nobody
    /\ holder' = [holder EXCEPT ![u] = Nobody]

Move(u, v) ==
    /\ holder[u] # Nobody /\ holder[v] = Nobody
    /\ holder' = [holder EXCEPT ![u] = Nobody, ![v] = holder[u]]

Next ==
    \/ \E u \in Unit, x \in Party : Allocate(u, x)
    \/ \E u \in Unit : Vacate(u)
    \/ \E u, v \in Unit : Move(u, v)

Spec == Init /\ [][Next]_holder
=============================================================================
