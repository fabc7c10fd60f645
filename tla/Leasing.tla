------------------------------ MODULE Leasing -------------------------------
(***************************************************************************)
(* The leasing core: bookings and tenancies of one facility, worked on by  *)
(* the requests of several processes, any of which may be given up at any  *)
(* point (a dropped connection, a crash, the victim of a deadlock).        *)
(***************************************************************************)
EXTENDS Bookings, Tenancies

(* An open transaction leaves nothing behind. *)
Rollback(p) ==
    /\ proc[p] # Idle
    /\ Done(p)
    /\ UNCHANGED <<now, closed, unit, maint, res, ten, occ, lead>>

Tick ==
    /\ now < MaxNow
    /\ now' = now + 1
    /\ UNCHANGED <<closed, unit, maint, res, ten, occ, lead, proc>>

Next ==
    \/ Bookings
    \/ Tenancies
    \/ \E p \in Proc : Rollback(p)
    \/ Tick

Spec == Init /\ [][Next]_vars

-----------------------------------------------------------------------------
(* A claim on a unit is a booking that is active or an occupancy that has  *)
(* not ended.  The parts of UnitBacked: an active booking keeps its unit   *)
(* marked reserved; so does an occupancy waiting for signature or keys,    *)
(* and one in use keeps it marked occupied; two claims never share a unit; *)
(* and no unit is lost from sale, marked for somebody without a claim.     *)
HoldBacked == \A r \in Res : res[r].status = "ACTIVE" => unit[res[r].unit] = "RESERVED"

OccupancyBacked ==
    \A o \in Occ :
       /\ occ[o].status = "PENDING" => unit[occ[o].unit] = "RESERVED"
       /\ occ[o].status \in Living => unit[occ[o].unit] = "OCCUPIED"

OneClaimPerUnit ==
    \A u \in Unit :
       /\ \A r, q \in ActiveOn(u) : r = q
       /\ \A o, n \in BlockingOn(u) : o = n
       /\ ActiveOn(u) = {} \/ BlockingOn(u) = {}

NoUnitLost ==
    \A u \in Unit :
       unit[u] \in {"RESERVED", "OCCUPIED"} => ActiveOn(u) # {} \/ BlockingOn(u) # {}

(* Allocations, releases, sweeps and move-outs, which look at the unit row *)
(* and at the claims at different moments, never free or resell a unit     *)
(* that is still promised to somebody, nor keep one that nobody has.       *)
UnitBacked == HoldBacked /\ OccupancyBacked /\ OneClaimPerUnit /\ NoUnitLost

(* No two tenants are ever let into one unit: not even when a cancellation *)
(* or a clean-up has freed a unit that was still promised.  Of the guarded *)
(* operations UnitBacked says more; of the others, OneTenant proves it.    *)
OneOccupancyPerUnit == \A u \in Unit : \A o, n \in BlockingOn(u) : o = n

(* A floor that staff have closed takes no new booking and no new          *)
(* occupancy, however stale the screen or the earlier check.               *)
FloorGate ==
    [][\A u \in Unit :
          (ActiveOn(u)' \subseteq ActiveOn(u) /\ BlockingOn(u)' \subseteq BlockingOn(u))
             \/ Operational(u)]_vars

(* Signature and expiry race: a booking whose agreement is signed is never *)
(* swept away as a lapsed hold.                                            *)
SignedSurvivesSweep == \A r \in Res : res[r].lease = "SIGNED" => res[r].status # "CANCELLED"

(* The sales pipeline follows the bookings: an enquiry is at the booked    *)
(* stage only while one of its bookings stands, and an enquiry with a      *)
(* running booking is never offered as open again.                         *)
LeadBacked ==
    \A l \in Lead :
       /\ lead[l] = "RESERVED" =>
             \E r \in Res : res[r].lead = l /\ res[r].status \in {"ACTIVE", "CONVERTED"}
       /\ lead[l] = "OPEN" => \A r \in Res : res[r].lead = l => res[r].status # "ACTIVE"

(* A booking is converted exactly as long as it is linked to its tenancy:  *)
(* no expiry or sweep that saw it active earlier takes the conversion      *)
(* back, and no renewal revives it.                                        *)
ConversionStands == \A r \in Res : (res[r].status = "CONVERTED") <=> (res[r].ten # NoRow)

(* A tenancy keeps one allocation until it is closed, and none afterwards: *)
(* transfers and move-outs that read the same source never consume it      *)
(* twice, and leave nobody behind.                                         *)
OneAllocationPerTenancy ==
    \A t \in Ten :
       /\ \A o, n \in OccupanciesOf(t, Blocking) : o = n
       /\ ten[t].status = "CLOSED" => OccupanciesOf(t, Blocking) = {}

(* A tenancy is moved out, and charged for it, once.                       *)
MovedOutOnce == \A t \in Ten : ten[t].moveOuts <= 1

(* Whoever was given the keys keeps a unit to use until moved out: a       *)
(* clean-up that listed the abandoned tests on a unit before somebody else *)
(* moved in does not cancel theirs, nor does the end of a booking that was *)
(* converted, and neither a transfer nor a move-out that comes second      *)
(* leaves a tenancy running without a unit.                                *)
TenantsKeepUnit ==
    \A t \in Ten :
       ten[t].handed => \/ ten[t].status = "CLOSED"
                        \/ ten[t].status \in Living /\ OccupanciesOf(t, Living) # {}

(* "Move-out closes occupancies and tenancy, revokes access, releases      *)
(* units": no unit stays occupied once nobody lives in it.                 *)
OccupiedIsUsed ==
    \A u \in Unit : unit[u] = "OCCUPIED" => \E o \in BlockingOn(u) : occ[o].status \in Living

-----------------------------------------------------------------------------
(* The party a tenancy belongs to is the booking it was converted from, or *)
(* the tenancy itself; the holder of a unit is the party of its one claim. *)
Party == ({"booking"} \X Res) \cup ({"tenancy"} \X Ten)
Nobody == <<"nobody", NoRow>>

PartyOf(t) == IF \E r \in Res : res[r].ten = t
              THEN <<"booking", CHOOSE r \in Res : res[r].ten = t>>
              ELSE <<"tenancy", t>>

holder == [u \in Unit |->
             IF ActiveOn(u) # {} THEN <<"booking", CHOOSE r \in Res : r \in ActiveOn(u)>>
             ELSE IF BlockingOn(u) # {} THEN PartyOf(occ[CHOOSE o \in Occ : o \in BlockingOn(u)].ten)
             ELSE Nobody]

Allocation == INSTANCE UnitAllocation
                 WITH Unit <- Unit, Party <- Party, Nobody <- Nobody, holder <- holder

(* The leasing core implements the abstract allocation of units.           *)
AllocationSpec == Allocation!Spec
=============================================================================
