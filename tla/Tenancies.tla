----------------------------- MODULE Tenancies ------------------------------
(***************************************************************************)
(* Tenancies: how a booking or a free unit becomes one, how its lease is   *)
(* signed, how the keys change hands, and how a tenant moves on; and the   *)
(* maintenance that keeps a free unit out of use.                          *)
(***************************************************************************)
EXTENDS LeasingState

(***************************************************************************)
(* Operations as a slip in the code would have them: a dropped check, a    *)
(* stale read, a missing lock.  Each stands in for the operation it is     *)
(* named after when a property is tested for its teeth, and takes no part  *)
(* in the specification.                                                   *)
(***************************************************************************)

(* A move-in that overlooks the other bookings of the unit.                *)
MoveInCheckWalkIn(p, u, r, simulation) ==
    /\ Start(p, "movein")
    /\ FacilityUnlocked /\ UnitUnlocked(u)
    /\ Operational(u)
    /\ unit[u] \in {"AVAILABLE", "RESERVED"}
    /\ BlockingOn(u) = {}
    /\ r # NoRow => res[r].status = "ACTIVE" /\ res[r].unit = u
    /\ proc' = [proc EXCEPT ![p] = [Idle EXCEPT !.pc = "movein", !.r = r, !.u = u,
                                                !.flag = simulation]]
    /\ UNCHANGED <<now, closed, unit, maint, res, ten, occ, lead>>

(* A move-out that does not compare what it claimed with what it read, and *)
(* one that writes the occupancies it read.                                *)
MoveOutClaimAnyCount(p) ==
    LET claimed == OccupanciesOf(proc[p].t, Living)
        left(u) == IF BlockingOn(u) \ claimed # {} THEN "OCCUPIED"
                   ELSE IF ActiveOn(u) # {} THEN "RESERVED" ELSE "AVAILABLE"
    IN  /\ proc[p].pc = "moveout"
        /\ OccupanciesUnlocked(claimed)
        /\ proc' = [proc EXCEPT ![p].pc = "closing", ![p].os = claimed,
                       ![p].plan = [u \in Unit |-> IF \E o \in proc[p].os : occ[o].unit = u
                                                   THEN left(u) ELSE "NONE"]]
        /\ UNCHANGED <<now, closed, unit, maint, res, ten, occ, lead>>

MoveOutClaimAsRead(p) ==
    LET claimed == proc[p].os
    IN  /\ proc[p].pc = "moveout"
        /\ OccupanciesUnlocked(claimed)
        /\ proc' = [proc EXCEPT ![p].pc = "closing",
                       ![p].plan = [u \in Unit |-> IF \E o \in claimed : occ[o].unit = u
                                                   THEN "AVAILABLE" ELSE "NONE"]]
        /\ UNCHANGED <<now, closed, unit, maint, res, ten, occ, lead>>

(* A unit status taken as it comes from the form. *)
EditUnitAsSent(u, status) ==
    /\ "edit" \in Ops
    /\ unit' = [unit EXCEPT ![u] = status]
    /\ UNCHANGED <<now, closed, maint, res, ten, occ, lead, proc>>

-----------------------------------------------------------------------------
(* A move-in for signature, of unit u and the booking r it converts, if    *)
(* any.  Under the facility and unit locks the transaction looks at the    *)
(* unit and at everything that could keep it ...                           *)
MoveInCheck(p, u, r, simulation) ==
    /\ Start(p, "movein")
    /\ FacilityUnlocked /\ UnitUnlocked(u)
    /\ Operational(u)
    /\ unit[u] \in {"AVAILABLE", "RESERVED"}
    /\ BlockingOn(u) = {} /\ ActiveOn(u) \subseteq {r}
    /\ \A q \in ActiveOn(u) : res[q].lease # "SIGNED"
    /\ r # NoRow => res[r].status = "ACTIVE" /\ res[r].unit = u
    /\ proc' = [proc EXCEPT ![p] = [Idle EXCEPT !.pc = "movein", !.r = r, !.u = u,
                                                !.flag = simulation]]
    /\ UNCHANGED <<now, closed, unit, maint, res, ten, occ, lead>>

(* ... and then saves the draft tenancy and converts the booking.  Only    *)
(* here does it touch, and so lock, the reservation row.                   *)
MoveInCommit(p, t, o) ==
    LET r == proc[p].r
        u == proc[p].u
    IN  /\ proc[p].pc = "movein"
        /\ r # NoRow => ReservationUnlocked(r)
        /\ NextRow(ten, t) /\ NextRow(occ, o)
        /\ ten' = [ten EXCEPT ![t] = [NoTenancy EXCEPT !.status = "DRAFT", !.doc = "PENDING",
                                                       !.sim = proc[p].flag]]
        /\ occ' = [occ EXCEPT ![o] = [status |-> "PENDING", unit |-> u, ten |-> t]]
        /\ unit' = [unit EXCEPT ![u] = "RESERVED"]
        /\ res' = [q \in Res |-> IF q = r THEN [res[q] EXCEPT !.status = "CONVERTED", !.ten = t]
                                 ELSE res[q]]
        /\ Done(p)
        /\ UNCHANGED <<now, closed, maint, lead>>

-----------------------------------------------------------------------------
(* The lease goes to the signing service, at the end of the move-in or as  *)
(* a retry of an envelope that never came back ...                         *)
DispatchRead(p, t) ==
    /\ Start(p, "dispatch")
    /\ ten[t].doc = "PENDING"
    /\ OccupanciesOf(t, Blocking) # {}
    /\ proc' = [proc EXCEPT ![p] = [Idle EXCEPT !.pc = "dispatch", !.t = t]]
    /\ UNCHANGED <<now, closed, unit, maint, res, ten, occ, lead>>

(* ... and the answer is saved on the document, over whatever it says by   *)
(* then.                                                                   *)
DispatchAttach(p) ==
    /\ proc[p].pc = "dispatch"
    /\ ten' = [ten EXCEPT ![proc[p].t].doc = "SENT"]
    /\ Done(p)
    /\ UNCHANGED <<now, closed, unit, maint, res, occ, lead>>

(* The signing service reports the envelope completed, at least once.  A   *)
(* simulated lease is signed as it stands.                                 *)
CompleteEnvelope(t) ==
    /\ "complete" \in Ops
    /\ ten[t].doc \in {"SENT", "CANCELLED"}
    /\ ~ ten[t].sim =>
          \E o \in OccupanciesOf(t, {"PENDING"}) :
             FacilityUnlocked /\ UnitUnlocked(occ[o].unit) /\ Operational(occ[o].unit)
    /\ ten' = [ten EXCEPT ![t].doc = "SIGNED"]
    /\ UNCHANGED <<now, closed, unit, maint, res, occ, lead, proc>>

(* Key handover of a signed online booking; the payment, photo and         *)
(* identity evidence is taken to be in order.                              *)
ConfirmMoveIn(r, t, o) ==
    LET u == res[r].unit
    IN  /\ "handover" \in Ops
        /\ res[r].status = "ACTIVE" /\ res[r].ten = NoRow /\ res[r].lease = "SIGNED"
        /\ FacilityUnlocked /\ UnitUnlocked(u) /\ ReservationUnlocked(r)
        /\ Operational(u)
        /\ unit[u] = "RESERVED"
        /\ BlockingOn(u) = {} /\ ActiveOn(u) \subseteq {r}
        /\ NextRow(ten, t) /\ NextRow(occ, o)
        /\ ten' = [ten EXCEPT ![t] = [NoTenancy EXCEPT !.status = "ACTIVE", !.doc = "SIGNED",
                                                       !.handed = TRUE]]
        /\ occ' = [occ EXCEPT ![o] = [status |-> "ACTIVE", unit |-> u, ten |-> t]]
        /\ res' = [res EXCEPT ![r].status = "CONVERTED", ![r].ten = t]
        /\ unit' = [unit EXCEPT ![u] = "OCCUPIED"]
        /\ lead' = LeadsAt(res[r].lead, "WON")
        /\ UNCHANGED <<now, closed, maint, proc>>

-----------------------------------------------------------------------------
(* What the handover of a lease signed through the signing service needs:  *)
(* one allocation o, its unit in use, and the original booking linked.     *)
HandoverReady(t, o) ==
    /\ ten[t].doc = "SIGNED" /\ ~ ten[t].sim /\ ~ ten[t].handed
    /\ ten[t].status \in {"DRAFT", "ACTIVE", "NOTICE_GIVEN"}
    /\ OccupanciesOf(t, Blocking) = {o}
    /\ unit[occ[o].unit] \in {"RESERVED", "OCCUPIED"}
    /\ Operational(occ[o].unit)
    /\ \A r \in Res : res[r].ten = t => res[r].status = "CONVERTED" /\ res[r].unit = occ[o].unit

(* It is checked, the signed document is fetched from the signing service, *)
(* and all of it is checked again under the locks.                         *)
LegacyRead(p, t, o) ==
    /\ Start(p, "legacy")
    /\ HandoverReady(t, o)
    /\ proc' = [proc EXCEPT ![p] = [Idle EXCEPT !.pc = "legacy", !.t = t, !.os = {o}]]
    /\ UNCHANGED <<now, closed, unit, maint, res, ten, occ, lead>>

LegacyCommit(p, o) ==
    LET t == proc[p].t
        u == occ[o].unit
    IN  /\ proc[p].pc = "legacy" /\ proc[p].os = {o}
        /\ FacilityUnlocked /\ UnitUnlocked(u) /\ OccupanciesUnlocked({o})
        /\ HandoverReady(t, o)
        /\ BlockingOn(u) = {o} /\ ActiveOn(u) = {}
        /\ occ' = [occ EXCEPT ![o].status = "ACTIVE"]
        /\ unit' = [unit EXCEPT ![u] = "OCCUPIED"]
        /\ ten' = [ten EXCEPT ![t].status = "ACTIVE", ![t].handed = TRUE]
        /\ lead' = [l \in Lead |-> IF \E r \in Res : res[r].ten = t /\ res[r].lead = l
                                   THEN "WON" ELSE lead[l]]
        /\ Done(p)
        /\ UNCHANGED <<now, closed, maint, res>>

-----------------------------------------------------------------------------
(* A transfer reads the tenancy and its one active occupancy ...           *)
TransferRead(p, t, v, o) ==
    /\ Start(p, "transfer")
    /\ ten[t].status = "ACTIVE" /\ OccupanciesOf(t, {"ACTIVE"}) = {o}
    /\ occ[o].unit # v
    /\ proc' = [proc EXCEPT ![p] = [Idle EXCEPT !.pc = "transfer", !.t = t, !.u = v, !.os = {o}]]
    /\ UNCHANGED <<now, closed, unit, maint, res, ten, occ, lead>>

(* ... waits for the locks of the new unit, and claims the free unit and   *)
(* the occupancy.  The tenancy and the old unit are written regardless.    *)
TransferCommit(p, o, n) ==
    LET t == proc[p].t
        v == proc[p].u
        u == occ[o].unit
    IN  /\ proc[p].pc = "transfer" /\ proc[p].os = {o}
        /\ FacilityUnlocked /\ UnitUnlocked(v) /\ UnitUnlocked(u) /\ OccupanciesUnlocked({o})
        /\ Operational(v)
        /\ unit[v] = "AVAILABLE"
        /\ occ[o].status = "ACTIVE"
        /\ NextRow(occ, n)
        /\ ten' = [ten EXCEPT ![t].status = "ACTIVE"]
        /\ occ' = [occ EXCEPT ![o].status = "MOVED_OUT",
                              ![n] = [status |-> "ACTIVE", unit |-> v, ten |-> t]]
        /\ unit' = [unit EXCEPT ![u] = "AVAILABLE", ![v] = "OCCUPIED"]
        /\ Done(p)
        /\ UNCHANGED <<now, closed, maint, res, lead>>

(* Notice is given on a tenancy that was active when it was looked up.     *)
NoticeRead(p, t) ==
    /\ Start(p, "notice")
    /\ ten[t].status = "ACTIVE"
    /\ proc' = [proc EXCEPT ![p] = [Idle EXCEPT !.pc = "notice", !.t = t]]
    /\ UNCHANGED <<now, closed, unit, maint, res, ten, occ, lead>>

NoticeCommit(p) ==
    LET t == proc[p].t
    IN  /\ proc[p].pc = "notice"
        /\ OccupanciesUnlocked(OccupanciesOf(t, {"ACTIVE"}))
        /\ ten' = [ten EXCEPT ![t].status = "NOTICE_GIVEN"]
        /\ occ' = [o \in Occ |-> IF o \in OccupanciesOf(t, {"ACTIVE"})
                                 THEN [occ[o] EXCEPT !.status = "NOTICE_GIVEN"] ELSE occ[o]]
        /\ Done(p)
        /\ UNCHANGED <<now, closed, unit, maint, res, lead>>

-----------------------------------------------------------------------------
(* A move-out reads the tenancy and its occupancies, none of them locked.  *)
MoveOutRead(p, t) ==
    /\ Start(p, "moveout")
    /\ ten[t].status \in Living
    /\ proc' = [proc EXCEPT ![p] = [Idle EXCEPT !.pc = "moveout", !.t = t,
                                                !.os = OccupanciesOf(t, Living)]]
    /\ UNCHANGED <<now, closed, unit, maint, res, ten, occ, lead>>

(* It claims the occupancies the tenancy has now, as many as it read, and  *)
(* counts what is left on the units it read.                               *)
MoveOutClaim(p) ==
    LET claimed == OccupanciesOf(proc[p].t, Living)
        left(u) == IF BlockingOn(u) \ claimed # {} THEN "OCCUPIED"
                   ELSE IF InMaintenance(u) THEN "SERVICE"
                   ELSE IF ActiveOn(u) # {} THEN "RESERVED" ELSE "AVAILABLE"
    IN  /\ proc[p].pc = "moveout"
        /\ OccupanciesUnlocked(claimed)
        /\ Cardinality(claimed) = Cardinality(proc[p].os)
        /\ proc' = [proc EXCEPT ![p].pc = "closing", ![p].os = claimed,
                       ![p].plan = [u \in Unit |-> IF \E o \in proc[p].os : occ[o].unit = u
                                                   THEN left(u) ELSE "NONE"]]
        /\ UNCHANGED <<now, closed, unit, maint, res, ten, occ, lead>>

MoveOutCommit(p) ==
    LET t == proc[p].t
        plan == proc[p].plan
    IN  /\ proc[p].pc = "closing"
        /\ \A u \in Unit : plan[u] # "NONE" => UnitUnlocked(u)
        /\ occ' = [o \in Occ |-> IF o \in proc[p].os THEN [occ[o] EXCEPT !.status = "MOVED_OUT"]
                                 ELSE occ[o]]
        /\ unit' = [u \in Unit |-> IF plan[u] = "NONE" THEN unit[u] ELSE plan[u]]
        /\ ten' = [ten EXCEPT ![t].status = "CLOSED",
                              ![t].moveOuts = IF @ = 2 THEN @ ELSE @ + 1]
        /\ Done(p)
        /\ UNCHANGED <<now, closed, maint, res, lead>>

-----------------------------------------------------------------------------
(* Maintenance is opened on a free unit, which it takes out of use ...     *)
NextRequest(u, m) == maint[u][m] = "NONE" /\ \A j \in Maint : j < m => maint[u][j] # "NONE"

MaintenanceClaim(u, m) ==
    /\ "maintenance" \in Ops
    /\ UnitUnlocked(u)
    /\ unit[u] = "AVAILABLE" /\ NextRequest(u, m)
    /\ unit' = [unit EXCEPT ![u] = "SERVICE"]
    /\ maint' = [maint EXCEPT ![u][m] = "OPEN"]
    /\ UNCHANGED <<now, closed, res, ten, occ, lead, proc>>

(* ... or on one already in service, which is not claimed.                 *)
MaintenanceRead(p, u) ==
    /\ Start(p, "maintenance")
    /\ unit[u] = "SERVICE"
    /\ proc' = [proc EXCEPT ![p] = [Idle EXCEPT !.pc = "maint", !.u = u]]
    /\ UNCHANGED <<now, closed, unit, maint, res, ten, occ, lead>>

MaintenanceOpen(p, m) ==
    LET u == proc[p].u
    IN  /\ proc[p].pc = "maint"
        /\ UnitUnlocked(u)
        /\ NextRequest(u, m)
        /\ maint' = [maint EXCEPT ![u][m] = "OPEN"]
        /\ Done(p)
        /\ UNCHANGED <<now, closed, unit, res, ten, occ, lead>>

(* A request is given any status, a reopened one too, whatever the unit is *)
(* used for by then.  The last one to end puts a unit in service back into *)
(* use.  (What is counted cannot appear on such a unit before the write.)  *)
MaintenanceUpdate(u, m, status) ==
    /\ "maintenance" \in Ops
    /\ UnitUnlocked(u)
    /\ maint[u][m] # "NONE"
    /\ maint' = [maint EXCEPT ![u][m] = status]
    /\ unit' = IF /\ status = "ENDED" /\ unit[u] = "SERVICE"
                  /\ \A j \in Maint \ {m} : maint[u][j] # "OPEN"
                  /\ ActiveOn(u) = {} /\ BlockingOn(u) = {}
               THEN [unit EXCEPT ![u] = "AVAILABLE"] ELSE unit
    /\ UNCHANGED <<now, closed, res, ten, occ, lead, proc>>

(* Staff set the status of a unit by hand, to none that means a promise,   *)
(* once nothing is found to keep it; and retire a unit, found or not.      *)
EditUnit(u, status) ==
    /\ "edit" \in Ops
    /\ FacilityUnlocked /\ UnitUnlocked(u)
    /\ status # unit[u]
    /\ BlockingOn(u) = {} /\ ActiveOn(u) = {}
    /\ unit' = [unit EXCEPT ![u] = status]
    /\ UNCHANGED <<now, closed, maint, res, ten, occ, lead, proc>>

RetireUnit(u) ==
    /\ "retire" \in Ops
    /\ FacilityUnlocked /\ UnitUnlocked(u)
    /\ unit' = [unit EXCEPT ![u] = "UNAVAILABLE"]
    /\ UNCHANGED <<now, closed, maint, res, ten, occ, lead, proc>>

Tenancies ==
    \/ \E p \in Proc, u \in Unit, r \in Res \cup {NoRow}, simulation \in BOOLEAN :
          MoveInCheck(p, u, r, simulation)
    \/ \E p \in Proc, t \in Ten, o \in Occ : MoveInCommit(p, t, o)
    \/ \E p \in Proc, t \in Ten : DispatchRead(p, t) \/ NoticeRead(p, t) \/ MoveOutRead(p, t)
    \/ \E p \in Proc : DispatchAttach(p) \/ NoticeCommit(p)
    \/ \E p \in Proc : MoveOutClaim(p) \/ MoveOutCommit(p)
    \/ \E t \in Ten : CompleteEnvelope(t)
    \/ \E r \in Res, t \in Ten, o \in Occ : ConfirmMoveIn(r, t, o)
    \/ \E p \in Proc, t \in Ten, o \in Occ : LegacyRead(p, t, o)
    \/ \E p \in Proc, o \in Occ : LegacyCommit(p, o)
    \/ \E p \in Proc, t \in Ten, v \in Unit, o \in Occ : TransferRead(p, t, v, o)
    \/ \E p \in Proc, o \in Occ, n \in Occ : TransferCommit(p, o, n)
    \/ \E u \in Unit, m \in Maint : MaintenanceClaim(u, m)
    \/ \E p \in Proc, u \in Unit : MaintenanceRead(p, u)
    \/ \E p \in Proc, m \in Maint : MaintenanceOpen(p, m)
    \/ \E u \in Unit, m \in Maint, status \in {"OPEN", "ENDED"} : MaintenanceUpdate(u, m, status)
    \/ \E u \in Unit, status \in {"AVAILABLE", "SERVICE", "UNAVAILABLE"} : EditUnit(u, status)
    \/ \E u \in Unit : RetireUnit(u)
=============================================================================
