------------------------------ MODULE Bookings ------------------------------
(***************************************************************************)
(* Reservations: how a unit is put on hold for a customer, how the hold is *)
(* extended, confirmed and signed, and how it ends without a tenancy.      *)
(***************************************************************************)
EXTENDS LeasingState

(***************************************************************************)
(* Operations as a slip in the code would have them: a dropped check, a    *)
(* stale read, a missing lock.  Each stands in for the operation it is     *)
(* named after when a property is tested for its teeth, and takes no part  *)
(* in the specification.                                                   *)
(***************************************************************************)

(* A booking on a floor nobody checked. *)
HoldUnitAnyFloor(u, l, r, h, public) ==
    /\ FacilityUnlocked /\ UnitUnlocked(u)
    /\ unit[u] = "AVAILABLE"
    /\ NextRow(res, r)
    /\ res' = [res EXCEPT ![r] = [NoReservation EXCEPT !.status = "ACTIVE", !.unit = u,
                                     !.lead = l, !.hold = h, !.public = public,
                                     !.code = IF public THEN h ELSE 0]]
    /\ unit' = [unit EXCEPT ![u] = "RESERVED"]
    /\ lead' = LeadsAt(l, "RESERVED")

(* A swept hold revived without looking for who has the unit by now. *)
RenewHoldBlind(r, h) ==
    LET u == res[r].unit
    IN  /\ "renew" \in Ops
        /\ res[r].status = "CANCELLED" /\ res[r].public /\ res[r].swept
        /\ res[r].ten = NoRow /\ res[r].lease = "NONE"
        /\ Operational(u)
        /\ h > now
        /\ unit' = [unit EXCEPT ![u] = "RESERVED"]
        /\ lead' = LeadsAt(res[r].lead, "RESERVED")
        /\ res' = [res EXCEPT ![r].status = "ACTIVE", ![r].hold = h, ![r].swept = FALSE,
                              ![r].code = IF res[r].verified THEN @ ELSE h]
        /\ UNCHANGED <<now, closed, maint, ten, occ, proc>>

(* An expiry that trusts what it read before its transaction. *)
ExpireClaimStale(p) ==
    /\ proc[p].pc = "claim"
    /\ ReservationUnlocked(proc[p].r)
    /\ proc' = [proc EXCEPT ![p].pc = "claimed"]
    /\ UNCHANGED <<now, closed, unit, maint, res, ten, occ, lead>>

(* An ended booking that leaves its enquiry booked. *)
EndReservationOnly(p) ==
    LET r == proc[p].r
        u == proc[p].u
    IN  /\ proc[p].pc = "counted"
        /\ proc[p].flag => UnitUnlocked(u)
        /\ res' = [res EXCEPT ![r].status = proc[p].st, ![r].swept = FALSE,
                              ![r].code = IF proc[p].st = "EXPIRED" THEN 0 ELSE @]
        /\ unit' = IF proc[p].flag /\ unit[u] = "RESERVED"
                   THEN [unit EXCEPT ![u] = "AVAILABLE"] ELSE unit
        /\ Done(p)
        /\ UNCHANGED <<now, closed, maint, ten, occ, lead>>

(* A sweep that does not look at the booking again under its lock. *)
SweepReleaseStale(p) ==
    LET r == proc[p].r
        u == proc[p].u
        ended == [res EXCEPT ![r].status = "CANCELLED", ![r].swept = TRUE, ![r].code = 0]
    IN  /\ proc[p].pc = "sweep"
        /\ UnitUnlocked(u) /\ ReservationUnlocked(r)
        /\ res' = ended
        /\ unit' = IF unit[u] = "RESERVED" THEN [unit EXCEPT ![u] = "AVAILABLE"] ELSE unit
        /\ lead' = LeadsAfterRelease(res[r].lead, ended)
        /\ Done(p)
        /\ UNCHANGED <<now, closed, maint, ten, occ>>

(* A clean-up that cancels whatever it finds on the unit when it writes.   *)
OrphanReleaseByUnit(p) ==
    LET u == proc[p].u
        test == BlockingOn(u)
    IN  /\ proc[p].pc = "orphan"
        /\ UnitUnlocked(u)
        /\ occ' = [o \in Occ |-> IF o \in test THEN [occ[o] EXCEPT !.status = "CANCELLED"]
                                 ELSE occ[o]]
        /\ ten' = [t \in Ten |-> IF \E o \in test : occ[o].ten = t
                                 THEN [ten[t] EXCEPT !.status = "CANCELLED"] ELSE ten[t]]
        /\ unit' = IF unit[u] = "RESERVED" THEN [unit EXCEPT ![u] = "AVAILABLE"] ELSE unit
        /\ Done(p)
        /\ UNCHANGED <<now, closed, maint, res, lead>>

-----------------------------------------------------------------------------
(* A transaction that has locked the facility and the unit finds the unit  *)
(* free and saves reservation row r on it.                                 *)
HoldUnit(u, l, r, h, public) ==
    /\ FacilityUnlocked /\ UnitUnlocked(u)
    /\ Operational(u)
    /\ unit[u] = "AVAILABLE"
    /\ NextRow(res, r)
    /\ res' = [res EXCEPT ![r] = [NoReservation EXCEPT !.status = "ACTIVE", !.unit = u,
                                     !.lead = l, !.hold = h, !.public = public,
                                     !.code = IF public THEN h ELSE 0]]
    /\ unit' = [unit EXCEPT ![u] = "RESERVED"]
    /\ lead' = LeadsAt(l, "RESERVED")

CreateLead(l) ==
    /\ lead[l] = "NONE"
    /\ lead' = [lead EXCEPT ![l] = "OPEN"]
    /\ UNCHANGED <<now, closed, unit, maint, res, ten, occ, proc>>

(* Staff booking: the hold is optional. *)
CreateReservation(u, l, r, h) ==
    /\ "create" \in Ops
    /\ l \in Lead => lead[l] # "NONE"
    /\ h \in {now + 1, Never}
    /\ HoldUnit(u, l, r, h, FALSE)
    /\ UNCHANGED <<now, closed, maint, ten, occ, proc>>

(* A booking captured offline and submitted once: a repeated submission    *)
(* meets the unique idempotency key and changes nothing.                   *)
SyncOfflineReservation(u, l, r) ==
    /\ "offline" \in Ops
    /\ l \in Lead /\ lead[l] # "NONE"
    /\ HoldUnit(u, l, r, now + 1, FALSE)
    /\ UNCHANGED <<now, closed, maint, ten, occ, proc>>

(* A website booking, with a lead of its own.  The transaction commits and *)
(* the request then sends the one-time code.                               *)
CreatePublicReservation(p, u, l, r) ==
    /\ Start(p, "public")
    /\ l \in Lead /\ lead[l] = "NONE"
    /\ HoldUnit(u, l, r, now + 1, TRUE)
    /\ proc' = [proc EXCEPT ![p] = [Idle EXCEPT !.pc = "otp", !.r = r, !.u = u]]
    /\ UNCHANGED <<now, closed, maint, ten, occ>>

CodeDelivered(p) ==
    /\ proc[p].pc = "otp"
    /\ res' = [res EXCEPT ![proc[p].r].swept = FALSE]
    /\ Done(p)
    /\ UNCHANGED <<now, closed, unit, maint, ten, occ, lead>>

(* The code could not be sent: a second transaction undoes the booking,    *)
(* without locks and without looking at the rows again.                    *)
CodeFailed(p) ==
    LET r == proc[p].r
        u == proc[p].u
    IN  /\ proc[p].pc = "otp" /\ "otpfail" \in Ops
        /\ UnitUnlocked(u) /\ ReservationUnlocked(r)
        /\ res' = [res EXCEPT ![r].status = "CANCELLED"]
        /\ unit' = [unit EXCEPT ![u] = "AVAILABLE"]
        /\ Done(p)
        /\ UNCHANGED <<now, closed, maint, ten, occ, lead>>

(* The customer enters the code in time: the attempt is counted ...        *)
VerifyRead(p, r, h) ==
    /\ Start(p, "verify")
    /\ res[r].status = "ACTIVE" /\ res[r].public /\ ~ res[r].verified
    /\ res[r].code > now /\ h > now
    /\ proc' = [proc EXCEPT ![p] = [Idle EXCEPT !.pc = "verify", !.r = r, !.hold = res[r].code,
                                                !.to = h]]
    /\ UNCHANGED <<now, closed, unit, maint, res, ten, occ, lead>>

(* ... and a second transaction consumes it and grants the longer hold.    *)
(* It looks at the code, which an expiry withdraws and a renewal replaces, *)
(* and neither at the hold, which staff may have extended meanwhile, nor   *)
(* at the status of the booking.                                           *)
VerifyCommit(p) ==
    LET r == proc[p].r
    IN  /\ proc[p].pc = "verify"
        /\ ReservationUnlocked(r)
        /\ ~ res[r].verified /\ res[r].code = proc[p].hold
        /\ res' = [res EXCEPT ![r].verified = TRUE, ![r].hold = proc[p].to, ![r].code = 0]
        /\ Done(p)
        /\ UNCHANGED <<now, closed, unit, maint, ten, occ, lead>>

(* A new code, by SMS before the contact is verified and by email after:   *)
(* for a hold that still runs, or for one that has lapsed and whose unit   *)
(* is still there to take back under the allocation locks.                 *)
RenewHold(r, h) ==
    LET u == res[r].unit
        lapsed == res[r].status # "ACTIVE" \/ res[r].hold <= now
    IN  /\ "renew" \in Ops
        /\ res[r].status # "NONE" /\ res[r].public
        /\ res[r].ten = NoRow
        /\ UnitUnlocked(u) /\ ReservationUnlocked(r)
        /\ \/ /\ res[r].verified /\ res[r].status = "ACTIVE" /\ res[r].lease = "SIGNED"
              /\ h = res[r].hold
              /\ UNCHANGED <<unit, lead>>
           \/ /\ ~ lapsed /\ FacilityUnlocked /\ Operational(u)
              /\ h = IF res[r].verified THEN res[r].hold ELSE now + 1
              /\ UNCHANGED <<unit, lead>>
           \/ /\ lapsed /\ FacilityUnlocked /\ Operational(u)
              /\ IF res[r].verified THEN h > now ELSE h = now + 1
              /\ res[r].lease = "NONE" /\ res[r].hold <= now
              /\ res[r].status = "ACTIVE" \/ (res[r].status = "CANCELLED" /\ res[r].swept)
              /\ unit[u] = "AVAILABLE" \/ (res[r].status = "ACTIVE" /\ unit[u] = "RESERVED")
              /\ ActiveOn(u) \subseteq {r} /\ BlockingOn(u) = {} /\ ~ InMaintenance(u)
              /\ res[r].lead \in Lead => lead[res[r].lead] \in {"OPEN", "RESERVED"}
              /\ unit' = [unit EXCEPT ![u] = "RESERVED"]
              /\ lead' = LeadsAt(res[r].lead, "RESERVED")
        /\ res' = [res EXCEPT ![r].status = "ACTIVE", ![r].hold = h, ![r].swept = FALSE,
                              ![r].code = IF res[r].verified THEN @ ELSE h]
        /\ UNCHANGED <<now, closed, maint, ten, occ, proc>>

(* The agreement of an online booking, prepared for review with the expiry *)
(* of the hold as it is then, and signed before that, each under the       *)
(* reservation row.                                                        *)
PrepareLease(r) ==
    /\ "sign" \in Ops
    /\ ReservationUnlocked(r)
    /\ res[r].status = "ACTIVE" /\ res[r].public /\ res[r].verified
    /\ res[r].lease # "SIGNED"
    /\ res' = [res EXCEPT ![r].lease = "READY", ![r].ends = res[r].hold]
    /\ UNCHANGED <<now, closed, unit, maint, ten, occ, lead, proc>>

SignLease(r) ==
    /\ "sign" \in Ops
    /\ ReservationUnlocked(r)
    /\ res[r].status = "ACTIVE" /\ res[r].lease = "READY" /\ now <= res[r].ends
    /\ res' = [res EXCEPT ![r].lease = "SIGNED"]
    /\ UNCHANGED <<now, closed, unit, maint, ten, occ, lead, proc>>

-----------------------------------------------------------------------------
(* Staff extend a hold to a later instant h ...                            *)
ExtendRead(p, r, h) ==
    /\ Start(p, "extend")
    /\ res[r].status = "ACTIVE"
    /\ h > now /\ (res[r].hold = Never \/ h > res[r].hold)
    /\ proc' = [proc EXCEPT ![p] = [Idle EXCEPT !.pc = "extend", !.r = r, !.hold = res[r].hold,
                                                !.to = h]]
    /\ UNCHANGED <<now, closed, unit, maint, res, ten, occ, lead>>

(* ... which is refused when the hold or the status has changed since.     *)
ExtendCommit(p) ==
    LET r == proc[p].r
    IN  /\ proc[p].pc = "extend"
        /\ ReservationUnlocked(r)
        /\ res[r].status = "ACTIVE" /\ res[r].hold = proc[p].hold
        /\ res' = [res EXCEPT ![r].hold = proc[p].to]
        /\ Done(p)
        /\ UNCHANGED <<now, closed, unit, maint, ten, occ, lead>>

(* Staff cancel a booking they see as active, and so not yet converted:    *)
(* the tenancy it was converted to, which the code looks for, is none ...  *)
CancelRead(p, r) ==
    /\ Start(p, "cancel")
    /\ res[r].status = "ACTIVE"
    /\ proc' = [proc EXCEPT ![p] = [Idle EXCEPT !.pc = "cancel", !.r = r, !.u = res[r].unit,
                                                !.st = "CANCELLED"]]
    /\ UNCHANGED <<now, closed, unit, maint, res, ten, occ, lead>>

(* ... and the transaction overwrites its status, whatever it is by then. *)
CancelClaim(p) ==
    /\ proc[p].pc = "cancel"
    /\ ReservationUnlocked(proc[p].r)
    /\ proc' = [proc EXCEPT ![p].pc = "claimed"]
    /\ UNCHANGED <<now, closed, unit, maint, res, ten, occ, lead>>

(* Staff expire a booking whose hold has lapsed ... *)
ExpireRead(p, r) ==
    /\ Start(p, "expire")
    /\ res[r].status = "ACTIVE" /\ res[r].hold <= now
    /\ proc' = [proc EXCEPT ![p] = [Idle EXCEPT !.pc = "claim", !.r = r, !.u = res[r].unit,
                                                !.st = "EXPIRED"]]
    /\ UNCHANGED <<now, closed, unit, maint, res, ten, occ, lead>>

(* ... which the transaction claims only if that still holds. *)
ExpireClaim(p) ==
    LET r == proc[p].r
    IN  /\ proc[p].pc = "claim"
        /\ ReservationUnlocked(r)
        /\ res[r].status = "ACTIVE" /\ res[r].hold <= now
        /\ proc' = [proc EXCEPT ![p].pc = "claimed"]
        /\ UNCHANGED <<now, closed, unit, maint, res, ten, occ, lead>>

(* Both then count what else keeps the unit, without locking any of it. *)
CountBlockers(p) ==
    LET r == proc[p].r
        u == proc[p].u
    IN  /\ proc[p].pc = "claimed"
        /\ proc' = [proc EXCEPT ![p].pc = "counted",
                                ![p].flag = ActiveOn(u) \subseteq {r} /\ BlockingOn(u) = {}]
        /\ UNCHANGED <<now, closed, unit, maint, res, ten, occ, lead>>

(* A unit nothing else keeps is released, if it is still marked reserved;  *)
(* the lead of the booking is released too, and the transaction commits.   *)
EndReservation(p) ==
    LET r == proc[p].r
        u == proc[p].u
        ended == [res EXCEPT ![r].status = proc[p].st, ![r].swept = FALSE,
                             ![r].code = IF proc[p].st = "EXPIRED" THEN 0 ELSE @]
    IN  /\ proc[p].pc = "counted"
        /\ proc[p].flag => UnitUnlocked(u)
        /\ res' = ended
        /\ unit' = IF proc[p].flag /\ unit[u] = "RESERVED"
                   THEN [unit EXCEPT ![u] = "AVAILABLE"] ELSE unit
        /\ lead' = LeadsAfterRelease(res[r].lead, ended)
        /\ Done(p)
        /\ UNCHANGED <<now, closed, maint, ten, occ>>

-----------------------------------------------------------------------------
(* An unsigned website hold that has run out. *)
Expirable(r) ==
    /\ res[r].status = "ACTIVE" /\ res[r].public
    /\ res[r].hold <= now
    /\ res[r].lease # "SIGNED"

(* Every website visit first sweeps the lapsed holds: list them, then, per *)
(* hold, lock the unit and the reservation and look again.                 *)
SweepRead(p, r) ==
    /\ Start(p, "sweep")
    /\ Expirable(r)
    /\ proc' = [proc EXCEPT ![p] = [Idle EXCEPT !.pc = "sweep", !.r = r, !.u = res[r].unit]]
    /\ UNCHANGED <<now, closed, unit, maint, res, ten, occ, lead>>

SweepRelease(p) ==
    LET r == proc[p].r
        u == proc[p].u
        ended == [res EXCEPT ![r].status = "CANCELLED", ![r].swept = TRUE, ![r].code = 0]
        status == IF BlockingOn(u) # {} THEN "OCCUPIED"
                  ELSE IF InMaintenance(u) THEN "SERVICE"
                  ELSE IF ActiveOn(u) \ {r} # {} THEN "RESERVED" ELSE "AVAILABLE"
    IN  /\ proc[p].pc = "sweep"
        /\ UnitUnlocked(u) /\ ReservationUnlocked(r)
        /\ Expirable(r)
        /\ res' = ended
        /\ unit' = IF unit[u] = "RESERVED" THEN [unit EXCEPT ![u] = status] ELSE unit
        /\ lead' = LeadsAfterRelease(res[r].lead, ended)
        /\ Done(p)
        /\ UNCHANGED <<now, closed, maint, ten, occ>>

-----------------------------------------------------------------------------
(* The generic reservation endpoint moves an unsigned staff booking to     *)
(* another unit without touching either unit's status ...                  *)
PatchReservation(r, v) ==
    /\ "patch" \in Ops
    /\ res[r].status \notin {"NONE", "CONVERTED"} /\ ~ res[r].public
    /\ res[r].ten = NoRow /\ res[r].lease # "SIGNED"
    /\ FacilityUnlocked /\ UnitUnlocked(v) /\ ReservationUnlocked(r)
    /\ Operational(v) /\ v # res[r].unit
    /\ res' = [res EXCEPT ![r].unit = v]
    /\ UNCHANGED <<now, closed, unit, maint, ten, occ, lead, proc>>

(* ... and deletes one by cancelling it, whatever state it is in. *)
DeleteReservation(r) ==
    /\ "delete" \in Ops
    /\ res[r].status # "NONE" /\ res[r].status # "CANCELLED"
    /\ ReservationUnlocked(r)
    /\ res' = [res EXCEPT ![r].status = "CANCELLED", ![r].swept = FALSE]
    /\ UNCHANGED <<now, closed, unit, maint, ten, occ, lead, proc>>

(* The clean-up of reserved units nothing refers to: read the unit with    *)
(* its holds and occupancies (a simulated move-in whose booking was        *)
(* cancelled may be discarded) ...                                         *)
OrphanRead(p, u) ==
    LET test == {o \in BlockingOn(u) :
                   LET t == occ[o].ten
                   IN  /\ occ[o].status = "PENDING" /\ ten[t].status = "DRAFT"
                       /\ ten[t].sim /\ ten[t].doc # "SIGNED"
                       /\ \E r \in Res : res[r].ten = t /\ res[r].status = "CANCELLED"}
    IN  /\ Start(p, "orphans")
        /\ unit[u] = "RESERVED" /\ ActiveOn(u) = {} /\ BlockingOn(u) = test
        /\ proc' = [proc EXCEPT ![p] = [Idle EXCEPT !.pc = "orphan", !.u = u, !.os = test]]
        /\ UNCHANGED <<now, closed, unit, maint, res, ten, occ, lead>>

(* ... and release it on the strength of that reading. *)
OrphanRelease(p) ==
    LET u == proc[p].u
        test == proc[p].os
    IN  /\ proc[p].pc = "orphan"
        /\ UnitUnlocked(u)
        /\ occ' = [o \in Occ |-> IF o \in test THEN [occ[o] EXCEPT !.status = "CANCELLED"]
                                 ELSE occ[o]]
        /\ ten' = [t \in Ten |->
                     IF \E o \in test : occ[o].ten = t
                     THEN [ten[t] EXCEPT !.status = "CANCELLED",
                             !.doc = IF @ = "SIGNED" THEN @ ELSE "CANCELLED"]
                     ELSE ten[t]]
        /\ unit' = IF unit[u] = "RESERVED" THEN [unit EXCEPT ![u] = "AVAILABLE"] ELSE unit
        /\ Done(p)
        /\ UNCHANGED <<now, closed, maint, res, lead>>

-----------------------------------------------------------------------------
(* Staff open or close a floor, against the state they have on screen. *)
SetFloorOperational(f) ==
    /\ "floor" \in Ops
    /\ FacilityUnlocked
    /\ closed' = IF f \in closed THEN closed \ {f} ELSE closed \cup {f}
    /\ UNCHANGED <<now, unit, maint, res, ten, occ, lead, proc>>

Bookings ==
    \/ \E l \in Lead : CreateLead(l)
    \/ \E u \in Unit, l \in Lead \cup {None}, r \in Res, h \in Holds :
          CreateReservation(u, l, r, h)
    \/ \E u \in Unit, l \in Lead, r \in Res : SyncOfflineReservation(u, l, r)
    \/ \E p \in Proc, u \in Unit, l \in Lead, r \in Res : CreatePublicReservation(p, u, l, r)
    \/ \E p \in Proc : CodeDelivered(p) \/ CodeFailed(p)
    \/ \E r \in Res, h \in Now : RenewHold(r, h)
    \/ \E r \in Res : PrepareLease(r) \/ SignLease(r)
    \/ \E p \in Proc, r \in Res, h \in Now : VerifyRead(p, r, h) \/ ExtendRead(p, r, h)
    \/ \E p \in Proc : VerifyCommit(p)
    \/ \E p \in Proc, r \in Res : CancelRead(p, r) \/ ExpireRead(p, r) \/ SweepRead(p, r)
    \/ \E p \in Proc : ExtendCommit(p) \/ CancelClaim(p) \/ ExpireClaim(p)
    \/ \E p \in Proc : CountBlockers(p) \/ EndReservation(p) \/ SweepRelease(p)
    \/ \E r \in Res, v \in Unit : PatchReservation(r, v)
    \/ \E r \in Res : DeleteReservation(r)
    \/ \E p \in Proc, u \in Unit : OrphanRead(p, u)
    \/ \E p \in Proc : OrphanRelease(p)
    \/ \E f \in Floor : SetFloorOperational(f)
=============================================================================
