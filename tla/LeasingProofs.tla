---------------------------- MODULE LeasingProofs -----------------------------
(***************************************************************************)
(* What holds of the leasing core for any number of units, customers,      *)
(* requests and rows.  Typing, and that a tenancy has one allocation and   *)
(* loses it when it is closed, hold whatever operations are in use.  What  *)
(* is said of bookings, enquiries and the charge of a move-out each leaves *)
(* out the operations, named in its assumption, that write on what they    *)
(* read earlier without looking again.                                     *)
(***************************************************************************)
EXTENDS Leasing, FiniteSetTheorems, TLAPS

-----------------------------------------------------------------------------
(* Setting one column of a well-formed row leaves it well formed.          *)
LEMMA ReservationFields ==
  ASSUME NEW q \in Reservation
  PROVE  /\ \A x \in {"NONE", "ACTIVE", "CONVERTED", "EXPIRED", "CANCELLED"} :
               [q EXCEPT !.status = x] \in Reservation
         /\ \A x \in Unit \cup {None} : [q EXCEPT !.unit = x] \in Reservation
         /\ \A x \in Lead \cup {None} : [q EXCEPT !.lead = x] \in Reservation
         /\ \A x \in Holds : [q EXCEPT !.hold = x] \in Reservation
         /\ \A x \in Holds : [q EXCEPT !.ends = x] \in Reservation
         /\ \A x \in Holds : [q EXCEPT !.code = x] \in Reservation
         /\ \A x \in BOOLEAN : [q EXCEPT !.public = x] \in Reservation
         /\ \A x \in BOOLEAN : [q EXCEPT !.verified = x] \in Reservation
         /\ \A x \in BOOLEAN : [q EXCEPT !.swept = x] \in Reservation
         /\ \A x \in {"NONE", "READY", "SIGNED"} : [q EXCEPT !.lease = x] \in Reservation
         /\ \A x \in Ten \cup {NoRow} : [q EXCEPT !.ten = x] \in Reservation
BY DEF Reservation

(* The same for the row of a tenancy ...                                   *)
LEMMA TenancyFields ==
  ASSUME NEW q \in Tenancy
  PROVE  /\ \A x \in {"NONE", "DRAFT", "ACTIVE", "NOTICE_GIVEN", "CLOSED", "CANCELLED"} :
               [q EXCEPT !.status = x] \in Tenancy
         /\ \A x \in {"NONE", "PENDING", "SENT", "SIGNED", "CANCELLED"} :
               [q EXCEPT !.doc = x] \in Tenancy
         /\ \A x \in BOOLEAN : [q EXCEPT !.sim = x] \in Tenancy
         /\ \A x \in BOOLEAN : [q EXCEPT !.handed = x] \in Tenancy
         /\ \A x \in 0 .. 2 : [q EXCEPT !.moveOuts = x] \in Tenancy
BY DEF Tenancy

(* ... for the status of an occupancy, the one column that is rewritten ... *)
LEMMA OccupancyFields ==
  ASSUME NEW q \in Occupancy
  PROVE  \A x \in {"NONE", "PENDING", "ACTIVE", "NOTICE_GIVEN", "MOVED_OUT", "CANCELLED"} :
            [q EXCEPT !.status = x] \in Occupancy
BY DEF Occupancy

(* ... and for what a request remembers.                                   *)
LEMMA RequestFields ==
  ASSUME NEW q \in Request
  PROVE  /\ \A x \in {"idle", "otp", "verify", "extend", "cancel", "claim", "claimed", "counted",
                      "sweep", "orphan", "movein", "dispatch", "legacy", "transfer", "notice",
                      "moveout", "closing", "maint"} : [q EXCEPT !.pc = x] \in Request
         /\ \A x \in Res \cup {NoRow} : [q EXCEPT !.r = x] \in Request
         /\ \A x \in Ten \cup {NoRow} : [q EXCEPT !.t = x] \in Request
         /\ \A x \in Unit \cup {None} : [q EXCEPT !.u = x] \in Request
         /\ \A x \in SUBSET Occ : [q EXCEPT !.os = x] \in Request
         /\ \A x \in Holds : [q EXCEPT !.hold = x] \in Request
         /\ \A x \in Holds : [q EXCEPT !.to = x] \in Request
         /\ \A x \in {"CANCELLED", "EXPIRED"} : [q EXCEPT !.st = x] \in Request
         /\ \A x \in BOOLEAN : [q EXCEPT !.flag = x] \in Request
         /\ \A x \in [Unit -> UnitStatus \cup {"NONE"}] : [q EXCEPT !.plan = x] \in Request
<1>1. \A x \in {"idle", "otp", "verify", "extend", "cancel", "claim", "claimed", "counted",
                    "sweep", "orphan", "movein", "dispatch", "legacy", "transfer", "notice",
                    "moveout", "closing", "maint"} : [q EXCEPT !.pc = x] \in Request
  <2> TAKE x \in {"idle", "otp", "verify", "extend", "cancel", "claim", "claimed", "counted",
                  "sweep", "orphan", "movein", "dispatch", "legacy", "transfer", "notice",
                  "moveout", "closing", "maint"}
  <2> QED BY Zenon DEF Request
<1>2. /\ \A x \in Res \cup {NoRow} : [q EXCEPT !.r = x] \in Request
      /\ \A x \in Ten \cup {NoRow} : [q EXCEPT !.t = x] \in Request
      /\ \A x \in Unit \cup {None} : [q EXCEPT !.u = x] \in Request
      /\ \A x \in SUBSET Occ : [q EXCEPT !.os = x] \in Request
  BY DEF Request
<1>3. /\ \A x \in Holds : [q EXCEPT !.hold = x] \in Request
      /\ \A x \in Holds : [q EXCEPT !.to = x] \in Request
      /\ \A x \in {"CANCELLED", "EXPIRED"} : [q EXCEPT !.st = x] \in Request
      /\ \A x \in BOOLEAN : [q EXCEPT !.flag = x] \in Request
  BY DEF Request
<1>4. \A x \in [Unit -> UnitStatus \cup {"NONE"}] : [q EXCEPT !.plan = x] \in Request
  BY DEF Request
<1> QED BY <1>1, <1>2, <1>3, <1>4

(* Replacing one row of a table by a well-formed one. *)
LEMMA RowSet ==
  ASSUME NEW D, NEW R, NEW f \in [D -> R], NEW i, NEW q, i \in D => q \in R
  PROVE  [f EXCEPT ![i] = q] \in [D -> R]
OBVIOUS

(* Moving an enquiry to a stage leaves the table of enquiries well formed  *)
(* (LeadsAt: an enquiry that is booked or won) ...                         *)
LEMMA LeadsTyped ==
  ASSUME TypeOK, NEW l, NEW stage \in {"OPEN", "RESERVED", "WON"}
  PROVE  LeadsAt(l, stage) \in [Lead -> {"NONE", "OPEN", "RESERVED", "WON"}]
BY DEF TypeOK, LeadsAt

(* ... and so does letting it go when its booking ends.                    *)
LEMMA ReleasedLeadsTyped ==
  ASSUME TypeOK, NEW l, NEW newRes
  PROVE  LeadsAfterRelease(l, newRes) \in [Lead -> {"NONE", "OPEN", "RESERVED", "WON"}]
BY DEF TypeOK, LeadsAfterRelease

(* Rows not yet inserted, and requests not yet begun, are well formed.     *)
LEMMA EmptyRowsTyped ==
  /\ NoReservation \in Reservation
  /\ NoTenancy \in Tenancy
  /\ NoOccupancy \in Occupancy
  /\ Idle \in Request
BY BoundsAssumption DEF NoReservation, Reservation, NoTenancy, Tenancy, NoOccupancy, Occupancy,
                        Idle, Request, Holds, Never, UnitStatus

(* A request that starts, moves on or ends is well formed.                 *)
LEMMA Requests ==
  ASSUME TypeOK, NEW p
  PROVE  /\ Done(p) => proc' \in [Proc -> Request]
         /\ \A q \in Request : [proc EXCEPT ![p] = q] \in [Proc -> Request]
         /\ p \in Proc => proc[p] \in Request
BY EmptyRowsTyped, RowSet DEF TypeOK, Done

(* What the columns of a well-formed table hold.                           *)
LEMMA RowTypes ==
  ASSUME TypeOK
  PROVE  /\ \A r \in Res : /\ res[r] \in Reservation /\ res[r].unit \in Unit \cup {None}
                           /\ res[r].lead \in Lead \cup {None} /\ res[r].hold \in Holds
                           /\ res[r].code \in Holds
                           /\ res[r].ten \in Ten \cup {NoRow}
         /\ \A t \in Ten : ten[t] \in Tenancy
         /\ \A o \in Occ : /\ occ[o] \in Occupancy /\ occ[o].unit \in Unit \cup {None}
                           /\ occ[o].ten \in Ten \cup {NoRow}
         /\ \A p \in Proc : /\ proc[p] \in Request /\ proc[p].r \in Res \cup {NoRow}
                            /\ proc[p].t \in Ten \cup {NoRow}
                            /\ proc[p].u \in Unit \cup {None}
                            /\ proc[p].os \subseteq Occ
                            /\ proc[p].hold \in Holds /\ proc[p].to \in Holds
                            /\ proc[p].st \in {"CANCELLED", "EXPIRED"}
                            /\ proc[p].flag \in BOOLEAN
                            /\ proc[p].plan \in [Unit -> UnitStatus \cup {"NONE"}]
BY DEF TypeOK, Reservation, Tenancy, Occupancy, Request

-----------------------------------------------------------------------------
(* The empty facility is well typed.                                       *)
LEMMA TypeInit == Init => TypeOK
BY EmptyRowsTyped, BoundsAssumption DEF Init, TypeOK, Now, UnitStatus

(* Every operation on bookings writes well-formed rows.                    *)
LEMMA TypeBookings == TypeOK /\ Bookings => TypeOK'
<1> SUFFICES ASSUME TypeOK, Bookings PROVE TypeOK'
  OBVIOUS
<1> USE BoundsAssumption, NoneAssumption, FloorAssumption
<1>0. /\ now + 1 \in Holds /\ now \in Holds /\ Now \subseteq Holds /\ 0 \in Holds
      /\ Res \subseteq Res \cup {NoRow} /\ Ten \subseteq Ten \cup {NoRow}
      /\ Unit \subseteq Unit \cup {None} /\ \A o \in Occ : {o} \subseteq Occ
  BY DEF TypeOK, Now, Holds, Never
<1>h. ASSUME NEW u \in Unit, NEW l \in Lead \cup {None}, NEW r \in Res, NEW h \in Holds,
             NEW public \in BOOLEAN, HoldUnit(u, l, r, h, public)
      PROVE  /\ res' \in [Res -> Reservation]
             /\ unit' \in [Unit -> UnitStatus]
             /\ lead' \in [Lead -> {"NONE", "OPEN", "RESERVED", "WON"}]
  <2>1. [[[[[[NoReservation EXCEPT !.status = "ACTIVE"] EXCEPT !.unit = u] EXCEPT !.lead = l]
            EXCEPT !.hold = h] EXCEPT !.public = public]
            EXCEPT !.code = IF public THEN h ELSE 0] \in Reservation
    BY <1>0, ReservationFields, EmptyRowsTyped
  <2>2. [NoReservation EXCEPT !.status = "ACTIVE", !.unit = u, !.lead = l, !.hold = h,
                              !.public = public,
                              !.code = IF public THEN h ELSE 0] \in Reservation
    BY <2>1
  <2> QED BY <1>h, <2>2, LeadsTyped DEF HoldUnit, TypeOK, UnitStatus
<1>1. ASSUME NEW l \in Lead, CreateLead(l) PROVE TypeOK'
  BY <1>1, <1>0, Requests DEF CreateLead, TypeOK
<1>2. ASSUME NEW u \in Unit, NEW l \in Lead \cup {None}, NEW r \in Res, NEW h \in Holds, CreateReservation(u, l, r, h)
      PROVE TypeOK'
  BY <1>2, <1>0, Requests, <1>h DEF CreateReservation, TypeOK
<1>3. ASSUME NEW u \in Unit, NEW l \in Lead, NEW r \in Res, SyncOfflineReservation(u, l, r)
      PROVE TypeOK'
  BY <1>3, <1>0, Requests, <1>h DEF SyncOfflineReservation, TypeOK
<1>4. ASSUME NEW p \in Proc, NEW u \in Unit, NEW l \in Lead, NEW r \in Res, CreatePublicReservation(p, u, l, r)
      PROVE TypeOK'
  <2>1. [[[Idle EXCEPT !.pc = "otp"] EXCEPT !.r = r] EXCEPT !.u = u] \in Request
    BY <1>4, <1>0, RowTypes, EmptyRowsTyped, RequestFields
  <2>2. [Idle EXCEPT !.pc = "otp", !.r = r, !.u = u] \in Request
    BY <2>1
  <2> QED BY <1>4, <1>0, <2>2, RowSet, Requests, <1>h DEF CreatePublicReservation, TypeOK
<1>5. ASSUME NEW p \in Proc, CodeDelivered(p) PROVE TypeOK'
  <2>1. proc[p].r \in Res => [res[proc[p].r] EXCEPT !.swept = FALSE] \in Reservation
    BY <1>5, RowTypes, EmptyRowsTyped, ReservationFields
  <2> QED BY <1>5, <1>0, <2>1, RowSet, Requests DEF CodeDelivered, TypeOK
<1>6. ASSUME NEW p \in Proc, CodeFailed(p) PROVE TypeOK'
  <2>1. proc[p].r \in Res => [res[proc[p].r] EXCEPT !.status = "CANCELLED"] \in Reservation
    BY <1>6, RowTypes, EmptyRowsTyped, ReservationFields
  <2> QED BY <1>6, <1>0, <2>1, RowSet, Requests DEF CodeFailed, TypeOK, UnitStatus
<1>7. ASSUME NEW p \in Proc, NEW r \in Res, NEW h \in Now, VerifyRead(p, r, h)
      PROVE TypeOK'
  <2>1. [[[[Idle EXCEPT !.pc = "verify"] EXCEPT !.r = r] EXCEPT !.hold = res[r].hold] EXCEPT !.to = h] \in Request
    BY <1>7, <1>0, RowTypes, EmptyRowsTyped, RequestFields
  <2>2. [Idle EXCEPT !.pc = "verify", !.r = r, !.hold = res[r].hold, !.to = h] \in Request
    BY <2>1
  <2> QED BY <1>7, <1>0, <2>2, RowSet, Requests DEF VerifyRead, TypeOK
<1>8. ASSUME NEW p \in Proc, VerifyCommit(p) PROVE TypeOK'
  <2>1. proc[p].r \in Res => [[[res[proc[p].r] EXCEPT !.verified = TRUE] EXCEPT !.hold = proc[p].to]
                                  EXCEPT !.code = 0] \in Reservation
    BY <1>8, <1>0, RowTypes, EmptyRowsTyped, ReservationFields
  <2>2. proc[p].r \in Res => [res[proc[p].r] EXCEPT !.verified = TRUE, !.hold = proc[p].to,
                                                  !.code = 0] \in Reservation
    BY <2>1
  <2> QED BY <1>8, <1>0, <2>2, RowSet, Requests DEF VerifyCommit, TypeOK
<1>9. ASSUME NEW r \in Res, NEW h \in Now, RenewHold(r, h) PROVE TypeOK'
  <2>1. [[[[res[r] EXCEPT !.status = "ACTIVE"] EXCEPT !.hold = h] EXCEPT !.swept = FALSE]
            EXCEPT !.code = IF res[r].verified THEN res[r].code ELSE h] \in Reservation
    BY <1>9, <1>0, RowTypes, EmptyRowsTyped, ReservationFields
  <2>2. [res[r] EXCEPT !.status = "ACTIVE", !.hold = h, !.swept = FALSE,
         !.code = IF res[r].verified THEN @ ELSE h] \in Reservation
    BY <2>1
  <2>3. unit' \in [Unit -> UnitStatus]
    BY <1>9 DEF RenewHold, TypeOK, UnitStatus
  <2>4. lead' \in [Lead -> {"NONE", "OPEN", "RESERVED", "WON"}]
    BY <1>9, <1>0, LeadsTyped DEF RenewHold, TypeOK
  <2>5. UNCHANGED <<now, closed, maint, ten, occ, proc>>
    BY <1>9 DEF RenewHold
  <2> QED BY <1>9, <1>0, <2>2, <2>3, <2>4, <2>5, RowSet, Requests DEF RenewHold, TypeOK
<1>10. ASSUME NEW r \in Res, PrepareLease(r) PROVE TypeOK'
  <2>1. [[res[r] EXCEPT !.lease = "READY"] EXCEPT !.ends = res[r].hold] \in Reservation
    BY <1>10, <1>0, RowTypes, EmptyRowsTyped, ReservationFields
  <2>2. [res[r] EXCEPT !.lease = "READY", !.ends = res[r].hold] \in Reservation
    BY <2>1
  <2> QED BY <1>10, <1>0, <2>2, RowSet, Requests DEF PrepareLease, TypeOK
<1>11. ASSUME NEW r \in Res, SignLease(r) PROVE TypeOK'
  <2>1. [res[r] EXCEPT !.lease = "SIGNED"] \in Reservation
    BY <1>11, RowTypes, EmptyRowsTyped, ReservationFields
  <2> QED BY <1>11, <1>0, <2>1, RowSet, Requests DEF SignLease, TypeOK
<1>12. ASSUME NEW p \in Proc, NEW r \in Res, NEW h \in Now, ExtendRead(p, r, h)
      PROVE TypeOK'
  <2>1. [[[[Idle EXCEPT !.pc = "extend"] EXCEPT !.r = r] EXCEPT !.hold = res[r].hold] EXCEPT !.to = h] \in Request
    BY <1>12, <1>0, RowTypes, EmptyRowsTyped, RequestFields
  <2>2. [Idle EXCEPT !.pc = "extend", !.r = r, !.hold = res[r].hold, !.to = h] \in Request
    BY <2>1
  <2> QED BY <1>12, <1>0, <2>2, RowSet, Requests DEF ExtendRead, TypeOK
<1>13. ASSUME NEW p \in Proc, ExtendCommit(p) PROVE TypeOK'
  <2>1. proc[p].r \in Res => [res[proc[p].r] EXCEPT !.hold = proc[p].to] \in Reservation
    BY <1>13, RowTypes, EmptyRowsTyped, ReservationFields
  <2> QED BY <1>13, <1>0, <2>1, RowSet, Requests DEF ExtendCommit, TypeOK
<1>14. ASSUME NEW p \in Proc, NEW r \in Res, CancelRead(p, r) PROVE TypeOK'
  <2>1. [[[[Idle EXCEPT !.pc = "cancel"] EXCEPT !.r = r] EXCEPT !.u = res[r].unit] EXCEPT !.st = "CANCELLED"] \in Request
    BY <1>14, <1>0, RowTypes, EmptyRowsTyped, RequestFields
  <2>2. [Idle EXCEPT !.pc = "cancel", !.r = r, !.u = res[r].unit, !.st = "CANCELLED"] \in Request
    BY <2>1
  <2> QED BY <1>14, <1>0, <2>2, RowSet, Requests DEF CancelRead, TypeOK
<1>15. ASSUME NEW p \in Proc, CancelClaim(p) PROVE TypeOK'
  <2>1. [proc[p] EXCEPT !.pc = "claimed"] \in Request
    BY <1>15, RowTypes, EmptyRowsTyped, RequestFields
  <2> QED BY <1>15, <1>0, <2>1, RowSet, Requests DEF CancelClaim, TypeOK
<1>16. ASSUME NEW p \in Proc, NEW r \in Res, ExpireRead(p, r) PROVE TypeOK'
  <2>1. [[[[Idle EXCEPT !.pc = "claim"] EXCEPT !.r = r] EXCEPT !.u = res[r].unit] EXCEPT !.st = "EXPIRED"] \in Request
    BY <1>16, <1>0, RowTypes, EmptyRowsTyped, RequestFields
  <2>2. [Idle EXCEPT !.pc = "claim", !.r = r, !.u = res[r].unit, !.st = "EXPIRED"] \in Request
    BY <2>1
  <2> QED BY <1>16, <1>0, <2>2, RowSet, Requests DEF ExpireRead, TypeOK
<1>17. ASSUME NEW p \in Proc, ExpireClaim(p) PROVE TypeOK'
  <2>1. [proc[p] EXCEPT !.pc = "claimed"] \in Request
    BY <1>17, RowTypes, EmptyRowsTyped, RequestFields
  <2> QED BY <1>17, <1>0, <2>1, RowSet, Requests DEF ExpireClaim, TypeOK
<1>18. ASSUME NEW p \in Proc, CountBlockers(p) PROVE TypeOK'
  <2>1. \A b \in BOOLEAN : [[proc[p] EXCEPT !.pc = "counted"] EXCEPT !.flag = b] \in Request
    BY RowTypes, RequestFields
  <2>2. PICK b \in BOOLEAN : proc' = [proc EXCEPT ![p].pc = "counted", ![p].flag = b]
    BY <1>18, Zenon DEF CountBlockers
  <2>3. [proc EXCEPT ![p] = [[proc[p] EXCEPT !.pc = "counted"] EXCEPT !.flag = b]] \in [Proc -> Request]
    BY <2>1, Requests
  <2>4. proc' = [proc EXCEPT ![p] = [[proc[p] EXCEPT !.pc = "counted"] EXCEPT !.flag = b]]
    BY <2>2 DEF TypeOK
  <2>5. UNCHANGED <<now, closed, unit, maint, res, ten, occ, lead>>
    BY <1>18 DEF CountBlockers
  <2> QED BY <2>3, <2>4, <2>5 DEF TypeOK
<1>19. ASSUME NEW p \in Proc, EndReservation(p) PROVE TypeOK'
  <2>1. proc[p].r \in Res => [[[res[proc[p].r] EXCEPT !.status = proc[p].st] EXCEPT !.swept = FALSE]
                  EXCEPT !.code = IF proc[p].st = "EXPIRED" THEN 0 ELSE res[proc[p].r].code] \in Reservation
    BY <1>19, <1>0, RowTypes, EmptyRowsTyped, ReservationFields
  <2>2. proc[p].r \in Res => [res[proc[p].r] EXCEPT !.status = proc[p].st, !.swept = FALSE,
                              !.code = IF proc[p].st = "EXPIRED" THEN 0 ELSE @] \in Reservation
    BY <2>1
  <2> QED BY <1>19, <1>0, <2>2, RowSet, Requests, ReleasedLeadsTyped DEF EndReservation, TypeOK, UnitStatus
<1>20. ASSUME NEW p \in Proc, NEW r \in Res, SweepRead(p, r) PROVE TypeOK'
  <2>1. [[[Idle EXCEPT !.pc = "sweep"] EXCEPT !.r = r] EXCEPT !.u = res[r].unit] \in Request
    BY <1>20, <1>0, RowTypes, EmptyRowsTyped, RequestFields
  <2>2. [Idle EXCEPT !.pc = "sweep", !.r = r, !.u = res[r].unit] \in Request
    BY <2>1
  <2> QED BY <1>20, <1>0, <2>2, RowSet, Requests DEF SweepRead, TypeOK
<1>21. ASSUME NEW p \in Proc, SweepRelease(p) PROVE TypeOK'
  <2>1. proc[p].r \in Res => [[[res[proc[p].r] EXCEPT !.status = "CANCELLED"] EXCEPT !.swept = TRUE]
                                  EXCEPT !.code = 0] \in Reservation
    BY <1>21, <1>0, RowTypes, EmptyRowsTyped, ReservationFields
  <2>2. proc[p].r \in Res => [res[proc[p].r] EXCEPT !.status = "CANCELLED", !.swept = TRUE, !.code = 0] \in Reservation
    BY <2>1
  <2> QED BY <1>21, <1>0, <2>2, RowSet, Requests, ReleasedLeadsTyped DEF SweepRelease, TypeOK, UnitStatus
<1>22. ASSUME NEW r \in Res, NEW v \in Unit, PatchReservation(r, v) PROVE TypeOK'
  <2>1. [res[r] EXCEPT !.unit = v] \in Reservation
    BY <1>22, RowTypes, EmptyRowsTyped, ReservationFields
  <2> QED BY <1>22, <1>0, <2>1, RowSet, Requests DEF PatchReservation, TypeOK
<1>23. ASSUME NEW r \in Res, DeleteReservation(r) PROVE TypeOK'
  <2>1. [[res[r] EXCEPT !.status = "CANCELLED"] EXCEPT !.swept = FALSE] \in Reservation
    BY <1>23, <1>0, RowTypes, EmptyRowsTyped, ReservationFields
  <2>2. [res[r] EXCEPT !.status = "CANCELLED", !.swept = FALSE] \in Reservation
    BY <2>1
  <2> QED BY <1>23, <1>0, <2>2, RowSet, Requests DEF DeleteReservation, TypeOK
<1>24. ASSUME NEW p \in Proc, NEW u \in Unit, OrphanRead(p, u) PROVE TypeOK'
  <2>1. \A os \in SUBSET Occ : [[[Idle EXCEPT !.pc = "orphan"] EXCEPT !.u = u] EXCEPT !.os = os] \in Request
    BY <1>0, EmptyRowsTyped, RequestFields
  <2>2. \A os \in SUBSET Occ : [Idle EXCEPT !.pc = "orphan", !.u = u, !.os = os] \in Request
    BY <2>1
  <2> QED BY <1>24, <1>0, <2>1, <2>2, RowSet, Requests DEF OrphanRead, TypeOK, BlockingOn
<1>25. ASSUME NEW p \in Proc, OrphanRelease(p) PROVE TypeOK'
  <2>1. \A o \in Occ : [occ[o] EXCEPT !.status = "CANCELLED"] \in Occupancy
    BY RowTypes, OccupancyFields
  <2>2. \A t \in Ten : \A d \in {"NONE", "PENDING", "SENT", "SIGNED", "CANCELLED"} :
         [[ten[t] EXCEPT !.status = "CANCELLED"] EXCEPT !.doc = d] \in Tenancy
    BY RowTypes, TenancyFields
  <2>3. \A t \in Ten : ten[t].doc \in {"NONE", "PENDING", "SENT", "SIGNED", "CANCELLED"}
    BY RowTypes DEF Tenancy
  <2>4. \A t \in Ten : [ten[t] EXCEPT !.status = "CANCELLED", !.doc = IF @ = "SIGNED" THEN @ ELSE "CANCELLED"] \in Tenancy
    BY <2>2, <2>3
  <2>5. occ' \in [Occ -> Occupancy]
    BY <1>25, <2>1, RowTypes DEF OrphanRelease, TypeOK
  <2>6. ten' \in [Ten -> Tenancy]
    BY <1>25, <2>4, RowTypes DEF OrphanRelease, TypeOK
  <2>7. unit' \in [Unit -> UnitStatus]
    BY <1>25 DEF OrphanRelease, TypeOK, UnitStatus
  <2>8. Done(p) /\ UNCHANGED <<now, closed, maint, res, lead>>
    BY <1>25 DEF OrphanRelease
  <2> QED BY <1>25, <1>0, <2>1, <2>2, <2>3, <2>4, <2>5, <2>6, <2>7, <2>8, RowSet, Requests DEF OrphanRelease, TypeOK
<1>26. ASSUME NEW f \in Floor, SetFloorOperational(f) PROVE TypeOK'
  BY <1>26, <1>0, Requests DEF SetFloorOperational, TypeOK
<1> QED
  BY <1>1, <1>2, <1>3, <1>4, <1>5, <1>6, <1>7, <1>8, <1>9, <1>10, <1>11, <1>12, <1>13, <1>14, <1>15, <1>16, <1>17, <1>18, <1>19, <1>20, <1>21, <1>22, <1>23, <1>24, <1>25, <1>26 DEF Bookings

(* Every operation on tenancies and maintenance writes well-formed rows.   *)
LEMMA TypeTenancies == TypeOK /\ Tenancies => TypeOK'
<1> SUFFICES ASSUME TypeOK, Tenancies PROVE TypeOK'
  OBVIOUS
<1> USE BoundsAssumption, NoneAssumption, FloorAssumption
<1>0. /\ now + 1 \in Holds /\ now \in Holds /\ Now \subseteq Holds
      /\ Res \subseteq Res \cup {NoRow} /\ Ten \subseteq Ten \cup {NoRow}
      /\ Unit \subseteq Unit \cup {None} /\ \A o \in Occ : {o} \subseteq Occ
  BY DEF TypeOK, Now, Holds, Never
<1>1. ASSUME NEW p \in Proc, NEW u \in Unit, NEW r \in Res \cup {NoRow}, NEW simulation \in BOOLEAN, MoveInCheck(p, u, r, simulation)
      PROVE TypeOK'
  <2>1. [[[[Idle EXCEPT !.pc = "movein"] EXCEPT !.r = r] EXCEPT !.u = u] EXCEPT !.flag = simulation] \in Request
    BY <1>1, <1>0, RowTypes, EmptyRowsTyped, RequestFields
  <2>2. [Idle EXCEPT !.pc = "movein", !.r = r, !.u = u, !.flag = simulation] \in Request
    BY <2>1
  <2> QED BY <1>1, <1>0, <2>2, RowSet, Requests DEF MoveInCheck, TypeOK
<1>2. ASSUME NEW p \in Proc, NEW t \in Ten, NEW o \in Occ, MoveInCommit(p, t, o)
      PROVE TypeOK'
  <2>1. [[[NoTenancy EXCEPT !.status = "DRAFT"] EXCEPT !.doc = "PENDING"] EXCEPT !.sim = proc[p].flag] \in Tenancy
    BY <1>2, <1>0, RowTypes, EmptyRowsTyped, TenancyFields
  <2>2. [NoTenancy EXCEPT !.status = "DRAFT", !.doc = "PENDING", !.sim = proc[p].flag] \in Tenancy
    BY <2>1
  <2>3. [status |-> "PENDING", unit |-> proc[p].u, ten |-> t] \in Occupancy
    BY RowTypes DEF Occupancy
  <2>4. \A q \in Res : [[res[q] EXCEPT !.status = "CONVERTED"] EXCEPT !.ten = t] \in Reservation
    BY <1>0, RowTypes, ReservationFields
  <2>5. \A q \in Res : [res[q] EXCEPT !.status = "CONVERTED", !.ten = t] \in Reservation
    BY <2>4
  <2>6. res' \in [Res -> Reservation]
    BY <1>2, <2>5, RowTypes DEF MoveInCommit
  <2>7. ten' \in [Ten -> Tenancy] /\ occ' \in [Occ -> Occupancy]
    BY <1>2, <2>2, <2>3, RowSet DEF MoveInCommit, TypeOK
  <2>8. unit' \in [Unit -> UnitStatus]
    BY <1>2 DEF MoveInCommit, TypeOK, UnitStatus
  <2>9. Done(p) /\ UNCHANGED <<now, closed, maint, lead>>
    BY <1>2 DEF MoveInCommit
  <2> QED BY <2>6, <2>7, <2>8, <2>9, Requests DEF TypeOK
<1>3. ASSUME NEW p \in Proc, NEW t \in Ten, DispatchRead(p, t) PROVE TypeOK'
  <2>1. [[Idle EXCEPT !.pc = "dispatch"] EXCEPT !.t = t] \in Request
    BY <1>3, <1>0, RowTypes, EmptyRowsTyped, RequestFields
  <2>2. [Idle EXCEPT !.pc = "dispatch", !.t = t] \in Request
    BY <2>1
  <2> QED BY <1>3, <1>0, <2>2, RowSet, Requests DEF DispatchRead, TypeOK
<1>4. ASSUME NEW p \in Proc, DispatchAttach(p) PROVE TypeOK'
  <2>1. proc[p].t \in Ten => [ten[proc[p].t] EXCEPT !.doc = "SENT"] \in Tenancy
    BY <1>4, RowTypes, EmptyRowsTyped, TenancyFields
  <2> QED BY <1>4, <1>0, <2>1, RowSet, Requests DEF DispatchAttach, TypeOK
<1>5. ASSUME NEW t \in Ten, CompleteEnvelope(t) PROVE TypeOK'
  <2>1. [ten[t] EXCEPT !.doc = "SIGNED"] \in Tenancy
    BY <1>5, RowTypes, EmptyRowsTyped, TenancyFields
  <2> QED BY <1>5, <1>0, <2>1, RowSet, Requests DEF CompleteEnvelope, TypeOK
<1>6. ASSUME NEW r \in Res, NEW t \in Ten, NEW o \in Occ, ConfirmMoveIn(r, t, o)
      PROVE TypeOK'
  <2>1. [[[NoTenancy EXCEPT !.status = "ACTIVE"] EXCEPT !.doc = "SIGNED"] EXCEPT !.handed = TRUE] \in Tenancy
    BY <1>6, <1>0, RowTypes, EmptyRowsTyped, TenancyFields
  <2>2. [NoTenancy EXCEPT !.status = "ACTIVE", !.doc = "SIGNED", !.handed = TRUE] \in Tenancy
    BY <2>1
  <2>3. [[res[r] EXCEPT !.status = "CONVERTED"] EXCEPT !.ten = t] \in Reservation
    BY <1>6, <1>0, RowTypes, EmptyRowsTyped, ReservationFields
  <2>4. [res[r] EXCEPT !.status = "CONVERTED", !.ten = t] \in Reservation
    BY <2>3
  <2>5. [status |-> "ACTIVE", unit |-> res[r].unit, ten |-> t] \in Occupancy
    BY RowTypes DEF Occupancy
  <2>6. ten' \in [Ten -> Tenancy] /\ occ' \in [Occ -> Occupancy]
    BY <1>6, <2>2, <2>5, RowSet DEF ConfirmMoveIn, TypeOK
  <2>7. res' \in [Res -> Reservation]
    BY <1>6, <2>4, RowSet DEF ConfirmMoveIn, TypeOK
  <2>8. unit' \in [Unit -> UnitStatus]
    BY <1>6 DEF ConfirmMoveIn, TypeOK, UnitStatus
  <2>9. lead' \in [Lead -> {"NONE", "OPEN", "RESERVED", "WON"}]
    BY <1>6, LeadsTyped DEF ConfirmMoveIn
  <2>10. UNCHANGED <<now, closed, maint, proc>>
    BY <1>6 DEF ConfirmMoveIn
  <2> QED BY <2>6, <2>7, <2>8, <2>9, <2>10 DEF TypeOK
<1>7. ASSUME NEW p \in Proc, NEW t \in Ten, NEW o \in Occ, LegacyRead(p, t, o)
      PROVE TypeOK'
  <2>1. [[[Idle EXCEPT !.pc = "legacy"] EXCEPT !.t = t] EXCEPT !.os = {o}] \in Request
    BY <1>7, <1>0, RowTypes, EmptyRowsTyped, RequestFields
  <2>2. [Idle EXCEPT !.pc = "legacy", !.t = t, !.os = {o}] \in Request
    BY <2>1
  <2> QED BY <1>7, <1>0, <2>2, RowSet, Requests DEF LegacyRead, TypeOK
<1>8. ASSUME NEW p \in Proc, NEW o \in Occ, LegacyCommit(p, o) PROVE TypeOK'
  <2>1. [occ[o] EXCEPT !.status = "ACTIVE"] \in Occupancy
    BY <1>8, RowTypes, EmptyRowsTyped, OccupancyFields
  <2>2. proc[p].t \in Ten => [[ten[proc[p].t] EXCEPT !.status = "ACTIVE"] EXCEPT !.handed = TRUE] \in Tenancy
    BY <1>8, <1>0, RowTypes, EmptyRowsTyped, TenancyFields
  <2>3. proc[p].t \in Ten => [ten[proc[p].t] EXCEPT !.status = "ACTIVE", !.handed = TRUE] \in Tenancy
    BY <2>2
  <2>4. ten' \in [Ten -> Tenancy] /\ occ' \in [Occ -> Occupancy]
    BY <1>8, <2>1, <2>3, RowSet DEF LegacyCommit, TypeOK
  <2>5. unit' \in [Unit -> UnitStatus]
    BY <1>8 DEF LegacyCommit, TypeOK, UnitStatus
  <2>6. lead' \in [Lead -> {"NONE", "OPEN", "RESERVED", "WON"}]
    BY <1>8 DEF LegacyCommit, TypeOK
  <2>7. Done(p) /\ UNCHANGED <<now, closed, maint, res>>
    BY <1>8 DEF LegacyCommit
  <2> QED BY <2>4, <2>5, <2>6, <2>7, Requests DEF TypeOK
<1>9. ASSUME NEW p \in Proc, NEW t \in Ten, NEW v \in Unit, NEW o \in Occ, TransferRead(p, t, v, o)
      PROVE TypeOK'
  <2>1. [[[[Idle EXCEPT !.pc = "transfer"] EXCEPT !.t = t] EXCEPT !.u = v] EXCEPT !.os = {o}] \in Request
    BY <1>9, <1>0, RowTypes, EmptyRowsTyped, RequestFields
  <2>2. [Idle EXCEPT !.pc = "transfer", !.t = t, !.u = v, !.os = {o}] \in Request
    BY <2>1
  <2> QED BY <1>9, <1>0, <2>2, RowSet, Requests DEF TransferRead, TypeOK
<1>10. ASSUME NEW p \in Proc, NEW o \in Occ, NEW n \in Occ, TransferCommit(p, o, n)
      PROVE TypeOK'
  <2>1. proc[p].t \in Ten => [ten[proc[p].t] EXCEPT !.status = "ACTIVE"] \in Tenancy
    BY <1>10, RowTypes, EmptyRowsTyped, TenancyFields
  <2>2. [occ[o] EXCEPT !.status = "MOVED_OUT"] \in Occupancy
    BY <1>10, RowTypes, EmptyRowsTyped, OccupancyFields
  <2>3. [status |-> "ACTIVE", unit |-> proc[p].u, ten |-> proc[p].t] \in Occupancy
    BY RowTypes DEF Occupancy
  <2>4. [[occ EXCEPT ![o] = [occ[o] EXCEPT !.status = "MOVED_OUT"]] EXCEPT
         ![n] = [status |-> "ACTIVE", unit |-> proc[p].u, ten |-> proc[p].t]] \in [Occ -> Occupancy]
    BY <2>2, <2>3, RowSet DEF TypeOK
  <2>5. occ' \in [Occ -> Occupancy]
    BY <1>10, <2>4 DEF TransferCommit
  <2>6. ten' \in [Ten -> Tenancy]
    BY <1>10, <2>1, RowSet DEF TransferCommit, TypeOK
  <2>7. unit' \in [Unit -> UnitStatus]
    BY <1>10 DEF TransferCommit, TypeOK, UnitStatus
  <2>8. Done(p) /\ UNCHANGED <<now, closed, maint, res, lead>>
    BY <1>10 DEF TransferCommit
  <2> QED BY <2>5, <2>6, <2>7, <2>8, Requests DEF TypeOK
<1>11. ASSUME NEW p \in Proc, NEW t \in Ten, NoticeRead(p, t) PROVE TypeOK'
  <2>1. [[Idle EXCEPT !.pc = "notice"] EXCEPT !.t = t] \in Request
    BY <1>11, <1>0, RowTypes, EmptyRowsTyped, RequestFields
  <2>2. [Idle EXCEPT !.pc = "notice", !.t = t] \in Request
    BY <2>1
  <2> QED BY <1>11, <1>0, <2>2, RowSet, Requests DEF NoticeRead, TypeOK
<1>12. ASSUME NEW p \in Proc, NoticeCommit(p) PROVE TypeOK'
  <2>1. proc[p].t \in Ten => [ten[proc[p].t] EXCEPT !.status = "NOTICE_GIVEN"] \in Tenancy
    BY <1>12, RowTypes, EmptyRowsTyped, TenancyFields
  <2>2. \A o \in Occ : [occ[o] EXCEPT !.status = "NOTICE_GIVEN"] \in Occupancy
    BY RowTypes, OccupancyFields
  <2>3. occ' \in [Occ -> Occupancy]
    BY <1>12, <2>2, RowTypes DEF NoticeCommit
  <2>4. ten' \in [Ten -> Tenancy]
    BY <1>12, <2>1, RowSet DEF NoticeCommit, TypeOK
  <2>5. Done(p) /\ UNCHANGED <<now, closed, unit, maint, res, lead>>
    BY <1>12 DEF NoticeCommit
  <2> QED BY <2>3, <2>4, <2>5, Requests DEF TypeOK
<1>13. ASSUME NEW p \in Proc, NEW t \in Ten, MoveOutRead(p, t) PROVE TypeOK'
  <2>0. OccupanciesOf(t, Living) \in SUBSET Occ
    BY DEF OccupanciesOf
  <2>1. [[[Idle EXCEPT !.pc = "moveout"] EXCEPT !.t = t] EXCEPT !.os = OccupanciesOf(t, Living)] \in Request
    BY <2>0, <1>0, RowTypes, EmptyRowsTyped, RequestFields
  <2>2. [Idle EXCEPT !.pc = "moveout", !.t = t, !.os = OccupanciesOf(t, Living)] \in Request
    BY <2>1
  <2> QED BY <1>13, <1>0, <2>2, RowSet, Requests DEF MoveOutRead, TypeOK
<1>14. ASSUME NEW p \in Proc, MoveOutClaim(p) PROVE TypeOK'
  <2>1. OccupanciesOf(proc[p].t, Living) \in SUBSET Occ
    BY DEF OccupanciesOf
  <2>2. PICK plan \in [Unit -> UnitStatus \cup {"NONE"}] :
         proc' = [proc EXCEPT ![p].pc = "closing", ![p].os = OccupanciesOf(proc[p].t, Living), ![p].plan = plan]
    BY <1>14 DEF MoveOutClaim, UnitStatus
  <2>3. [[[proc[p] EXCEPT !.pc = "closing"] EXCEPT !.os = OccupanciesOf(proc[p].t, Living)] EXCEPT !.plan = plan] \in Request
    BY <2>1, RowTypes, RequestFields
  <2>4. proc' = [proc EXCEPT ![p] = [[[proc[p] EXCEPT !.pc = "closing"] EXCEPT !.os = OccupanciesOf(proc[p].t, Living)] EXCEPT !.plan = plan]]
    BY <2>2 DEF TypeOK
  <2>5. UNCHANGED <<now, closed, unit, maint, res, ten, occ, lead>>
    BY <1>14 DEF MoveOutClaim
  <2> QED BY <2>3, <2>4, <2>5, Requests DEF TypeOK
<1>15. ASSUME NEW p \in Proc, MoveOutCommit(p) PROVE TypeOK'
  <2>1. \A o \in Occ : [occ[o] EXCEPT !.status = "MOVED_OUT"] \in Occupancy
    BY RowTypes, OccupancyFields
  <2>2. occ' \in [Occ -> Occupancy]
    BY <1>15, <2>1, RowTypes DEF MoveOutCommit
  <2>3. \A k \in 0 .. 2 : proc[p].t \in Ten => [[ten[proc[p].t] EXCEPT !.status = "CLOSED"] EXCEPT !.moveOuts = k] \in Tenancy
    BY RowTypes, TenancyFields
  <2>4. proc[p].t \in Ten => (IF ten[proc[p].t].moveOuts = 2 THEN 2 ELSE ten[proc[p].t].moveOuts + 1) \in 0 .. 2
    BY RowTypes DEF Tenancy
  <2>5. proc[p].t \in Ten =>
         [[ten[proc[p].t] EXCEPT !.status = "CLOSED"] EXCEPT
            !.moveOuts = IF ten[proc[p].t].moveOuts = 2 THEN 2 ELSE ten[proc[p].t].moveOuts + 1] \in Tenancy
    BY <2>3, <2>4
  <2>6. ten' \in [Ten -> Tenancy]
    <3>1. CASE proc[p].t \in Ten
      BY <1>15, <2>5, <3>1, RowSet DEF MoveOutCommit, TypeOK
    <3>2. CASE proc[p].t \notin Ten
      BY <1>15, <3>2 DEF MoveOutCommit, TypeOK
    <3> QED BY <3>1, <3>2
  <2>7. unit' \in [Unit -> UnitStatus]
    BY <1>15, RowTypes DEF MoveOutCommit, TypeOK
  <2>8. Done(p) /\ UNCHANGED <<now, closed, maint, res, lead>>
    BY <1>15 DEF MoveOutCommit
  <2> QED BY <2>2, <2>6, <2>7, <2>8, Requests DEF TypeOK
<1>16. ASSUME NEW u \in Unit, NEW m \in Maint, MaintenanceClaim(u, m) PROVE TypeOK'
  BY <1>16, <1>0, Requests DEF MaintenanceClaim, TypeOK, UnitStatus
<1>17. ASSUME NEW p \in Proc, NEW u \in Unit, MaintenanceRead(p, u) PROVE TypeOK'
  <2>1. [[Idle EXCEPT !.pc = "maint"] EXCEPT !.u = u] \in Request
    BY <1>17, <1>0, RowTypes, EmptyRowsTyped, RequestFields
  <2>2. [Idle EXCEPT !.pc = "maint", !.u = u] \in Request
    BY <2>1
  <2> QED BY <1>17, <1>0, <2>2, RowSet, Requests DEF MaintenanceRead, TypeOK
<1>18. ASSUME NEW p \in Proc, NEW m \in Maint, MaintenanceOpen(p, m) PROVE TypeOK'
  BY <1>18, <1>0, Requests DEF MaintenanceOpen, TypeOK
<1>19. ASSUME NEW u \in Unit, NEW m \in Maint, NEW status \in {"OPEN", "ENDED"}, MaintenanceUpdate(u, m, status)
      PROVE TypeOK'
  BY <1>19, <1>0, Requests DEF MaintenanceUpdate, TypeOK, UnitStatus
<1>20. ASSUME NEW u \in Unit, NEW status \in {"AVAILABLE", "SERVICE", "UNAVAILABLE"}, EditUnit(u, status)
      PROVE TypeOK'
  BY <1>20, <1>0, Requests DEF EditUnit, TypeOK, UnitStatus
<1>21. ASSUME NEW u \in Unit, RetireUnit(u) PROVE TypeOK'
  BY <1>21, <1>0, Requests DEF RetireUnit, TypeOK, UnitStatus
<1> QED
  BY <1>1, <1>2, <1>3, <1>4, <1>5, <1>6, <1>7, <1>8, <1>9, <1>10, <1>11, <1>12, <1>13, <1>14, <1>15, <1>16, <1>17, <1>18, <1>19, <1>20, <1>21 DEF Tenancies

(* Every row the program writes has a status, references and instants of   *)
(* its type, whatever the operations and however they interleave.          *)
THEOREM Typing == Spec => []TypeOK
<1>1. TypeOK /\ [Next]_vars => TypeOK'
  <2> SUFFICES ASSUME TypeOK, [Next]_vars PROVE TypeOK'
    OBVIOUS
  <2>1. ASSUME NEW p \in Proc, Rollback(p) PROVE TypeOK'
    BY <2>1, Requests DEF Rollback, TypeOK
  <2>2. CASE Tick
    BY <2>2, BoundsAssumption DEF Tick, TypeOK, Now
  <2>3. CASE UNCHANGED vars
    BY <2>3 DEF vars, TypeOK
  <2> QED BY <2>1, <2>2, <2>3, TypeBookings, TypeTenancies DEF Next
<1> QED BY <1>1, TypeInit, PTL DEF Spec

-----------------------------------------------------------------------------
(* Bookings.  A request ends a booking between its claim and its commit,   *)
(* and keeps the row locked; then the booking is active and the request is *)
(* the only one to end it.                                                 *)
Ending(q) == proc[q].pc \in {"claimed", "counted"}
NothingOverwrites == {"cancel", "otpfail", "delete"} \cap Ops = {}

EndingsClaimed ==
    /\ \A q \in Proc : Ending(q) => res[proc[q].r].status = "ACTIVE"
    /\ \A q, s \in Proc : Ending(q) /\ Ending(s) /\ proc[q].r = proc[s].r => q = s
    /\ \A q \in Proc : proc[q].pc # "cancel"
    /\ \A q \in Proc : proc[q].pc \in {"claim", "claimed", "counted"} =>
          proc[q].r \in Res /\ proc[q].st = "EXPIRED"

BookingInv == EndingsClaimed /\ ConversionStands /\ SignedSurvivesSweep

(* What a step may do to a booking: leave it at its status (a signature    *)
(* comes only on an active one), begin or renew it, convert it while       *)
(* nobody ends it, or end it, by its claim or as an unsigned lapsed hold.  *)
Held(r) == \E q \in Proc : Ending(q) /\ proc[q].r = r
Stays(r) == /\ res'[r].status = res[r].status /\ res'[r].ten = res[r].ten
            /\ res'[r].lease = "SIGNED" => res[r].lease = "SIGNED" \/ res[r].status = "ACTIVE"
Begins(r) == res'[r].status = "ACTIVE" /\ res'[r].ten = NoRow
Converts(r) == res'[r].status = "CONVERTED" /\ res'[r].ten # NoRow /\ ~ Held(r)
Ends(r) == /\ res[r].status = "ACTIVE" /\ res'[r].ten = res[r].ten /\ ~ Held(r)'
           /\ \/ res'[r].status = "EXPIRED"
              \/ res'[r].status = "CANCELLED" /\ res'[r].lease # "SIGNED"
BookingStep == \A r \in Res : Stays(r) \/ Begins(r) \/ Converts(r) \/ Ends(r)

(* No request comes to end a booking. *)
NobodyEnds ==
    \A q \in Proc :
       /\ proc'[q].pc # "cancel"
       /\ proc'[q].pc = "claim" => proc'[q].r \in Res /\ proc'[q].st = "EXPIRED"
       /\ Ending(q)' => Ending(q) /\ proc'[q].r = proc[q].r /\ proc'[q].st = proc[q].st

(* A step that does no more than that to any booking, and in which no      *)
(* request comes to end one, keeps it all.                                 *)
LEMMA BookingsKept ==
  ASSUME BookingInv, BookingStep, NobodyEnds
  PROVE  BookingInv'
<1>1. ASSUME NEW q \in Proc, Ending(q)'
      PROVE  res'[proc'[q].r].status = "ACTIVE"
  <2>1. Ending(q) /\ proc'[q].r = proc[q].r
    BY <1>1 DEF NobodyEnds
  <2>2. proc[q].r \in Res /\ Held(proc[q].r) /\ Held(proc[q].r)' /\ res[proc[q].r].status = "ACTIVE"
    BY <1>1, <2>1 DEF Ending, Held, BookingInv, EndingsClaimed
  <2> QED BY <2>1, <2>2 DEF BookingStep, Stays, Begins, Converts, Ends
<1>2. \A q, s \in Proc : Ending(q)' /\ Ending(s)' /\ proc'[q].r = proc'[s].r => q = s
  BY DEF NobodyEnds, BookingInv, EndingsClaimed
<1>3. \A q \in Proc : /\ proc'[q].pc # "cancel"
                      /\ proc'[q].pc \in {"claim", "claimed", "counted"} =>
                            proc'[q].r \in Res /\ proc'[q].st = "EXPIRED"
  BY DEF NobodyEnds, BookingInv, EndingsClaimed, Ending
<1>4. EndingsClaimed'
  BY <1>1, <1>2, <1>3 DEF EndingsClaimed
<1>5. ConversionStands'
  BY DEF BookingInv, ConversionStands, BookingStep, Stays, Begins, Converts, Ends
<1>6. SignedSurvivesSweep'
  BY DEF BookingInv, SignedSurvivesSweep, BookingStep, Stays, Begins, Converts, Ends
<1> QED BY <1>4, <1>5, <1>6 DEF BookingInv

(* A step that writes no booking, one in which no request moves, one in    *)
(* which a request begins something else, and one in which it is done.     *)
LEMMA SameBookingRows == res' = res => BookingStep
BY DEF BookingStep, Stays

(* No request comes to end a booking where none moves ...                  *)
LEMMA NobodyMoves == BookingInv /\ proc' = proc => NobodyEnds
BY DEF NobodyEnds, Ending, BookingInv, EndingsClaimed

(* ... where the one that moves goes on to something else ...              *)
LEMMA SomethingElse ==
  ASSUME TypeOK, BookingInv, NEW p, NEW q, proc' = [proc EXCEPT ![p] = q],
         q.pc \notin {"cancel", "claim", "claimed", "counted"}
  PROVE  NobodyEnds
BY DEF NobodyEnds, Ending, TypeOK, BookingInv, EndingsClaimed

(* ... and where it is done.                                               *)
LEMMA RequestEnds ==
  ASSUME TypeOK, BookingInv, NEW p, Done(p)
  PROVE  NobodyEnds
BY SomethingElse DEF Done, Idle

(* One row is written. *)
LEMMA OneBooking ==
  ASSUME TypeOK, NEW r \in Res, NEW q, res' = [res EXCEPT ![r] = q],
         Stays(r) \/ Begins(r) \/ Converts(r) \/ Ends(r)
  PROVE  BookingStep
BY DEF BookingStep, Stays, TypeOK

-----------------------------------------------------------------------------
(* Every operation on bookings that looks before it writes ...             *)
LEMMA BookingsKeepBookings ==
  ASSUME NothingOverwrites, TypeOK, BookingInv, Bookings
  PROVE  BookingInv'
<1> USE SameBookingRows, NobodyMoves, RequestEnds, BookingsKept
<1>h. ASSUME NEW u \in Unit, NEW l, NEW r \in Res, NEW h, NEW public \in BOOLEAN,
             HoldUnit(u, l, r, h, public)
      PROVE  BookingStep
  <2>1. Begins(r)
    BY <1>h DEF HoldUnit, Begins, TypeOK, NoReservation
  <2>2. \A q \in Res : q # r => Stays(q)
    BY <1>h DEF HoldUnit, Stays, TypeOK
  <2> QED BY <2>1, <2>2 DEF BookingStep
<1>1. ASSUME NEW l \in Lead, CreateLead(l) PROVE BookingInv'
  BY <1>1 DEF CreateLead
<1>2. ASSUME NEW u \in Unit, NEW l \in Lead \cup {None}, NEW r \in Res, NEW h \in Holds,
             CreateReservation(u, l, r, h)
      PROVE  BookingInv'
  BY <1>2, <1>h DEF CreateReservation
<1>3. ASSUME NEW u \in Unit, NEW l \in Lead, NEW r \in Res, SyncOfflineReservation(u, l, r)
      PROVE  BookingInv'
  BY <1>3, <1>h DEF SyncOfflineReservation
<1>4. ASSUME NEW p \in Proc, NEW u \in Unit, NEW l \in Lead, NEW r \in Res,
             CreatePublicReservation(p, u, l, r)
      PROVE  BookingInv'
  <2>1. NobodyEnds
    BY <1>4, SomethingElse DEF CreatePublicReservation, Idle
  <2> QED BY <1>4, <2>1, <1>h DEF CreatePublicReservation
<1>5. ASSUME NEW p \in Proc, CodeDelivered(p) PROVE BookingInv'
  <2>1. BookingStep
    BY <1>5 DEF CodeDelivered, BookingStep, Stays, TypeOK, Reservation
  <2> QED BY <1>5, <2>1 DEF CodeDelivered
<1>6. ASSUME NEW p \in Proc, CodeFailed(p) PROVE BookingInv'
  BY <1>6 DEF CodeFailed, NothingOverwrites
<1>7. ASSUME NEW p \in Proc, NEW r \in Res, NEW h \in Now, VerifyRead(p, r, h) PROVE BookingInv'
  <2>1. NobodyEnds
    BY <1>7, SomethingElse DEF VerifyRead, Idle
  <2> QED BY <1>7, <2>1 DEF VerifyRead
<1>8. ASSUME NEW p \in Proc, VerifyCommit(p) PROVE BookingInv'
  <2>1. BookingStep
    BY <1>8 DEF VerifyCommit, BookingStep, Stays, TypeOK, Reservation
  <2> QED BY <1>8, <2>1 DEF VerifyCommit
<1>9. ASSUME NEW r \in Res, NEW h \in Now, RenewHold(r, h) PROVE BookingInv'
  <2>1. res[r].ten = NoRow /\ proc' = proc
    BY <1>9 DEF RenewHold
  <2>2. res' = [res EXCEPT ![r].status = "ACTIVE", ![r].hold = h, ![r].swept = FALSE,
                          ![r].code = IF res[r].verified THEN @ ELSE h]
    BY <1>9 DEF RenewHold
  <2>3. BookingStep
    BY <2>1, <2>2 DEF BookingStep, Stays, Begins, TypeOK, Reservation
  <2> QED BY <2>1, <2>3
<1>10. ASSUME NEW r \in Res, PrepareLease(r) PROVE BookingInv'
  <2>1. BookingStep
    BY <1>10 DEF PrepareLease, BookingStep, Stays, TypeOK, Reservation
  <2> QED BY <1>10, <2>1 DEF PrepareLease
<1>11. ASSUME NEW r \in Res, SignLease(r) PROVE BookingInv'
  <2>1. BookingStep
    BY <1>11 DEF SignLease, BookingStep, Stays, TypeOK, Reservation
  <2> QED BY <1>11, <2>1 DEF SignLease
<1>12. ASSUME NEW p \in Proc, NEW r \in Res, NEW h \in Now, ExtendRead(p, r, h) PROVE BookingInv'
  <2>1. NobodyEnds
    BY <1>12, SomethingElse DEF ExtendRead, Idle
  <2> QED BY <1>12, <2>1 DEF ExtendRead
<1>13. ASSUME NEW p \in Proc, ExtendCommit(p) PROVE BookingInv'
  <2>1. BookingStep
    BY <1>13 DEF ExtendCommit, BookingStep, Stays, TypeOK, Reservation
  <2> QED BY <1>13, <2>1 DEF ExtendCommit
<1>14. ASSUME NEW p \in Proc, NEW r \in Res, CancelRead(p, r) PROVE BookingInv'
  BY <1>14 DEF CancelRead, Start, NothingOverwrites
<1>15. ASSUME NEW p \in Proc, CancelClaim(p) PROVE BookingInv'
  BY <1>15 DEF CancelClaim, BookingInv, EndingsClaimed
<1>16. ASSUME NEW p \in Proc, NEW r \in Res, ExpireRead(p, r) PROVE BookingInv'
  <2>1. proc' = [proc EXCEPT ![p] = [Idle EXCEPT !.pc = "claim", !.r = r, !.u = res[r].unit,
                                                 !.st = "EXPIRED"]]
    BY <1>16 DEF ExpireRead
  <2>2. NobodyEnds
    BY <2>1 DEF NobodyEnds, Ending, TypeOK, BookingInv, EndingsClaimed, Idle
  <2> QED BY <1>16, <2>2 DEF ExpireRead
<1>17. ASSUME NEW p \in Proc, ExpireClaim(p) PROVE BookingInv'
  <2>1. /\ proc[p].pc = "claim" /\ proc' = [proc EXCEPT ![p].pc = "claimed"]
        /\ res[proc[p].r].status = "ACTIVE" /\ res' = res
        /\ ReservationUnlocked(proc[p].r)
    BY <1>17 DEF ExpireClaim
  <2>2. /\ proc'[p].pc = "claimed" /\ proc'[p].r = proc[p].r /\ proc'[p].st = proc[p].st
        /\ \A q \in Proc : q # p => proc'[q] = proc[q]
    BY <2>1 DEF TypeOK, Request
  <2>3. proc[p].r \in Res
    BY <2>1 DEF BookingInv, EndingsClaimed
  <2>4. EndingsClaimed'
    BY <2>1, <2>2, <2>3 DEF EndingsClaimed, Ending, BookingInv, ReservationUnlocked
  <2> QED BY <2>1, <2>4 DEF BookingInv, ConversionStands, SignedSurvivesSweep
<1>18. ASSUME NEW p \in Proc, CountBlockers(p) PROVE BookingInv'
  <2>1. PICK b : proc' = [proc EXCEPT ![p].pc = "counted", ![p].flag = b]
    BY <1>18, Zenon DEF CountBlockers
  <2>2. proc[p].pc = "claimed"
    BY <1>18 DEF CountBlockers
  <2>3. NobodyEnds
    BY <2>1, <2>2 DEF NobodyEnds, Ending, TypeOK, Request, BookingInv, EndingsClaimed
  <2> QED BY <1>18, <2>3 DEF CountBlockers
<1>19. ASSUME NEW p \in Proc, EndReservation(p) PROVE BookingInv'
  <2> PICK r : r = proc[p].r
    OBVIOUS
  <2>1. /\ res' = [res EXCEPT ![r].status = proc[p].st, ![r].swept = FALSE,
                          ![r].code = IF proc[p].st = "EXPIRED" THEN 0 ELSE @]
        /\ proc[p].pc = "counted" /\ Done(p)
    BY <1>19 DEF EndReservation
  <2>2. r \in Res /\ res[r].status = "ACTIVE" /\ proc[p].st = "EXPIRED"
    BY <2>1 DEF BookingInv, EndingsClaimed, Ending
  <2>3. ~ Held(r)'
    BY <2>1, <2>2 DEF Held, Ending, Done, Idle, TypeOK, BookingInv, EndingsClaimed
  <2>4. Ends(r)
    BY <2>1, <2>2, <2>3 DEF Ends, TypeOK, Reservation
  <2>5. \A q \in Res : q # r => Stays(q)
    BY <2>1 DEF Stays, TypeOK
  <2>6. BookingStep
    BY <2>4, <2>5 DEF BookingStep
  <2> QED BY <2>1, <2>6
<1>20. ASSUME NEW p \in Proc, NEW r \in Res, SweepRead(p, r) PROVE BookingInv'
  <2>1. NobodyEnds
    BY <1>20, SomethingElse DEF SweepRead, Idle
  <2> QED BY <1>20, <2>1 DEF SweepRead
<1>21. ASSUME NEW p \in Proc, SweepRelease(p) PROVE BookingInv'
  <2> PICK r : r = proc[p].r
    OBVIOUS
  <2>1. /\ res' = [res EXCEPT ![r].status = "CANCELLED", ![r].swept = TRUE, ![r].code = 0]
        /\ proc[p].pc = "sweep" /\ Done(p)
        /\ Expirable(r) /\ ReservationUnlocked(r)
    BY <1>21 DEF SweepRelease
  <2>2. r \in Res => Ends(r)
    BY <2>1 DEF Ends, Held, Ending, ReservationUnlocked, Expirable, Done, Idle, TypeOK, Reservation
  <2>3. \A q \in Res : q # r => Stays(q)
    BY <2>1 DEF Stays, TypeOK
  <2>4. BookingStep
    BY <2>2, <2>3 DEF BookingStep
  <2> QED BY <2>1, <2>4
<1>22. ASSUME NEW r \in Res, NEW v \in Unit, PatchReservation(r, v) PROVE BookingInv'
  <2>1. BookingStep
    BY <1>22 DEF PatchReservation, BookingStep, Stays, TypeOK, Reservation
  <2> QED BY <1>22, <2>1 DEF PatchReservation
<1>23. ASSUME NEW r \in Res, DeleteReservation(r) PROVE BookingInv'
  BY <1>23 DEF DeleteReservation, NothingOverwrites
<1>24. ASSUME NEW p \in Proc, NEW u \in Unit, OrphanRead(p, u) PROVE BookingInv'
  <2>1. PICK os : proc' = [proc EXCEPT ![p] = [Idle EXCEPT !.pc = "orphan", !.u = u, !.os = os]]
    BY <1>24 DEF OrphanRead
  <2>2. NobodyEnds
    BY <2>1, SomethingElse DEF Idle
  <2> QED BY <1>24, <2>2 DEF OrphanRead
<1>25. ASSUME NEW p \in Proc, OrphanRelease(p) PROVE BookingInv'
  <2>1. Done(p) /\ res' = res
    BY <1>25 DEF OrphanRelease
  <2> QED BY <2>1
<1>26. ASSUME NEW f \in Floor, SetFloorOperational(f) PROVE BookingInv'
  BY <1>26 DEF SetFloorOperational
<1> QED
  BY <1>1, <1>2, <1>3, <1>4, <1>5, <1>6, <1>7, <1>8, <1>9, <1>10, <1>11, <1>12, <1>13, <1>14,
     <1>15, <1>16, <1>17, <1>18, <1>19, <1>20, <1>21, <1>22, <1>23, <1>24, <1>25, <1>26
  DEF Bookings

(* ... and every operation on tenancies takes such a step.                 *)
LEMMA TenanciesKeepBookings ==
  ASSUME NothingOverwrites, TypeOK, BookingInv, Tenancies
  PROVE  BookingInv'
<1> USE SameBookingRows, NobodyMoves, RequestEnds, BookingsKept
<1>0. ASSUME NEW r \in Res, ReservationUnlocked(r) PROVE ~ Held(r)
  BY <1>0 DEF ReservationUnlocked, Held, Ending
<1>1. ASSUME NEW p \in Proc, NEW u \in Unit, NEW r \in Res \cup {NoRow}, NEW simulation \in BOOLEAN,
             MoveInCheck(p, u, r, simulation)
      PROVE  BookingInv'
  <2>1. NobodyEnds
    BY <1>1, SomethingElse DEF MoveInCheck, Idle
  <2> QED BY <1>1, <2>1 DEF MoveInCheck
<1>2. ASSUME NEW p \in Proc, NEW t \in Ten, NEW o \in Occ, MoveInCommit(p, t, o)
      PROVE  BookingInv'
  <2> PICK r : r = proc[p].r
    OBVIOUS
  <2>1. \A q \in Res : res'[q] = IF q = r THEN [res[q] EXCEPT !.status = "CONVERTED", !.ten = t]
                                  ELSE res[q]
    BY <1>2 DEF MoveInCommit
  <2>2. Done(p) /\ (r # NoRow => ReservationUnlocked(r))
    BY <1>2 DEF MoveInCommit
  <2>3. t # NoRow /\ NoRow \notin Res
    BY BoundsAssumption DEF NoRow, Ten, Res
  <2>4. r \in Res => res'[r].status = "CONVERTED" /\ res'[r].ten = t
    BY <2>1 DEF TypeOK, Reservation
  <2>5. r \in Res => Converts(r)
    BY <1>0, <2>2, <2>3, <2>4 DEF Converts
  <2>6. \A q \in Res : q # r => Stays(q)
    BY <2>1 DEF Stays
  <2>7. BookingStep
    BY <2>5, <2>6 DEF BookingStep
  <2> QED BY <2>2, <2>7
<1>3. ASSUME NEW p \in Proc, NEW t \in Ten, DispatchRead(p, t) PROVE BookingInv'
  <2>1. NobodyEnds
    BY <1>3, SomethingElse DEF DispatchRead, Idle
  <2> QED BY <1>3, <2>1 DEF DispatchRead
<1>4. ASSUME NEW p \in Proc, DispatchAttach(p) PROVE BookingInv'
  BY <1>4 DEF DispatchAttach
<1>5. ASSUME NEW t \in Ten, CompleteEnvelope(t) PROVE BookingInv'
  BY <1>5 DEF CompleteEnvelope
<1>6. ASSUME NEW r \in Res, NEW t \in Ten, NEW o \in Occ, ConfirmMoveIn(r, t, o)
      PROVE  BookingInv'
  <2>1. /\ res' = [res EXCEPT ![r].status = "CONVERTED", ![r].ten = t]
        /\ proc' = proc
        /\ ~ Held(r)
    BY <1>0, <1>6 DEF ConfirmMoveIn
  <2>2. t # NoRow
    BY BoundsAssumption DEF NoRow, Ten
  <2>3. Converts(r)
    BY <2>1, <2>2 DEF Converts, TypeOK, Reservation
  <2>4. \A q \in Res : q # r => Stays(q)
    BY <2>1 DEF Stays, TypeOK
  <2>5. BookingStep
    BY <2>3, <2>4 DEF BookingStep
  <2> QED BY <2>1, <2>5
<1>7. ASSUME NEW p \in Proc, NEW t \in Ten, NEW o \in Occ, LegacyRead(p, t, o) PROVE BookingInv'
  <2>1. NobodyEnds
    BY <1>7, SomethingElse DEF LegacyRead, Idle
  <2> QED BY <1>7, <2>1 DEF LegacyRead
<1>8. ASSUME NEW p \in Proc, NEW o \in Occ, LegacyCommit(p, o) PROVE BookingInv'
  BY <1>8 DEF LegacyCommit
<1>9. ASSUME NEW p \in Proc, NEW t \in Ten, NEW v \in Unit, NEW o \in Occ, TransferRead(p, t, v, o)
      PROVE  BookingInv'
  <2>1. NobodyEnds
    BY <1>9, SomethingElse DEF TransferRead, Idle
  <2> QED BY <1>9, <2>1 DEF TransferRead
<1>10. ASSUME NEW p \in Proc, NEW o \in Occ, NEW n \in Occ, TransferCommit(p, o, n)
       PROVE  BookingInv'
  BY <1>10 DEF TransferCommit
<1>11. ASSUME NEW p \in Proc, NEW t \in Ten, NoticeRead(p, t) PROVE BookingInv'
  <2>1. NobodyEnds
    BY <1>11, SomethingElse DEF NoticeRead, Idle
  <2> QED BY <1>11, <2>1 DEF NoticeRead
<1>12. ASSUME NEW p \in Proc, NoticeCommit(p) PROVE BookingInv'
  BY <1>12 DEF NoticeCommit
<1>13. ASSUME NEW p \in Proc, NEW t \in Ten, MoveOutRead(p, t) PROVE BookingInv'
  <2>1. NobodyEnds
    BY <1>13, SomethingElse DEF MoveOutRead, Idle
  <2> QED BY <1>13, <2>1 DEF MoveOutRead
<1>14. ASSUME NEW p \in Proc, MoveOutClaim(p) PROVE BookingInv'
  <2>1. PICK os, plan : proc' = [proc EXCEPT ![p].pc = "closing", ![p].os = os, ![p].plan = plan]
    BY <1>14 DEF MoveOutClaim
  <2>2. NobodyEnds
    BY <2>1 DEF NobodyEnds, Ending, BookingInv, EndingsClaimed, TypeOK, Request
  <2> QED BY <1>14, <2>2 DEF MoveOutClaim
<1>15. ASSUME NEW p \in Proc, MoveOutCommit(p) PROVE BookingInv'
  BY <1>15 DEF MoveOutCommit
<1>16. ASSUME NEW u \in Unit, NEW m \in Maint, MaintenanceClaim(u, m) PROVE BookingInv'
  BY <1>16 DEF MaintenanceClaim
<1>17. ASSUME NEW p \in Proc, NEW u \in Unit, MaintenanceRead(p, u) PROVE BookingInv'
  <2>1. NobodyEnds
    BY <1>17, SomethingElse DEF MaintenanceRead, Idle
  <2> QED BY <1>17, <2>1 DEF MaintenanceRead
<1>18. ASSUME NEW p \in Proc, NEW m \in Maint, MaintenanceOpen(p, m) PROVE BookingInv'
  BY <1>18 DEF MaintenanceOpen
<1>19. ASSUME NEW u \in Unit, NEW m \in Maint, NEW status \in {"OPEN", "ENDED"},
              MaintenanceUpdate(u, m, status)
       PROVE  BookingInv'
  BY <1>19 DEF MaintenanceUpdate
<1>20. ASSUME NEW u \in Unit, NEW status \in {"AVAILABLE", "SERVICE", "UNAVAILABLE"},
              EditUnit(u, status)
       PROVE  BookingInv'
  BY <1>20 DEF EditUnit
<1>21. ASSUME NEW u \in Unit, RetireUnit(u) PROVE BookingInv'
  BY <1>21 DEF RetireUnit
<1> QED
  BY <1>1, <1>2, <1>3, <1>4, <1>5, <1>6, <1>7, <1>8, <1>9, <1>10, <1>11, <1>12, <1>13, <1>14,
     <1>15, <1>16, <1>17, <1>18, <1>19, <1>20, <1>21
  DEF Tenancies

(* So a booking is never taken back once it is converted or signed for.    *)
LEMMA BookingInvariant ==
  ASSUME NothingOverwrites
  PROVE  Spec => []BookingInv
<1>1. Init => BookingInv
  BY DEF Init, Idle, NoReservation, BookingInv, EndingsClaimed, Ending, ConversionStands,
         SignedSurvivesSweep
<1>2. TypeOK /\ BookingInv /\ [Next]_vars => BookingInv'
  <2> SUFFICES ASSUME TypeOK, BookingInv, [Next]_vars PROVE BookingInv'
    OBVIOUS
  <2> USE SameBookingRows, NobodyMoves, RequestEnds, BookingsKept
  <2>1. ASSUME NEW p \in Proc, Rollback(p) PROVE BookingInv'
    BY <2>1 DEF Rollback
  <2>2. CASE Tick
    BY <2>2 DEF Tick
  <2>3. CASE UNCHANGED vars
    BY <2>3 DEF vars
  <2> QED BY <2>1, <2>2, <2>3, BookingsKeepBookings, TenanciesKeepBookings DEF Next
<1> QED BY <1>1, <1>2, Typing, PTL DEF Spec

(* A booking is converted exactly as long as it has a tenancy, provided    *)
(* nothing overwrites its status by its id: no expiry, sweep or renewal    *)
(* that saw it active earlier takes the conversion back.                   *)
THEOREM ConversionKept ==
  ASSUME NothingOverwrites
  PROVE  Spec => []ConversionStands
<1>1. BookingInv => ConversionStands
  BY DEF BookingInv
<1> QED BY <1>1, BookingInvariant, PTL

(* A booking that is signed for is never swept away as a lapsed hold,      *)
(* under the same proviso.                                                 *)
THEOREM SignatureKept ==
  ASSUME NothingOverwrites
  PROVE  Spec => []SignedSurvivesSweep
<1>1. BookingInv => SignedSurvivesSweep
  BY DEF BookingInv
<1> QED BY <1>1, BookingInvariant, PTL

-----------------------------------------------------------------------------
(* Enquiries.  Nobody books an enquiry before it is taken down.            *)
Standing == {"ACTIVE", "CONVERTED"}
LeadInv ==
    /\ LeadBacked
    /\ \A l \in Lead : lead[l] = "NONE" => \A r \in Res : res[r].lead # l

(* No booking begins or falls, and an enquiry is at most won.              *)
NoBookingFalls ==
    \A r \in Res : /\ res'[r].lead = res[r].lead
                   /\ res'[r].status = "ACTIVE" => res[r].status = "ACTIVE"
                   /\ res[r].status \in Standing => res'[r].status \in Standing
AtMostWon == \A l \in Lead : lead'[l] = lead[l] \/ lead'[l] = "WON"

(* Then the enquiries stay backed.                                         *)
LEMMA LeadsKept ==
  ASSUME LeadInv, NoBookingFalls, AtMostWon
  PROVE  LeadInv'
<1>1. ASSUME NEW l \in Lead, lead'[l] = "RESERVED"
      PROVE  \E r \in Res : res'[r].lead = l /\ res'[r].status \in {"ACTIVE", "CONVERTED"}
  <2>1. lead[l] = "RESERVED"
    BY <1>1 DEF AtMostWon
  <2>2. PICK r \in Res : res[r].lead = l /\ res[r].status \in Standing
    BY <2>1 DEF LeadInv, LeadBacked, Standing
  <2> QED BY <2>2 DEF NoBookingFalls, Standing
<1>2. ASSUME NEW l \in Lead, lead'[l] = "OPEN", NEW r \in Res, res'[r].lead = l
      PROVE  res'[r].status # "ACTIVE"
  BY <1>2 DEF LeadInv, LeadBacked, AtMostWon, NoBookingFalls
<1>3. ASSUME NEW l \in Lead, lead'[l] = "NONE", NEW r \in Res PROVE res'[r].lead # l
  BY <1>3 DEF LeadInv, AtMostWon, NoBookingFalls
<1> QED BY <1>1, <1>2, <1>3 DEF LeadInv, LeadBacked

(* A new or renewed booking r, whose enquiry is booked with it.            *)
LEMMA LeadBooked ==
  ASSUME TypeOK, LeadInv, NEW r \in Res, NEW q, res' = [res EXCEPT ![r] = q],
         q.status = "ACTIVE", lead' = LeadsAt(q.lead, "RESERVED"),
         res[r].status \in Standing => res[r].lead = q.lead,
         q.lead \in Lead \/ q.lead = None
  PROVE  LeadInv'
<1>1. res'[r] = q /\ \A s \in Res : s # r => res'[s] = res[s]
  BY DEF TypeOK
<1>2. \A l \in Lead : lead'[l] = IF l = q.lead THEN "RESERVED" ELSE lead[l]
  BY DEF LeadsAt, TypeOK
<1>3. ASSUME NEW l \in Lead, lead'[l] = "RESERVED"
      PROVE  \E s \in Res : res'[s].lead = l /\ res'[s].status \in {"ACTIVE", "CONVERTED"}
  <2>1. CASE l = q.lead
    BY <1>1, <2>1
  <2>2. CASE l # q.lead
    <3>1. lead[l] = "RESERVED"
      BY <1>2, <1>3, <2>2
    <3>2. PICK s \in Res : res[s].lead = l /\ res[s].status \in Standing
      BY <3>1 DEF LeadInv, LeadBacked, Standing
    <3> QED BY <1>1, <2>2, <3>2 DEF Standing
  <2> QED BY <2>1, <2>2
<1>4. ASSUME NEW l \in Lead, lead'[l] = "OPEN", NEW s \in Res, res'[s].lead = l
      PROVE  res'[s].status # "ACTIVE"
  BY <1>1, <1>2, <1>4 DEF LeadInv, LeadBacked
<1>5. ASSUME NEW l \in Lead, lead'[l] = "NONE", NEW s \in Res PROVE res'[s].lead # l
  BY <1>1, <1>2, <1>5 DEF LeadInv
<1> QED BY <1>3, <1>4, <1>5 DEF LeadInv, LeadBacked

(* A booking r that ends lets its enquiry go.                              *)
LEMMA LeadReleased ==
  ASSUME TypeOK, LeadInv, NEW r, NEW q, res' = [res EXCEPT ![r] = q],
         r \in Res => q.status \notin Standing /\ q.lead = res[r].lead,
         lead' = LeadsAfterRelease(res[r].lead, res')
  PROVE  LeadInv'
<1> DEFINE k == res[r].lead
<1>1. \A s \in Res : /\ s # r => res'[s] = res[s]
                     /\ res'[s].lead = res[s].lead
                     /\ res'[s].status \in Standing => res[s].status = res'[s].status
  BY DEF TypeOK
<1>2. \A l \in Lead : \/ lead'[l] = lead[l]
                      \/ /\ l = k /\ lead'[l] = "OPEN"
                         /\ \A s \in Res : res'[s].lead = l => res'[s].status \notin Standing
  BY DEF LeadsAfterRelease, TypeOK, Standing
<1>3. ASSUME NEW l \in Lead, lead'[l] = "RESERVED"
      PROVE  \E s \in Res : res'[s].lead = l /\ res'[s].status \in {"ACTIVE", "CONVERTED"}
  <2>1. lead[l] = "RESERVED"
    BY <1>2, <1>3
  <2>2. CASE l = k
    BY <1>3, <2>1, <2>2 DEF LeadsAfterRelease, TypeOK
  <2>3. CASE l # k
    <3>1. PICK s \in Res : res[s].lead = l /\ res[s].status \in Standing
      BY <2>1 DEF LeadInv, LeadBacked, Standing
    <3> QED BY <1>1, <2>3, <3>1 DEF Standing
  <2> QED BY <2>2, <2>3
<1>4. ASSUME NEW l \in Lead, lead'[l] = "OPEN", NEW s \in Res, res'[s].lead = l
      PROVE  res'[s].status # "ACTIVE"
  <2>1. CASE lead[l] = "OPEN"
    <3>1. res[s].lead = l
      BY <1>1, <1>4
    <3>2. res[s].status # "ACTIVE"
      BY <2>1, <3>1 DEF LeadInv, LeadBacked
    <3> QED BY <1>1, <3>2 DEF Standing
  <2>2. CASE lead[l] # "OPEN"
    BY <1>2, <1>4, <2>2 DEF Standing
  <2> QED BY <2>1, <2>2
<1>5. ASSUME NEW l \in Lead, lead'[l] = "NONE", NEW s \in Res PROVE res'[s].lead # l
  BY <1>1, <1>2, <1>5 DEF LeadInv
<1> QED BY <1>3, <1>4, <1>5 DEF LeadInv, LeadBacked

(* No booking falls where none is written, and no enquiry moves where none *)
(* is ...                                                                  *)
LEMMA SameStages == res' = res => NoBookingFalls
BY DEF NoBookingFalls

(* ... or where its customer has moved in.                                 *)
LEMMA SameLeads == lead' = lead => AtMostWon
BY DEF AtMostWon

(* The same, as the code writes it: one enquiry is won.                    *)
LEMMA WonLeads == TypeOK => \A l : lead' = LeadsAt(l, "WON") => AtMostWon
BY DEF AtMostWon, LeadsAt, TypeOK

-----------------------------------------------------------------------------
(* The operations on bookings keep the enquiries, where a booking that ends *)
(* lets its enquiry go ...                                                 *)
LEMMA BookingsKeepLeads ==
  ASSUME {"otpfail", "delete"} \cap Ops = {}, TypeOK, LeadInv, Bookings
  PROVE  LeadInv'
<1> USE LeadsKept, SameStages, SameLeads
<1>h. ASSUME NEW u \in Unit, NEW l \in Lead \cup {None}, NEW r \in Res, NEW h, NEW public \in BOOLEAN,
             HoldUnit(u, l, r, h, public)
      PROVE  LeadInv'
  <2> DEFINE q == [NoReservation EXCEPT !.status = "ACTIVE", !.unit = u, !.lead = l, !.hold = h,
                                        !.public = public,
                                        !.code = IF public THEN h ELSE 0]
  <2>1. q.status = "ACTIVE" /\ q.lead = l
    BY DEF NoReservation
  <2>2. res' = [res EXCEPT ![r] = q] /\ lead' = LeadsAt(l, "RESERVED") /\ res[r].status = "NONE"
    BY <1>h DEF HoldUnit, NextRow
  <2> HIDE DEF q
  <2> QED BY <2>1, <2>2, LeadBooked DEF Standing
<1>1. ASSUME NEW l \in Lead, CreateLead(l) PROVE LeadInv'
  <2>1. res' = res /\ lead[l] = "NONE" /\ lead' = [lead EXCEPT ![l] = "OPEN"]
    BY <1>1 DEF CreateLead
  <2> QED BY <2>1 DEF LeadInv, LeadBacked, TypeOK
<1>2. ASSUME NEW u \in Unit, NEW l \in Lead \cup {None}, NEW r \in Res, NEW h \in Holds,
             CreateReservation(u, l, r, h)
      PROVE  LeadInv'
  BY <1>2, <1>h DEF CreateReservation
<1>3. ASSUME NEW u \in Unit, NEW l \in Lead, NEW r \in Res, SyncOfflineReservation(u, l, r)
      PROVE  LeadInv'
  BY <1>3, <1>h DEF SyncOfflineReservation
<1>4. ASSUME NEW p \in Proc, NEW u \in Unit, NEW l \in Lead, NEW r \in Res,
             CreatePublicReservation(p, u, l, r)
      PROVE  LeadInv'
  BY <1>4, <1>h DEF CreatePublicReservation
<1>5. ASSUME NEW p \in Proc, CodeDelivered(p) PROVE LeadInv'
  <2>1. NoBookingFalls
    BY <1>5 DEF CodeDelivered, NoBookingFalls, TypeOK, Reservation
  <2> QED BY <1>5, <2>1 DEF CodeDelivered
<1>6. ASSUME NEW p \in Proc, CodeFailed(p) PROVE LeadInv'
  BY <1>6 DEF CodeFailed
<1>7. ASSUME NEW p \in Proc, NEW r \in Res, NEW h \in Now, VerifyRead(p, r, h) PROVE LeadInv'
  BY <1>7 DEF VerifyRead
<1>8. ASSUME NEW p \in Proc, VerifyCommit(p) PROVE LeadInv'
  <2>1. NoBookingFalls
    BY <1>8 DEF VerifyCommit, NoBookingFalls, TypeOK, Reservation
  <2> QED BY <1>8, <2>1 DEF VerifyCommit
<1>9. ASSUME NEW r \in Res, NEW h \in Now, RenewHold(r, h) PROVE LeadInv'
  <2> DEFINE q == [res[r] EXCEPT !.status = "ACTIVE", !.hold = h, !.swept = FALSE,
                   !.code = IF res[r].verified THEN @ ELSE h]
  <2>1. res' = [res EXCEPT ![r] = q]
    BY <1>9 DEF RenewHold, TypeOK
  <2>2. q.status = "ACTIVE" /\ q.lead = res[r].lead
    BY DEF TypeOK, Reservation
  <2>3. \/ res[r].status = "ACTIVE" /\ lead' = lead
        \/ lead' = LeadsAt(res[r].lead, "RESERVED")
    BY <1>9 DEF RenewHold
  <2>4. CASE res[r].status = "ACTIVE" /\ lead' = lead
    <3>1. NoBookingFalls
      BY <2>1, <2>2, <2>4 DEF NoBookingFalls, TypeOK
    <3> QED BY <2>4, <3>1
  <2>5. CASE lead' = LeadsAt(res[r].lead, "RESERVED")
    <3>1. res[r].lead \in Lead \/ res[r].lead = None
      BY RowTypes
    <3> HIDE DEF q
    <3> QED BY <2>1, <2>2, <2>5, <3>1, LeadBooked
  <2> QED BY <2>3, <2>4, <2>5
<1>10. ASSUME NEW r \in Res, PrepareLease(r) PROVE LeadInv'
  <2>1. NoBookingFalls
    BY <1>10 DEF PrepareLease, NoBookingFalls, TypeOK, Reservation
  <2> QED BY <1>10, <2>1 DEF PrepareLease
<1>11. ASSUME NEW r \in Res, SignLease(r) PROVE LeadInv'
  <2>1. NoBookingFalls
    BY <1>11 DEF SignLease, NoBookingFalls, TypeOK, Reservation
  <2> QED BY <1>11, <2>1 DEF SignLease
<1>12. ASSUME NEW p \in Proc, NEW r \in Res, NEW h \in Now, ExtendRead(p, r, h) PROVE LeadInv'
  BY <1>12 DEF ExtendRead
<1>13. ASSUME NEW p \in Proc, ExtendCommit(p) PROVE LeadInv'
  <2>1. NoBookingFalls
    BY <1>13 DEF ExtendCommit, NoBookingFalls, TypeOK, Reservation
  <2> QED BY <1>13, <2>1 DEF ExtendCommit
<1>14. ASSUME NEW p \in Proc, NEW r \in Res, CancelRead(p, r) PROVE LeadInv'
  BY <1>14 DEF CancelRead
<1>15. ASSUME NEW p \in Proc, CancelClaim(p) PROVE LeadInv'
  BY <1>15 DEF CancelClaim
<1>16. ASSUME NEW p \in Proc, NEW r \in Res, ExpireRead(p, r) PROVE LeadInv'
  BY <1>16 DEF ExpireRead
<1>17. ASSUME NEW p \in Proc, ExpireClaim(p) PROVE LeadInv'
  BY <1>17 DEF ExpireClaim
<1>18. ASSUME NEW p \in Proc, CountBlockers(p) PROVE LeadInv'
  <2>1. res' = res /\ lead' = lead
    BY <1>18 DEF CountBlockers
  <2> QED BY <2>1
<1>19. ASSUME NEW p \in Proc, EndReservation(p) PROVE LeadInv'
  <2> DEFINE r == proc[p].r
             q == [res[r] EXCEPT !.status = proc[p].st, !.swept = FALSE,
                   !.code = IF proc[p].st = "EXPIRED" THEN 0 ELSE @]
  <2>1. lead' = LeadsAfterRelease(res[r].lead, res')
    BY <1>19 DEF EndReservation
  <2>2. res' = [res EXCEPT ![r] = q]
    BY <1>19 DEF EndReservation, TypeOK
  <2>3. proc[p].st \notin Standing
    BY RowTypes DEF Standing
  <2>4. r \in Res => q.status \notin Standing /\ q.lead = res[r].lead
    BY <2>3 DEF TypeOK, Reservation
  <2> HIDE DEF q, r
  <2> QED BY <2>1, <2>2, <2>4, LeadReleased
<1>20. ASSUME NEW p \in Proc, NEW r \in Res, SweepRead(p, r) PROVE LeadInv'
  BY <1>20 DEF SweepRead
<1>21. ASSUME NEW p \in Proc, SweepRelease(p) PROVE LeadInv'
  <2> DEFINE r == proc[p].r
             q == [res[r] EXCEPT !.status = "CANCELLED", !.swept = TRUE, !.code = 0]
  <2>1. lead' = LeadsAfterRelease(res[r].lead, res')
    BY <1>21 DEF SweepRelease
  <2>2. res' = [res EXCEPT ![r] = q]
    BY <1>21 DEF SweepRelease, TypeOK
  <2>3. r \in Res => q.status \notin Standing /\ q.lead = res[r].lead
    BY DEF TypeOK, Reservation, Standing
  <2> HIDE DEF q, r
  <2> QED BY <2>1, <2>2, <2>3, LeadReleased
<1>22. ASSUME NEW r \in Res, NEW v \in Unit, PatchReservation(r, v) PROVE LeadInv'
  <2>1. NoBookingFalls
    BY <1>22 DEF PatchReservation, NoBookingFalls, TypeOK, Reservation
  <2> QED BY <1>22, <2>1 DEF PatchReservation
<1>23. ASSUME NEW r \in Res, DeleteReservation(r) PROVE LeadInv'
  BY <1>23 DEF DeleteReservation
<1>24. ASSUME NEW p \in Proc, NEW u \in Unit, OrphanRead(p, u) PROVE LeadInv'
  <2>1. res' = res /\ lead' = lead
    BY <1>24 DEF OrphanRead
  <2> QED BY <2>1
<1>25. ASSUME NEW p \in Proc, OrphanRelease(p) PROVE LeadInv'
  <2>1. res' = res /\ lead' = lead
    BY <1>25 DEF OrphanRelease
  <2> QED BY <2>1
<1>26. ASSUME NEW f \in Floor, SetFloorOperational(f) PROVE LeadInv'
  BY <1>26 DEF SetFloorOperational
<1> QED
  BY <1>1, <1>2, <1>3, <1>4, <1>5, <1>6, <1>7, <1>8, <1>9, <1>10, <1>11, <1>12, <1>13, <1>14,
     <1>15, <1>16, <1>17, <1>18, <1>19, <1>20, <1>21, <1>22, <1>23, <1>24, <1>25, <1>26
  DEF Bookings

(* ... and the operations on tenancies end no booking.                     *)
LEMMA TenanciesKeepLeads ==
  ASSUME TypeOK, LeadInv, Tenancies
  PROVE  LeadInv'
<1> USE LeadsKept, SameStages, SameLeads
<1>1. ASSUME NEW p \in Proc, NEW t \in Ten, NEW o \in Occ, MoveInCommit(p, t, o)
      PROVE  LeadInv'
  <2> PICK r : r = proc[p].r
    OBVIOUS
  <2>1. \A q \in Res : res'[q] = IF q = r THEN [res[q] EXCEPT !.status = "CONVERTED", !.ten = t]
                                  ELSE res[q]
    BY <1>1 DEF MoveInCommit
  <2>2. r \in Res => res'[r].status = "CONVERTED" /\ res'[r].lead = res[r].lead
    BY <2>1 DEF TypeOK, Reservation
  <2>3. NoBookingFalls
    BY <2>1, <2>2 DEF NoBookingFalls, Standing
  <2>4. lead' = lead
    BY <1>1 DEF MoveInCommit
  <2> QED BY <2>3, <2>4
<1>2. ASSUME NEW r \in Res, NEW t \in Ten, NEW o \in Occ, ConfirmMoveIn(r, t, o) PROVE LeadInv'
  <2>1. NoBookingFalls
    BY <1>2 DEF ConfirmMoveIn, NoBookingFalls, Standing, TypeOK, Reservation
  <2>2. AtMostWon
    BY <1>2, WonLeads DEF ConfirmMoveIn
  <2> QED BY <2>1, <2>2
<1>3. ASSUME NEW p \in Proc, NEW o \in Occ, LegacyCommit(p, o) PROVE LeadInv'
  <2>1. AtMostWon
    BY <1>3 DEF LegacyCommit, AtMostWon
  <2>2. res' = res
    BY <1>3 DEF LegacyCommit
  <2> QED BY <2>1, <2>2
<1>4. ASSUME res' = res /\ lead' = lead PROVE LeadInv'
  BY <1>4
<1>5. ASSUME NEW p \in Proc, NEW u \in Unit, NEW r \in Res \cup {NoRow}, NEW simulation \in BOOLEAN,
             MoveInCheck(p, u, r, simulation)
      PROVE  LeadInv'
  BY <1>4, <1>5 DEF MoveInCheck
<1>6. ASSUME NEW p \in Proc, NEW t \in Ten, DispatchRead(p, t) \/ NoticeRead(p, t) \/ MoveOutRead(p, t)
      PROVE  LeadInv'
  BY <1>4, <1>6 DEF DispatchRead, NoticeRead, MoveOutRead
<1>7. ASSUME NEW p \in Proc, DispatchAttach(p) \/ NoticeCommit(p) PROVE LeadInv'
  BY <1>4, <1>7 DEF DispatchAttach, NoticeCommit
<1>8. ASSUME NEW p \in Proc, MoveOutClaim(p) \/ MoveOutCommit(p) PROVE LeadInv'
  BY <1>4, <1>8 DEF MoveOutClaim, MoveOutCommit
<1>9. ASSUME NEW t \in Ten, CompleteEnvelope(t) PROVE LeadInv'
  BY <1>4, <1>9 DEF CompleteEnvelope
<1>10. ASSUME NEW p \in Proc, NEW t \in Ten, NEW o \in Occ, LegacyRead(p, t, o) PROVE LeadInv'
  BY <1>4, <1>10 DEF LegacyRead
<1>11. ASSUME NEW p \in Proc, NEW t \in Ten, NEW v \in Unit, NEW o \in Occ, TransferRead(p, t, v, o)
       PROVE  LeadInv'
  BY <1>4, <1>11 DEF TransferRead
<1>12. ASSUME NEW p \in Proc, NEW o \in Occ, NEW n \in Occ, TransferCommit(p, o, n) PROVE LeadInv'
  BY <1>4, <1>12 DEF TransferCommit
<1>13. ASSUME NEW u \in Unit, NEW m \in Maint, MaintenanceClaim(u, m) PROVE LeadInv'
  BY <1>4, <1>13 DEF MaintenanceClaim
<1>14. ASSUME NEW p \in Proc, NEW u \in Unit, MaintenanceRead(p, u) PROVE LeadInv'
  BY <1>4, <1>14 DEF MaintenanceRead
<1>15. ASSUME NEW p \in Proc, NEW m \in Maint, MaintenanceOpen(p, m) PROVE LeadInv'
  BY <1>4, <1>15 DEF MaintenanceOpen
<1>16. ASSUME NEW u \in Unit, NEW m \in Maint, NEW status \in {"OPEN", "ENDED"},
              MaintenanceUpdate(u, m, status)
       PROVE  LeadInv'
  BY <1>4, <1>16 DEF MaintenanceUpdate
<1>17. ASSUME NEW u \in Unit, NEW status \in {"AVAILABLE", "SERVICE", "UNAVAILABLE"},
              EditUnit(u, status)
       PROVE  LeadInv'
  BY <1>4, <1>17 DEF EditUnit
<1>18. ASSUME NEW u \in Unit, RetireUnit(u) PROVE LeadInv'
  BY <1>4, <1>18 DEF RetireUnit
<1> QED
  BY <1>1, <1>2, <1>3, <1>5, <1>6, <1>7, <1>8, <1>9, <1>10, <1>11, <1>12, <1>13, <1>14, <1>15,
     <1>16, <1>17, <1>18
  DEF Tenancies

(* An enquiry is at the booked stage only while one of its bookings        *)
(* stands, and never offered as open while one runs: cancellations by id   *)
(* keep this too, but not the undoing of a hold whose code was not sent,   *)
(* or a deletion, which leave the enquiry alone.                           *)
THEOREM LeadsFollowBookings ==
  ASSUME {"otpfail", "delete"} \cap Ops = {}
  PROVE  Spec => []LeadBacked
<1>1. Init => LeadInv
  BY NoneAssumption DEF Init, NoReservation, LeadInv, LeadBacked
<1>2. TypeOK /\ LeadInv /\ [Next]_vars => LeadInv'
  <2> SUFFICES ASSUME TypeOK, LeadInv, [Next]_vars PROVE LeadInv'
    OBVIOUS
  <2>1. ASSUME res' = res, lead' = lead PROVE LeadInv'
    BY <2>1, LeadsKept, SameStages, SameLeads
  <2>2. ASSUME NEW p \in Proc, Rollback(p) PROVE LeadInv'
    BY <2>1, <2>2 DEF Rollback
  <2>3. CASE Tick
    BY <2>1, <2>3 DEF Tick
  <2>4. CASE UNCHANGED vars
    BY <2>1, <2>4 DEF vars
  <2> QED BY <2>2, <2>3, <2>4, BookingsKeepLeads, TenanciesKeepLeads DEF Next
<1>3. LeadInv => LeadBacked
  BY DEF LeadInv
<1> QED BY <1>1, <1>2, <1>3, Typing, PTL DEF Spec

-----------------------------------------------------------------------------
(* Tenancies.  An occupancy belongs to a tenancy, which is a draft as long *)
(* as the occupancy waits; a simulated tenancy is never lived in.          *)
OccupanciesOwned ==
    /\ \A o \in Occ : occ[o].status # "NONE" => occ[o].ten \in Ten /\ ten[occ[o].ten].status # "NONE"
    /\ \A o \in Occ : occ[o].status = "PENDING" => ten[occ[o].ten].status = "DRAFT"
    /\ \A t \in Ten : ten[t].sim => ten[t].status \in {"DRAFT", "CANCELLED"}
    /\ \A o \in Occ : occ[o].status \in Living => ~ ten[occ[o].ten].sim

(* What a request knows of the tenancy it moves on or ends: it has left    *)
(* its draft for good, what was read of its occupancies is theirs, and     *)
(* what a move-out has locked is all that is left of them.  A clean-up     *)
(* has read simulated ones only.                                           *)
Leaving(q) == proc[q].pc \in {"notice", "transfer", "moveout", "closing"}
Closing(q) == proc[q].pc = "closing"
LeaverKnown(q) ==
    /\ Leaving(q) => /\ proc[q].t \in Ten /\ ~ ten[proc[q].t].sim
                     /\ ten[proc[q].t].status \notin {"NONE", "DRAFT"}
    /\ proc[q].pc \in {"transfer", "moveout"} =>
          \A o \in proc[q].os : occ[o].status # "NONE" /\ occ[o].ten = proc[q].t
    /\ Closing(q) =>
          /\ \A o \in proc[q].os : occ[o].status \in Living /\ occ[o].ten = proc[q].t
          /\ \A o \in Occ : occ[o].status \in Blocking /\ occ[o].ten = proc[q].t => o \in proc[q].os
    /\ proc[q].pc = "orphan" =>
          \A o \in proc[q].os :
             /\ occ[o].status # "NONE" /\ ten[occ[o].ten].sim
             /\ occ[o].status = "PENDING" \/ ten[occ[o].ten].status = "CANCELLED"

LeavingKnown ==
    /\ \A q \in Proc : LeaverKnown(q)
    /\ \A q, s \in Proc : Closing(q) /\ Closing(s) /\ q # s => proc[q].os \cap proc[s].os = {}

(* Without notices, a tenancy that runs has somebody living under it, one  *)
(* that was moved out has nobody, and a move-out always has what to end.   *)
Lived(t) == \E o \in Occ : occ[o].status \in Living /\ occ[o].ten = t
LeftOnce ==
    /\ MovedOutOnce
    /\ \A t \in Ten : ten[t].status \in Living => Lived(t)
    /\ \A o \in Occ : occ[o].status \in Blocking => ten[occ[o].ten].moveOuts = 0
    /\ \A q \in Proc : proc[q].pc # "notice"
    /\ \A q \in Proc : proc[q].pc \in {"moveout", "closing"} => proc[q].os # {}

TenancyInv ==
    /\ OneAllocationPerTenancy
    /\ OccupanciesOwned
    /\ LeavingKnown
    /\ "notice" \notin Ops => LeftOnce

(* The allocations of a tenancy, occupancy by occupancy.                   *)
LEMMA OneAllocationByRow ==
  OneAllocationPerTenancy <=>
    /\ \A t \in Ten : \A o, n \in Occ :
          occ[o].ten = t /\ occ[n].ten = t /\ occ[o].status \in Blocking /\ occ[n].status \in Blocking
             => o = n
    /\ \A t \in Ten : \A o \in Occ :
          ten[t].status = "CLOSED" /\ occ[o].ten = t => occ[o].status \notin Blocking
BY DEF OneAllocationPerTenancy, OccupanciesOf

(* The same of the state after a step.                                     *)
LEMMA OneAllocationByRowNext ==
  ASSUME \A t \in Ten : \A o, n \in Occ :
            occ'[o].ten = t /\ occ'[n].ten = t /\ occ'[o].status \in Blocking
               /\ occ'[n].status \in Blocking => o = n,
         \A t \in Ten : \A o \in Occ :
            ten'[t].status = "CLOSED" /\ occ'[o].ten = t => occ'[o].status \notin Blocking
  PROVE  OneAllocationPerTenancy'
<1>1. ASSUME NEW t \in Ten, NEW o \in OccupanciesOf(t, Blocking)'
      PROVE  o \in Occ /\ occ'[o].ten = t /\ occ'[o].status \in Blocking
  BY <1>1 DEF OccupanciesOf
<1>2. ASSUME NEW t \in Ten, NEW o \in OccupanciesOf(t, Blocking)', NEW n \in OccupanciesOf(t, Blocking)'
      PROVE  o = n
  BY <1>1, <1>2
<1>3. ASSUME NEW t \in Ten, ten'[t].status = "CLOSED"
      PROVE  OccupanciesOf(t, Blocking)' = {}
  BY <1>1, <1>3
<1> QED BY <1>2, <1>3 DEF OneAllocationPerTenancy

(* A step may leave the tenancies and their occupancies as they are, but   *)
(* for the columns this is not about ...                                   *)
TenanciesStay ==
    /\ \A o \in Occ : occ'[o].status = occ[o].status /\ occ'[o].ten = occ[o].ten
    /\ \A t \in Ten : /\ ten'[t].status = ten[t].status /\ ten'[t].sim = ten[t].sim
                      /\ ten'[t].moveOuts = ten[t].moveOuts

(* ... while no request comes to end or move one, or to discard one.       *)
NobodyLeaves ==
    \A q \in Proc : \/ proc'[q] = proc[q]
                    \/ proc'[q].pc \notin {"notice", "transfer", "moveout", "closing", "orphan"}

(* Then all that is known of them stays so.                                *)
LEMMA TenanciesKept ==
  ASSUME TenancyInv, TypeOK, TypeOK', TenanciesStay, NobodyLeaves
  PROVE  TenancyInv'
<1> USE DEF TenancyInv, TenanciesStay
<1>0. \A q \in Proc : proc[q].os \subseteq Occ /\ proc'[q].os \subseteq Occ
  BY DEF TypeOK, Request
<1>1. OneAllocationPerTenancy'
  <2>1. \A t \in Ten : \A o, n \in Occ :
          occ'[o].ten = t /\ occ'[n].ten = t /\ occ'[o].status \in Blocking
             /\ occ'[n].status \in Blocking => o = n
    BY OneAllocationByRow
  <2>2. \A t \in Ten : \A o \in Occ :
          ten'[t].status = "CLOSED" /\ occ'[o].ten = t => occ'[o].status \notin Blocking
    BY OneAllocationByRow
  <2> QED BY <2>1, <2>2, OneAllocationByRowNext
<1>2. OccupanciesOwned'
  <2>1. \A o \in Occ : occ'[o].status # "NONE" => occ'[o].ten \in Ten /\ ten'[occ'[o].ten].status # "NONE"
    BY DEF OccupanciesOwned
  <2>2. \A o \in Occ : occ'[o].status = "PENDING" => ten'[occ'[o].ten].status = "DRAFT"
    BY DEF OccupanciesOwned
  <2>3. \A t \in Ten : ten'[t].sim => ten'[t].status \in {"DRAFT", "CANCELLED"}
    BY DEF OccupanciesOwned
  <2>4. \A o \in Occ : occ'[o].status \in Living => ~ ten'[occ'[o].ten].sim
    BY DEF OccupanciesOwned, Living
  <2> QED BY <2>1, <2>2, <2>3, <2>4 DEF OccupanciesOwned
<1>3. LeavingKnown'
  <2>1. \A q \in Proc : Leaving(q)' =>
          /\ proc'[q].t \in Ten /\ ~ ten'[proc'[q].t].sim
          /\ ten'[proc'[q].t].status \notin {"NONE", "DRAFT"}
    BY DEF NobodyLeaves, LeavingKnown, LeaverKnown, Leaving
  <2>2. \A q \in Proc : proc'[q].pc \in {"transfer", "moveout"} =>
          \A o \in proc'[q].os : occ'[o].status # "NONE" /\ occ'[o].ten = proc'[q].t
    BY <1>0 DEF NobodyLeaves, LeavingKnown, LeaverKnown
  <2>3. \A q \in Proc : Closing(q)' =>
          /\ \A o \in proc'[q].os : occ'[o].status \in Living /\ occ'[o].ten = proc'[q].t
          /\ \A o \in Occ : occ'[o].status \in Blocking /\ occ'[o].ten = proc'[q].t => o \in proc'[q].os
    BY <1>0 DEF NobodyLeaves, LeavingKnown, LeaverKnown, Closing
  <2>4. \A q, s \in Proc : Closing(q)' /\ Closing(s)' /\ q # s => proc'[q].os \cap proc'[s].os = {}
    BY DEF NobodyLeaves, LeavingKnown, LeaverKnown, Closing
  <2>5. ASSUME NEW q \in Proc, proc'[q].pc = "orphan", NEW o \in proc'[q].os
        PROVE  /\ occ'[o].status # "NONE" /\ ten'[occ'[o].ten].sim
               /\ occ'[o].status = "PENDING" \/ ten'[occ'[o].ten].status = "CANCELLED"
    BY <1>0, <2>5 DEF NobodyLeaves, LeavingKnown, LeaverKnown, OccupanciesOwned
  <2> QED BY <2>1, <2>2, <2>3, <2>4, <2>5 DEF LeavingKnown, LeaverKnown
<1>4. ASSUME "notice" \notin Ops PROVE LeftOnce'
  <2>1. LeftOnce
    BY <1>4
  <2>2. MovedOutOnce' /\ \A t \in Ten : ten'[t].status \in Living => Lived(t)'
    BY <2>1 DEF LeftOnce, MovedOutOnce, Lived
  <2>3. \A o \in Occ : occ'[o].status \in Blocking => ten'[occ'[o].ten].moveOuts = 0
    BY <2>1 DEF LeftOnce, OccupanciesOwned, Blocking
  <2>4. \A q \in Proc : /\ proc'[q].pc # "notice"
                        /\ proc'[q].pc \in {"moveout", "closing"} => proc'[q].os # {}
    BY <2>1 DEF LeftOnce, NobodyLeaves
  <2> QED BY <2>2, <2>3, <2>4 DEF LeftOnce
<1> QED BY <1>1, <1>2, <1>3, <1>4

(* The tenancies stay where none is written, and nobody leaves where no    *)
(* request moves ...                                                       *)
LEMMA SameTenancies == occ' = occ /\ ten' = ten => TenanciesStay
BY DEF TenanciesStay

LEMMA SameLeavers == proc' = proc => NobodyLeaves
BY DEF NobodyLeaves

(* ... where the one that moves goes on to something else ...              *)
LEMMA NotLeaving ==
  ASSUME TypeOK, NEW p, NEW q, proc' = [proc EXCEPT ![p] = q],
         q.pc \notin {"notice", "transfer", "moveout", "closing", "orphan"}
  PROVE  NobodyLeaves
BY DEF NobodyLeaves, TypeOK

(* ... and where it is done.                                               *)
LEMMA LeaverDone ==
  ASSUME TypeOK, NEW p, Done(p)
  PROVE  NobodyLeaves
BY NotLeaving DEF Done, Idle

(* A new tenancy t with its first occupancy o. *)
LEMMA TenancyBegun ==
  ASSUME TypeOK, TypeOK', TenancyInv, NobodyLeaves,
         NEW t \in Ten, NEW o \in Occ, NEW x, NEW y,
         ten[t].status = "NONE", occ[o].status = "NONE",
         ten' = [ten EXCEPT ![t] = x], occ' = [occ EXCEPT ![o] = y],
         y.ten = t, x.moveOuts = 0,
         \/ y.status = "PENDING" /\ x.status = "DRAFT"
         \/ y.status = "ACTIVE" /\ x.status = "ACTIVE" /\ ~ x.sim
  PROVE  TenancyInv'
<1> USE DEF TenancyInv
<1>0. \A q \in Proc : proc[q].os \subseteq Occ /\ proc'[q].os \subseteq Occ
  BY DEF TypeOK, Request
<1>a. /\ occ'[o] = y /\ \A n \in Occ : n # o => occ'[n] = occ[n]
      /\ ten'[t] = x /\ \A s \in Ten : s # t => ten'[s] = ten[s]
  BY DEF TypeOK
<1>b. \A n \in Occ : occ[n].ten = t => occ[n].status = "NONE"
  BY DEF OccupanciesOwned
<1>1. OneAllocationPerTenancy'
  <2>1. \A s \in Ten : \A m, n \in Occ :
          occ'[m].ten = s /\ occ'[n].ten = s /\ occ'[m].status \in Blocking
             /\ occ'[n].status \in Blocking => m = n
    BY <1>a, <1>b, OneAllocationByRow DEF Blocking
  <2>2. \A s \in Ten : \A n \in Occ :
          ten'[s].status = "CLOSED" /\ occ'[n].ten = s => occ'[n].status \notin Blocking
    BY <1>a, <1>b, OneAllocationByRow DEF Blocking
  <2> QED BY <2>1, <2>2, OneAllocationByRowNext
<1>2. OccupanciesOwned'
  <2>1. \A n \in Occ : occ'[n].status # "NONE" => occ'[n].ten \in Ten /\ ten'[occ'[n].ten].status # "NONE"
    BY <1>a, <1>b DEF OccupanciesOwned
  <2>2. \A n \in Occ : occ'[n].status = "PENDING" => ten'[occ'[n].ten].status = "DRAFT"
    BY <1>a, <1>b DEF OccupanciesOwned
  <2>3. \A s \in Ten : ten'[s].sim => ten'[s].status \in {"DRAFT", "CANCELLED"}
    BY <1>a DEF OccupanciesOwned
  <2>4. \A n \in Occ : occ'[n].status \in Living => ~ ten'[occ'[n].ten].sim
    BY <1>a, <1>b DEF OccupanciesOwned, Living
  <2> QED BY <2>1, <2>2, <2>3, <2>4 DEF OccupanciesOwned
<1>3. LeavingKnown'
  <2>1. \A q \in Proc : Leaving(q)' =>
          /\ proc'[q].t \in Ten /\ ~ ten'[proc'[q].t].sim
          /\ ten'[proc'[q].t].status \notin {"NONE", "DRAFT"}
    BY <1>a DEF NobodyLeaves, LeavingKnown, LeaverKnown, Leaving
  <2>2. \A q \in Proc : proc'[q].pc \in {"transfer", "moveout"} =>
          \A n \in proc'[q].os : occ'[n].status # "NONE" /\ occ'[n].ten = proc'[q].t
    BY <1>0, <1>a DEF NobodyLeaves, LeavingKnown, LeaverKnown
  <2>3. ASSUME NEW q \in Proc, Closing(q)'
        PROVE  /\ \A n \in proc'[q].os : occ'[n].status \in Living /\ occ'[n].ten = proc'[q].t
               /\ \A n \in Occ : occ'[n].status \in Blocking /\ occ'[n].ten = proc'[q].t
                                    => n \in proc'[q].os
    <3>1. proc'[q] = proc[q] /\ Closing(q) /\ Leaving(q)
      BY <2>3 DEF NobodyLeaves, Closing, Leaving
    <3>2. proc[q].t # t
      BY <3>1 DEF LeavingKnown, LeaverKnown
    <3>3. o \notin proc[q].os
      BY <3>1 DEF LeavingKnown, LeaverKnown, Living
    <3> QED BY <1>0, <1>a, <3>1, <3>2, <3>3 DEF LeavingKnown, LeaverKnown
  <2>4. \A q, s \in Proc : Closing(q)' /\ Closing(s)' /\ q # s => proc'[q].os \cap proc'[s].os = {}
    BY DEF NobodyLeaves, LeavingKnown, LeaverKnown, Closing
  <2>5. ASSUME NEW q \in Proc, proc'[q].pc = "orphan", NEW n \in proc'[q].os
        PROVE  /\ occ'[n].status # "NONE" /\ ten'[occ'[n].ten].sim
               /\ occ'[n].status = "PENDING" \/ ten'[occ'[n].ten].status = "CANCELLED"
    <3>1. proc'[q] = proc[q]
      BY <2>5 DEF NobodyLeaves
    <3>2. /\ occ[n].status # "NONE" /\ ten[occ[n].ten].sim
          /\ occ[n].status = "PENDING" \/ ten[occ[n].ten].status = "CANCELLED"
      BY <2>5, <3>1 DEF LeavingKnown, LeaverKnown
    <3>3. n # o /\ n \in Occ /\ occ[n].ten # t /\ occ[n].ten \in Ten
      BY <1>0, <2>5, <3>2 DEF OccupanciesOwned
    <3> QED BY <1>a, <3>2, <3>3
  <2> QED BY <2>1, <2>2, <2>3, <2>4, <2>5 DEF LeavingKnown, LeaverKnown
<1>4. ASSUME "notice" \notin Ops PROVE LeftOnce'
  <2>1. LeftOnce
    BY <1>4
  <2>2. MovedOutOnce'
    BY <1>a, <2>1 DEF LeftOnce, MovedOutOnce
  <2>3. \A s \in Ten : ten'[s].status \in Living => Lived(s)'
    BY <1>a, <2>1 DEF LeftOnce, Lived, Living
  <2>4. \A n \in Occ : occ'[n].status \in Blocking => ten'[occ'[n].ten].moveOuts = 0
    BY <1>a, <1>b, <2>1 DEF LeftOnce, OccupanciesOwned, Blocking
  <2>5. \A q \in Proc : /\ proc'[q].pc # "notice"
                        /\ proc'[q].pc \in {"moveout", "closing"} => proc'[q].os # {}
    BY <2>1 DEF LeftOnce, NobodyLeaves
  <2> QED BY <2>2, <2>3, <2>4, <2>5 DEF LeftOnce
<1> QED BY <1>1, <1>2, <1>3, <1>4

-----------------------------------------------------------------------------
(* A request p that goes on to end, move or discard something, and writes  *)
(* nothing yet, has to know what it must know.                             *)
Something(q) == /\ proc[q].pc # "notice"
                /\ proc[q].pc \in {"moveout", "closing"} => proc[q].os # {}

(* Then everything else stays as it was known.                             *)
LEMMA LeaverComes ==
  ASSUME TypeOK, TenancyInv, NEW p \in Proc, NEW x, proc' = [proc EXCEPT ![p] = x],
         occ' = occ, ten' = ten, LeaverKnown(p)',
         \A q \in Proc : q # p /\ Closing(q) /\ Closing(p)' => x.os \cap proc[q].os = {},
         "notice" \notin Ops => Something(p)'
  PROVE  TenancyInv'
<1> USE DEF TenancyInv
<1>1. proc'[p] = x /\ \A q \in Proc : q # p => proc'[q] = proc[q]
  BY DEF TypeOK
<1>2. OneAllocationPerTenancy' /\ OccupanciesOwned'
  BY DEF OneAllocationPerTenancy, OccupanciesOf, OccupanciesOwned
<1>3. \A q \in Proc : LeaverKnown(q)'
  BY <1>1 DEF LeavingKnown, LeaverKnown, Leaving, Closing
<1>4. \A q, s \in Proc : Closing(q)' /\ Closing(s)' /\ q # s => proc'[q].os \cap proc'[s].os = {}
  BY <1>1 DEF LeavingKnown, Closing
<1>5. ASSUME "notice" \notin Ops PROVE LeftOnce'
  <2>1. LeftOnce
    BY <1>5
  <2>2. /\ MovedOutOnce'
        /\ \A t \in Ten : ten'[t].status \in Living => Lived(t)'
        /\ \A o \in Occ : occ'[o].status \in Blocking => ten'[occ'[o].ten].moveOuts = 0
    BY <2>1 DEF LeftOnce, MovedOutOnce, Lived
  <2>3. \A q \in Proc : /\ proc'[q].pc # "notice"
                        /\ proc'[q].pc \in {"moveout", "closing"} => proc'[q].os # {}
    BY <1>1, <1>5, <2>1 DEF LeftOnce, Something
  <2> QED BY <2>2, <2>3 DEF LeftOnce
<1> QED BY <1>2, <1>3, <1>4, <1>5 DEF LeavingKnown

(* A step that moves tenancy t on, with its occupancies, and no other:     *)
(* what it has to leave right.                                             *)
LEMMA TenancyMovesOn ==
  ASSUME TypeOK, TypeOK', TenancyInv, NobodyLeaves, NEW t \in Ten,
         ~ ten[t].sim, ~ ten'[t].sim, ten[t].status # "NONE", ten'[t].status \notin {"NONE", "DRAFT"},
         \A s \in Ten : s # t => ten'[s] = ten[s],
         \A n \in Occ : \/ occ'[n] = occ[n]
                        \/ /\ occ[n].status = "NONE" \/ occ[n].ten = t
                           /\ occ'[n].ten = t /\ occ'[n].status # "NONE",
         \A n \in Occ : occ'[n].ten = t => occ'[n].status # "PENDING",
         \A m, n \in Occ : occ'[m].ten = t /\ occ'[n].ten = t /\ occ'[m].status \in Blocking
                              /\ occ'[n].status \in Blocking => m = n,
         ten'[t].status = "CLOSED" => \A n \in Occ : occ'[n].ten = t => occ'[n].status \notin Blocking,
         \A q \in Proc : Closing(q) /\ Closing(q)' /\ proc[q].t = t =>
            /\ \A n \in proc[q].os : occ'[n].status \in Living /\ occ'[n].ten = t
            /\ \A n \in Occ : occ'[n].status \in Blocking /\ occ'[n].ten = t => n \in proc[q].os
  PROVE  OneAllocationPerTenancy' /\ OccupanciesOwned' /\ LeavingKnown'
<1> USE DEF TenancyInv
<1>0. \A q \in Proc : proc[q].os \subseteq Occ /\ proc'[q].os \subseteq Occ
  BY DEF TypeOK, Request
<1>1. OneAllocationPerTenancy'
  <2>1. \A s \in Ten : \A m, n \in Occ :
          occ'[m].ten = s /\ occ'[n].ten = s /\ occ'[m].status \in Blocking
             /\ occ'[n].status \in Blocking => m = n
    BY OneAllocationByRow
  <2>2. \A s \in Ten : \A n \in Occ :
          ten'[s].status = "CLOSED" /\ occ'[n].ten = s => occ'[n].status \notin Blocking
    BY OneAllocationByRow
  <2> QED BY <2>1, <2>2, OneAllocationByRowNext
<1>2. OccupanciesOwned'
  <2>1. \A n \in Occ : occ'[n].status # "NONE" => occ'[n].ten \in Ten /\ ten'[occ'[n].ten].status # "NONE"
    BY DEF OccupanciesOwned
  <2>2. \A n \in Occ : occ'[n].status = "PENDING" => ten'[occ'[n].ten].status = "DRAFT"
    BY DEF OccupanciesOwned
  <2>3. \A s \in Ten : ten'[s].sim => ten'[s].status \in {"DRAFT", "CANCELLED"}
    BY DEF OccupanciesOwned
  <2>4. \A n \in Occ : occ'[n].status \in Living => ~ ten'[occ'[n].ten].sim
    BY DEF OccupanciesOwned, Living
  <2> QED BY <2>1, <2>2, <2>3, <2>4 DEF OccupanciesOwned
<1>3. LeavingKnown'
  <2>1. \A q \in Proc : Leaving(q)' =>
          /\ proc'[q].t \in Ten /\ ~ ten'[proc'[q].t].sim
          /\ ten'[proc'[q].t].status \notin {"NONE", "DRAFT"}
    BY DEF NobodyLeaves, LeavingKnown, LeaverKnown, Leaving
  <2>2. ASSUME NEW q \in Proc, proc'[q].pc \in {"transfer", "moveout"}, NEW n \in proc'[q].os
        PROVE  occ'[n].status # "NONE" /\ occ'[n].ten = proc'[q].t
    <3>1. proc'[q] = proc[q] /\ n \in Occ
      BY <1>0, <2>2 DEF NobodyLeaves
    <3>2. occ[n].status # "NONE" /\ occ[n].ten = proc[q].t
      BY <2>2, <3>1 DEF LeavingKnown, LeaverKnown
    <3> QED BY <3>1, <3>2
  <2>3. ASSUME NEW q \in Proc, Closing(q)'
        PROVE  /\ \A n \in proc'[q].os : occ'[n].status \in Living /\ occ'[n].ten = proc'[q].t
               /\ \A n \in Occ : occ'[n].status \in Blocking /\ occ'[n].ten = proc'[q].t
                                    => n \in proc'[q].os
    <3>1. proc'[q] = proc[q] /\ Closing(q)
      BY <2>3 DEF NobodyLeaves, Closing
    <3>2. CASE proc[q].t = t
      BY <2>3, <3>1, <3>2
    <3>3. CASE proc[q].t # t
      <4>1. ASSUME NEW n \in proc[q].os
            PROVE  occ'[n].status \in Living /\ occ'[n].ten = proc[q].t
        <5>1. n \in Occ /\ occ[n].status \in Living /\ occ[n].ten = proc[q].t
          BY <1>0, <3>1, <4>1 DEF LeavingKnown, LeaverKnown
        <5> QED BY <3>3, <5>1 DEF Living
      <4>2. ASSUME NEW n \in Occ, occ'[n].status \in Blocking, occ'[n].ten = proc[q].t
            PROVE  n \in proc[q].os
        BY <3>1, <3>3, <4>2 DEF LeavingKnown, LeaverKnown
      <4> QED BY <3>1, <4>1, <4>2
    <3> QED BY <3>2, <3>3
  <2>4. \A q, s \in Proc : Closing(q)' /\ Closing(s)' /\ q # s => proc'[q].os \cap proc'[s].os = {}
    BY DEF NobodyLeaves, LeavingKnown, Closing
  <2>5. ASSUME NEW q \in Proc, proc'[q].pc = "orphan", NEW n \in proc'[q].os
        PROVE  /\ occ'[n].status # "NONE" /\ ten'[occ'[n].ten].sim
               /\ occ'[n].status = "PENDING" \/ ten'[occ'[n].ten].status = "CANCELLED"
    <3>1. proc'[q] = proc[q] /\ n \in Occ
      BY <1>0, <2>5 DEF NobodyLeaves
    <3>2. /\ occ[n].status # "NONE" /\ ten[occ[n].ten].sim
          /\ occ[n].status = "PENDING" \/ ten[occ[n].ten].status = "CANCELLED"
      BY <2>5, <3>1 DEF LeavingKnown, LeaverKnown
    <3>3. occ[n].ten # t /\ occ[n].ten \in Ten
      BY <3>1, <3>2 DEF OccupanciesOwned
    <3> QED BY <3>1, <3>2, <3>3
  <2> QED BY <2>1, <2>2, <2>3, <2>4, <2>5 DEF LeavingKnown, LeaverKnown
<1> QED BY <1>1, <1>2, <1>3

(* ... and, without notices, what makes it leave once.                     *)
LEMMA TenancyMovesOnce ==
  ASSUME TypeOK, TypeOK', LeftOnce, OccupanciesOwned, OccupanciesOwned', NobodyLeaves, NEW t \in Ten,
         \A s \in Ten : s # t => ten'[s] = ten[s],
         \A n \in Occ : \/ occ'[n] = occ[n]
                        \/ /\ occ[n].status = "NONE" \/ occ[n].ten = t
                           /\ occ'[n].ten = t /\ occ'[n].status # "NONE",
         ten'[t].moveOuts <= 1,
         ten'[t].status \in Living => \E n \in Occ : occ'[n].status \in Living /\ occ'[n].ten = t,
         ten'[t].moveOuts = 0 \/ \A n \in Occ : occ'[n].ten = t => occ'[n].status \notin Blocking
  PROVE  LeftOnce'
<1>1. MovedOutOnce'
  BY DEF LeftOnce, MovedOutOnce
<1>2. ASSUME NEW s \in Ten, ten'[s].status \in Living PROVE Lived(s)'
  <2>1. CASE s = t
    BY <1>2, <2>1 DEF Lived
  <2>2. CASE s # t
    <3>1. Lived(s)
      BY <1>2, <2>2 DEF LeftOnce
    <3>2. PICK n \in Occ : occ[n].status \in Living /\ occ[n].ten = s
      BY <3>1 DEF Lived
    <3>3. occ'[n] = occ[n]
      BY <2>2, <3>2 DEF Living
    <3> QED BY <3>2, <3>3 DEF Lived
  <2> QED BY <2>1, <2>2
<1>3. ASSUME NEW n \in Occ, occ'[n].status \in Blocking PROVE ten'[occ'[n].ten].moveOuts = 0
  <2>1. occ'[n].ten \in Ten
    BY <1>3 DEF OccupanciesOwned, Blocking
  <2>2. CASE occ'[n].ten = t
    BY <1>3, <2>2
  <2>3. CASE occ'[n].ten # t
    BY <1>3, <2>1, <2>3 DEF LeftOnce
  <2> QED BY <2>2, <2>3
<1>4. \A q \in Proc : /\ proc'[q].pc # "notice"
                      /\ proc'[q].pc \in {"moveout", "closing"} => proc'[q].os # {}
  BY DEF LeftOnce, NobodyLeaves
<1> QED BY <1>1, <1>2, <1>3, <1>4 DEF LeftOnce

-----------------------------------------------------------------------------
(* The handover of the keys finds the one allocation of its tenancy, which *)
(* no move-out has locked.                                                 *)
LEMMA HandoverKeepsTenancies ==
  ASSUME TypeOK, TypeOK', TenancyInv, NEW p \in Proc, NEW o \in Occ, LegacyCommit(p, o)
  PROVE  TenancyInv'
<1> USE DEF TenancyInv
<1> PICK t : t = proc[p].t
  OBVIOUS
<1>1. /\ ten[t].status \in {"DRAFT", "ACTIVE", "NOTICE_GIVEN"} /\ ~ ten[t].sim
      /\ OccupanciesOf(t, Blocking) = {o} /\ OccupanciesUnlocked({o})
      /\ occ' = [occ EXCEPT ![o].status = "ACTIVE"]
      /\ ten' = [ten EXCEPT ![t].status = "ACTIVE", ![t].handed = TRUE]
      /\ Done(p)
  BY DEF LegacyCommit, HandoverReady
<1>2. /\ occ[o].status \in Blocking /\ occ[o].ten = t
      /\ \A n \in Occ : occ[n].status \in Blocking /\ occ[n].ten = t => n = o
  BY <1>1 DEF OccupanciesOf
<1>3. t \in Ten
  BY <1>2 DEF OccupanciesOwned, Blocking
<1>4. /\ \A s \in Ten : s # t => ten'[s] = ten[s]
      /\ ten'[t].status = "ACTIVE" /\ ten'[t].sim = ten[t].sim /\ ten'[t].moveOuts = ten[t].moveOuts
  BY <1>1, <1>3 DEF TypeOK, Tenancy
<1>5. /\ \A n \in Occ : n # o => occ'[n] = occ[n]
      /\ occ'[o].status = "ACTIVE" /\ occ'[o].ten = t
  BY <1>1, <1>2 DEF TypeOK, Occupancy
<1>6. \A q \in Proc : Closing(q) => proc[q].t # t
  BY <1>1, <1>2 DEF OccupanciesUnlocked, Closing, LeavingKnown, LeaverKnown
<1>7. NobodyLeaves
  BY <1>1, LeaverDone
<1>8. \A m \in Occ : occ'[m].ten = t /\ occ'[m].status \in Blocking => m = o
  BY <1>2, <1>5
<1>9. \A n \in Occ : occ'[n].ten = t => occ'[n].status # "PENDING"
  BY <1>2, <1>5 DEF Blocking
<1>10. OneAllocationPerTenancy' /\ OccupanciesOwned' /\ LeavingKnown'
  <2>1. ~ ten'[t].sim /\ ten[t].status # "NONE" /\ ten'[t].status \notin {"NONE", "DRAFT", "CLOSED"}
    BY <1>1, <1>4
  <2>2. \A n \in Occ : \/ occ'[n] = occ[n]
                       \/ /\ occ[n].status = "NONE" \/ occ[n].ten = t
                          /\ occ'[n].ten = t /\ occ'[n].status # "NONE"
    BY <1>2, <1>5
  <2>3. /\ ~ ten[t].sim
        /\ \A m, n \in Occ : occ'[m].ten = t /\ occ'[n].ten = t /\ occ'[m].status \in Blocking
                                /\ occ'[n].status \in Blocking => m = n
    BY <1>1, <1>8
  <2> QED BY <1>3, <1>4, <1>6, <1>7, <1>9, <2>1, <2>2, <2>3, TenancyMovesOn
<1>11. ASSUME "notice" \notin Ops PROVE LeftOnce'
  <2>1. LeftOnce
    BY <1>11
  <2>2. ten'[t].moveOuts = 0
    BY <1>2, <1>4, <2>1 DEF LeftOnce
  <2>3. \E n \in Occ : occ'[n].status \in Living /\ occ'[n].ten = t
    BY <1>5 DEF Living
  <2> QED BY <1>2, <1>3, <1>4, <1>5, <1>7, <1>10, <2>1, <2>2, <2>3, TenancyMovesOnce
<1> QED BY <1>10, <1>11

(* A transfer swaps the one allocation of its tenancy for another.         *)
LEMMA TransferKeepsTenancies ==
  ASSUME TypeOK, TypeOK', TenancyInv, NEW p \in Proc, NEW o \in Occ, NEW n \in Occ,
         TransferCommit(p, o, n)
  PROVE  TenancyInv'
<1> USE DEF TenancyInv
<1> PICK t : t = proc[p].t
  OBVIOUS
<1>1. /\ proc[p].pc = "transfer" /\ proc[p].os = {o}
      /\ OccupanciesUnlocked({o})
      /\ occ[o].status = "ACTIVE" /\ occ[n].status = "NONE"
      /\ ten' = [ten EXCEPT ![t].status = "ACTIVE"]
      /\ Done(p)
  BY DEF TransferCommit, NextRow
<1>2. PICK v : occ' = [occ EXCEPT ![o].status = "MOVED_OUT",
                                  ![n] = [status |-> "ACTIVE", unit |-> v, ten |-> t]]
  BY DEF TransferCommit
<1>3. t \in Ten /\ ~ ten[t].sim /\ ten[t].status \notin {"NONE", "DRAFT"} /\ occ[o].ten = t
  BY <1>1 DEF LeavingKnown, LeaverKnown, Leaving
<1>4. \A m \in Occ : occ[m].ten = t /\ occ[m].status \in Blocking => m = o
  BY <1>1, <1>3, OneAllocationByRow DEF Blocking
<1>5. /\ \A s \in Ten : s # t => ten'[s] = ten[s]
      /\ ten'[t].status = "ACTIVE" /\ ten'[t].sim = ten[t].sim /\ ten'[t].moveOuts = ten[t].moveOuts
  BY <1>1, <1>3 DEF TypeOK, Tenancy
<1>6. /\ \A m \in Occ : m # o /\ m # n => occ'[m] = occ[m]
      /\ occ'[o].status = "MOVED_OUT" /\ occ'[o].ten = t
      /\ occ'[n].status = "ACTIVE" /\ occ'[n].ten = t
  BY <1>1, <1>2, <1>3 DEF TypeOK, Occupancy
<1>7. \A q \in Proc : Closing(q) => proc[q].t # t
  BY <1>1, <1>3 DEF OccupanciesUnlocked, Closing, LeavingKnown, LeaverKnown, Blocking
<1>8. NobodyLeaves
  BY <1>1, LeaverDone
<1>9. \A m \in Occ : occ'[m].ten = t /\ occ'[m].status \in Blocking => m = n
  BY <1>4, <1>6 DEF Blocking
<1>10. \A m \in Occ : occ'[m].ten = t => occ'[m].status # "PENDING"
  BY <1>1, <1>4, <1>6 DEF Blocking
<1>11. OneAllocationPerTenancy' /\ OccupanciesOwned' /\ LeavingKnown'
  BY <1>1, <1>3, <1>5, <1>6, <1>7, <1>8, <1>9, <1>10, TenancyMovesOn
<1>12. ASSUME "notice" \notin Ops PROVE LeftOnce'
  <2>1. LeftOnce
    BY <1>12
  <2>2. ten'[t].moveOuts = 0
    BY <1>1, <1>3, <1>5, <2>1 DEF LeftOnce, Blocking
  <2>3. \E m \in Occ : occ'[m].status \in Living /\ occ'[m].ten = t
    BY <1>6 DEF Living
  <2> QED BY <1>1, <1>3, <1>5, <1>6, <1>8, <1>11, <2>1, <2>2, <2>3, TenancyMovesOnce
<1> QED BY <1>11, <1>12

(* A notice moves the occupancies of its tenancy on, the locked ones only  *)
(* once they are free.                                                     *)
LEMMA NoticeKeepsTenancies ==
  ASSUME TypeOK, TypeOK', TenancyInv, NEW p \in Proc, NoticeCommit(p)
  PROVE  TenancyInv'
<1> USE DEF TenancyInv
<1> PICK t : t = proc[p].t
  OBVIOUS
<1>1. /\ proc[p].pc = "notice"
      /\ ten' = [ten EXCEPT ![t].status = "NOTICE_GIVEN"]
      /\ \A o \in Occ : occ'[o] = IF o \in OccupanciesOf(t, {"ACTIVE"})
                                  THEN [occ[o] EXCEPT !.status = "NOTICE_GIVEN"] ELSE occ[o]
      /\ Done(p)
  BY DEF NoticeCommit
<1>2. t \in Ten /\ ~ ten[t].sim /\ ten[t].status \notin {"NONE", "DRAFT"}
  BY <1>1 DEF LeavingKnown, LeaverKnown, Leaving
<1>3. /\ \A s \in Ten : s # t => ten'[s] = ten[s]
      /\ ten'[t].status = "NOTICE_GIVEN" /\ ten'[t].sim = ten[t].sim
  BY <1>1, <1>2 DEF TypeOK, Tenancy
<1>4. \A o \in Occ : \/ occ'[o] = occ[o]
                     \/ /\ occ[o].status = "ACTIVE" /\ occ[o].ten = t
                        /\ occ'[o].status = "NOTICE_GIVEN" /\ occ'[o].ten = t
  BY <1>1, RowTypes DEF Occupancy, OccupanciesOf
<1>5. NobodyLeaves
  BY <1>1, LeaverDone
<1>6. \A m, n \in Occ : occ'[m].ten = t /\ occ'[n].ten = t /\ occ'[m].status \in Blocking
                              /\ occ'[n].status \in Blocking => m = n
  BY <1>2, <1>4, OneAllocationByRow DEF Blocking
<1>7. \A m \in Occ : occ'[m].ten = t => occ'[m].status # "PENDING"
  BY <1>2, <1>4 DEF OccupanciesOwned
<1>8. ASSUME NEW q \in Proc, Closing(q), Closing(q)', proc[q].t = t
      PROVE  /\ \A n \in proc[q].os : occ'[n].status \in Living /\ occ'[n].ten = t
             /\ \A n \in Occ : occ'[n].status \in Blocking /\ occ'[n].ten = t => n \in proc[q].os
  <2>1. proc[q].os \subseteq Occ
    BY DEF TypeOK, Request
  <2> QED BY <1>4, <1>8, <2>1 DEF LeavingKnown, LeaverKnown, Living, Blocking
<1>9. OneAllocationPerTenancy' /\ OccupanciesOwned' /\ LeavingKnown'
  BY <1>2, <1>3, <1>4, <1>5, <1>6, <1>7, <1>8, TenancyMovesOn
<1>10. "notice" \notin Ops => FALSE
  BY <1>1 DEF LeftOnce
<1> QED BY <1>9, <1>10

(* A move-out ends all that is left of its tenancy.                        *)
LEMMA MoveOutKeepsTenancies ==
  ASSUME TypeOK, TypeOK', TenancyInv, NEW p \in Proc, MoveOutCommit(p)
  PROVE  TenancyInv'
<1> USE DEF TenancyInv
<1> PICK t : t = proc[p].t
  OBVIOUS
<1>1. /\ proc[p].pc = "closing"
      /\ ten' = [ten EXCEPT ![t].status = "CLOSED", ![t].moveOuts = IF @ = 2 THEN @ ELSE @ + 1]
      /\ \A o \in Occ : occ'[o] = IF o \in proc[p].os THEN [occ[o] EXCEPT !.status = "MOVED_OUT"]
                                  ELSE occ[o]
      /\ Done(p)
  BY DEF MoveOutCommit
<1>2. t \in Ten /\ ~ ten[t].sim /\ ten[t].status \notin {"NONE", "DRAFT"}
  BY <1>1 DEF LeavingKnown, LeaverKnown, Leaving
<1>3. /\ proc[p].os \subseteq Occ
      /\ \A o \in proc[p].os : occ[o].status \in Living /\ occ[o].ten = t
      /\ \A o \in Occ : occ[o].status \in Blocking /\ occ[o].ten = t => o \in proc[p].os
  BY <1>1 DEF LeavingKnown, LeaverKnown, Closing, TypeOK, Request
<1>4. /\ \A s \in Ten : s # t => ten'[s] = ten[s]
      /\ ten'[t].status = "CLOSED" /\ ten'[t].sim = ten[t].sim
      /\ ten[t].moveOuts = 0 => ten'[t].moveOuts = 1
  BY <1>1, <1>2 DEF TypeOK, Tenancy
<1>5. \A o \in Occ : \/ occ'[o] = occ[o] /\ o \notin proc[p].os
                     \/ o \in proc[p].os /\ occ'[o].status = "MOVED_OUT" /\ occ'[o].ten = t
  BY <1>1, <1>3, RowTypes DEF Occupancy
<1>6. NobodyLeaves
  BY <1>1, LeaverDone
<1>7. \A o \in Occ : occ'[o].ten = t => occ'[o].status \notin Blocking
  BY <1>3, <1>5 DEF Blocking
<1>8. ASSUME NEW q \in Proc, Closing(q), Closing(q)', proc[q].t = t
      PROVE  proc[q].os = {} /\ \A n \in Occ : occ'[n].status \in Blocking /\ occ'[n].ten = t => FALSE
  <2>1. q # p
    BY <1>1, <1>8 DEF Done, Idle, Closing, TypeOK
  <2>2. proc[q].os \cap proc[p].os = {}
    BY <1>1, <1>8, <2>1 DEF LeavingKnown, Closing
  <2>3. \A n \in proc[q].os : occ[n].status \in Living /\ occ[n].ten = t /\ n \in Occ
    BY <1>8 DEF LeavingKnown, LeaverKnown, TypeOK, Request
  <2> QED BY <1>3, <1>7, <2>2, <2>3 DEF Blocking, Living
<1>9. OneAllocationPerTenancy' /\ OccupanciesOwned' /\ LeavingKnown'
  <2>1. \A n \in Occ : \/ occ'[n] = occ[n]
                       \/ /\ occ[n].status = "NONE" \/ occ[n].ten = t
                          /\ occ'[n].ten = t /\ occ'[n].status # "NONE"
    BY <1>3, <1>5
  <2>2. /\ \A n \in Occ : occ'[n].ten = t => occ'[n].status # "PENDING"
        /\ \A m, n \in Occ : occ'[m].ten = t /\ occ'[n].ten = t /\ occ'[m].status \in Blocking
                                /\ occ'[n].status \in Blocking => m = n
    BY <1>7 DEF Blocking
  <2> QED BY <1>2, <1>4, <1>6, <1>7, <1>8, <2>1, <2>2, TenancyMovesOn
<1>10. ASSUME "notice" \notin Ops PROVE LeftOnce'
  <2>1. LeftOnce
    BY <1>10
  <2>2. proc[p].os # {}
    BY <1>1, <2>1 DEF LeftOnce
  <2>3. ten[t].moveOuts = 0
    BY <1>3, <2>1, <2>2 DEF LeftOnce, Living, Blocking
  <2>4. \A n \in Occ : \/ occ'[n] = occ[n]
                       \/ /\ occ[n].status = "NONE" \/ occ[n].ten = t
                          /\ occ'[n].ten = t /\ occ'[n].status # "NONE"
    BY <1>3, <1>5
  <2> QED BY <1>2, <1>4, <1>6, <1>7, <1>9, <2>1, <2>3, <2>4, TenancyMovesOnce DEF Living
<1> QED BY <1>9, <1>10

-----------------------------------------------------------------------------
(* What the requests know once they have read: a transfer ...              *)
LEMMA TransferComes ==
  ASSUME TypeOK, TenancyInv, NEW p \in Proc, NEW t \in Ten, NEW v \in Unit, NEW o \in Occ,
         TransferRead(p, t, v, o)
  PROVE  TenancyInv'
<1> DEFINE x == [Idle EXCEPT !.pc = "transfer", !.t = t, !.u = v, !.os = {o}]
<1>1. /\ proc' = [proc EXCEPT ![p] = x] /\ occ' = occ /\ ten' = ten
      /\ ten[t].status = "ACTIVE" /\ OccupanciesOf(t, {"ACTIVE"}) = {o}
  BY DEF TransferRead
<1>2. x.pc = "transfer" /\ x.t = t /\ x.os = {o}
  BY DEF Idle
<1> HIDE DEF x
<1>3. proc'[p] = x
  BY <1>1 DEF TypeOK
<1>4. occ[o].status = "ACTIVE" /\ occ[o].ten = t /\ ~ ten[t].sim
  BY <1>1 DEF OccupanciesOf, TenancyInv, OccupanciesOwned
<1>5. LeaverKnown(p)'
  BY <1>1, <1>2, <1>3, <1>4 DEF LeaverKnown, Leaving, Closing
<1>6. Something(p)' /\ ~ Closing(p)'
  BY <1>2, <1>3 DEF Something, Closing
<1> QED BY <1>1, <1>5, <1>6, LeaverComes

(* ... a notice ...                                                        *)
LEMMA NoticeComes ==
  ASSUME TypeOK, TenancyInv, NEW p \in Proc, NEW t \in Ten, NoticeRead(p, t)
  PROVE  TenancyInv'
<1> DEFINE x == [Idle EXCEPT !.pc = "notice", !.t = t]
<1>1. /\ proc' = [proc EXCEPT ![p] = x] /\ occ' = occ /\ ten' = ten
      /\ ten[t].status = "ACTIVE" /\ "notice" \in Ops
  BY DEF NoticeRead, Start
<1>2. x.pc = "notice" /\ x.t = t
  BY DEF Idle
<1> HIDE DEF x
<1>3. proc'[p] = x
  BY <1>1 DEF TypeOK
<1>4. ~ ten[t].sim
  BY <1>1 DEF TenancyInv, OccupanciesOwned
<1>5. LeaverKnown(p)'
  BY <1>1, <1>2, <1>3, <1>4 DEF LeaverKnown, Leaving, Closing
<1>6. ~ Closing(p)'
  BY <1>2, <1>3 DEF Closing
<1> QED BY <1>1, <1>5, <1>6, LeaverComes

(* ... a move-out ...                                                      *)
LEMMA MoveOutComes ==
  ASSUME TypeOK, TenancyInv, NEW p \in Proc, NEW t \in Ten, MoveOutRead(p, t)
  PROVE  TenancyInv'
<1> DEFINE x == [Idle EXCEPT !.pc = "moveout", !.t = t, !.os = OccupanciesOf(t, Living)]
<1>1. /\ proc' = [proc EXCEPT ![p] = x] /\ occ' = occ /\ ten' = ten
      /\ ten[t].status \in Living
  BY DEF MoveOutRead
<1>2. x.pc = "moveout" /\ x.t = t /\ x.os = OccupanciesOf(t, Living)
  BY DEF Idle
<1> HIDE DEF x
<1>3. proc'[p] = x
  BY <1>1 DEF TypeOK
<1>4. ~ ten[t].sim /\ ten[t].status \notin {"NONE", "DRAFT"}
  BY <1>1 DEF TenancyInv, OccupanciesOwned, Living
<1>5. \A o \in x.os : occ[o].status # "NONE" /\ occ[o].ten = t
  BY <1>2 DEF OccupanciesOf, Living
<1>6. LeaverKnown(p)'
  BY <1>1, <1>2, <1>3, <1>4, <1>5 DEF LeaverKnown, Leaving, Closing
<1>7. "notice" \notin Ops => Something(p)'
  BY <1>1, <1>2, <1>3 DEF Something, TenancyInv, LeftOnce, Lived, OccupanciesOf
<1>8. ~ Closing(p)'
  BY <1>2, <1>3 DEF Closing
<1> QED BY <1>1, <1>6, <1>7, <1>8, LeaverComes

(* ... that has locked as many occupancies as it read ...                  *)
LEMMA MoveOutClaims ==
  ASSUME TypeOK, TenancyInv, NEW p \in Proc, MoveOutClaim(p)
  PROVE  TenancyInv'
<1> PICK t : t = proc[p].t
  OBVIOUS
<1> PICK claimed : claimed = OccupanciesOf(t, Living)
  OBVIOUS
<1>1. /\ proc[p].pc = "moveout" /\ occ' = occ /\ ten' = ten
      /\ OccupanciesUnlocked(claimed)
      /\ Cardinality(claimed) = Cardinality(proc[p].os)
  BY DEF MoveOutClaim
<1>2. PICK plan : proc' = [proc EXCEPT ![p].pc = "closing", ![p].os = claimed, ![p].plan = plan]
  BY DEF MoveOutClaim
<1> DEFINE x == [proc[p] EXCEPT !.pc = "closing", !.os = claimed, !.plan = plan]
<1>3. proc' = [proc EXCEPT ![p] = x] /\ proc'[p] = x
  BY <1>2 DEF TypeOK
<1>4. x.pc = "closing" /\ x.t = t /\ x.os = claimed
  BY DEF TypeOK, Request
<1> HIDE DEF x
<1>5. t \in Ten /\ ~ ten[t].sim /\ ten[t].status \notin {"NONE", "DRAFT"}
  BY <1>1 DEF TenancyInv, LeavingKnown, LeaverKnown, Leaving
<1>6. /\ \A o \in claimed : occ[o].status \in Living /\ occ[o].ten = t
      /\ \A o \in Occ : occ[o].status \in Blocking /\ occ[o].ten = t => o \in claimed
  BY <1>5 DEF TenancyInv, OccupanciesOwned, OccupanciesOf, Living, Blocking
<1>7. LeaverKnown(p)'
  BY <1>1, <1>3, <1>4, <1>5, <1>6 DEF LeaverKnown, Leaving, Closing
<1>8. \A q \in Proc : q # p /\ Closing(q) /\ Closing(p)' => x.os \cap proc[q].os = {}
  BY <1>1, <1>4 DEF OccupanciesUnlocked, Closing
<1>9. ASSUME "notice" \notin Ops PROVE Something(p)'
  <2>1. IsFiniteSet(claimed) /\ IsFiniteSet(proc[p].os)
    <3>1. IsFiniteSet(Occ)
      BY BoundsAssumption, FS_Interval DEF Occ
    <3>2. claimed \subseteq Occ /\ proc[p].os \subseteq Occ
      BY DEF OccupanciesOf, TypeOK, Request
    <3> QED BY <3>1, <3>2, FS_Subset
  <2>2. proc[p].os # {}
    BY <1>1, <1>9 DEF TenancyInv, LeftOnce
  <2>3. claimed # {}
    BY <1>1, <2>1, <2>2, FS_EmptySet
  <2> QED BY <1>3, <1>4, <2>3 DEF Something
<1> QED BY <1>1, <1>3, <1>7, <1>8, <1>9, LeaverComes

(* ... and a clean-up.                                                     *)
LEMMA CleanUpComes ==
  ASSUME TypeOK, TenancyInv, NEW p \in Proc, NEW u \in Unit, OrphanRead(p, u)
  PROVE  TenancyInv'
<1>1. PICK test : /\ proc' = [proc EXCEPT ![p] = [Idle EXCEPT !.pc = "orphan", !.u = u, !.os = test]]
                  /\ \A o \in test : occ[o].status = "PENDING" /\ ten[occ[o].ten].sim
                  /\ occ' = occ /\ ten' = ten
  BY DEF OrphanRead
<1> DEFINE x == [Idle EXCEPT !.pc = "orphan", !.u = u, !.os = test]
<1>2. x.pc = "orphan" /\ x.os = test
  BY DEF Idle
<1> HIDE DEF x
<1>3. proc' = [proc EXCEPT ![p] = x]
  BY <1>1 DEF x
<1>4. proc'[p] = x
  BY <1>3 DEF TypeOK
<1>5. LeaverKnown(p)'
  BY <1>1, <1>2, <1>4 DEF LeaverKnown, Leaving, Closing
<1>6. Something(p)' /\ ~ Closing(p)'
  BY <1>2, <1>4 DEF Something, Closing
<1> QED BY <1>1, <1>3, <1>5, <1>6, LeaverComes

(* A clean-up discards simulated drafts, which no other request works on.  *)
LEMMA CleanUpKeepsTenancies ==
  ASSUME TypeOK, TypeOK', TenancyInv, NEW p \in Proc, OrphanRelease(p)
  PROVE  TenancyInv'
<1> USE DEF TenancyInv
<1> PICK test : test = proc[p].os
  OBVIOUS
<1>0. \A q \in Proc : proc[q].os \subseteq Occ /\ proc'[q].os \subseteq Occ
  BY DEF TypeOK, Request
<1>1. /\ \A o \in Occ : occ'[o] = IF o \in test THEN [occ[o] EXCEPT !.status = "CANCELLED"] ELSE occ[o]
      /\ \A t \in Ten : ten'[t] = IF \E o \in test : occ[o].ten = t
                                  THEN [ten[t] EXCEPT !.status = "CANCELLED",
                                          !.doc = IF @ = "SIGNED" THEN @ ELSE "CANCELLED"]
                                  ELSE ten[t]
      /\ proc[p].pc = "orphan" /\ Done(p)
  BY DEF OrphanRelease
<1>2. \A o \in test : /\ o \in Occ /\ occ[o].status # "NONE" /\ ten[occ[o].ten].sim
                      /\ occ[o].status = "PENDING" \/ ten[occ[o].ten].status = "CANCELLED"
                      /\ occ[o].ten \in Ten
  BY <1>0, <1>1 DEF LeavingKnown, LeaverKnown, OccupanciesOwned
<1>3. \A o \in Occ : \/ occ'[o] = occ[o] /\ o \notin test
                     \/ o \in test /\ occ'[o].status = "CANCELLED" /\ occ'[o].ten = occ[o].ten
  BY <1>1, RowTypes DEF Occupancy
<1>4. \A t \in Ten : \/ ten'[t] = ten[t] /\ \A o \in test : occ[o].ten # t
                     \/ /\ \E o \in test : occ[o].ten = t
                        /\ ten[t].sim /\ ten'[t].sim /\ ten'[t].status = "CANCELLED"
                        /\ ten'[t].moveOuts = ten[t].moveOuts
  <2> SUFFICES ASSUME NEW t \in Ten, \E o \in test : occ[o].ten = t
               PROVE  /\ ten[t].sim /\ ten'[t].sim /\ ten'[t].status = "CANCELLED"
                      /\ ten'[t].moveOuts = ten[t].moveOuts
    BY <1>1
  <2>1. ten[t].sim
    BY <1>2
  <2>2. PICK d : ten'[t] = [ten[t] EXCEPT !.status = "CANCELLED", !.doc = d]
    BY <1>1
  <2> QED BY <2>1, <2>2, RowTypes DEF Tenancy
<1>5. NobodyLeaves
  <2>1. \A q \in Proc : q # p => proc'[q] = proc[q]
    BY <1>1 DEF Done, TypeOK
  <2>2. proc'[p].pc = "idle"
    BY <1>1 DEF Done, TypeOK, Idle
  <2> QED BY <2>1, <2>2 DEF NobodyLeaves
<1>6. \A o \in Occ : occ'[o].ten = occ[o].ten /\ (occ'[o].status \in Blocking => occ'[o] = occ[o])
  BY <1>3 DEF Blocking
<1>7. OneAllocationPerTenancy'
  <2>1. \A t \in Ten : \A m, n \in Occ :
          occ'[m].ten = t /\ occ'[n].ten = t /\ occ'[m].status \in Blocking
             /\ occ'[n].status \in Blocking => m = n
    BY <1>6, OneAllocationByRow
  <2>2. \A t \in Ten : \A n \in Occ :
          ten'[t].status = "CLOSED" /\ occ'[n].ten = t => occ'[n].status \notin Blocking
    BY <1>4, <1>6, OneAllocationByRow
  <2> QED BY <2>1, <2>2, OneAllocationByRowNext
<1>8. OccupanciesOwned'
  <2>1. \A n \in Occ : occ'[n].status # "NONE" => occ'[n].ten \in Ten /\ ten'[occ'[n].ten].status # "NONE"
    BY <1>2, <1>3, <1>4 DEF OccupanciesOwned
  <2>2. ASSUME NEW n \in Occ, occ'[n].status = "PENDING" PROVE ten'[occ'[n].ten].status = "DRAFT"
    <3>1. occ'[n] = occ[n] /\ n \notin test /\ occ[n].ten \in Ten /\ ten[occ[n].ten].status = "DRAFT"
      BY <1>3, <2>2 DEF OccupanciesOwned
    <3>2. ASSUME NEW o \in test PROVE occ[o].ten # occ[n].ten
      <4>1. CASE occ[o].status = "PENDING"
        BY <1>2, <2>2, <3>1, <4>1, OneAllocationByRow DEF Blocking
      <4>2. CASE ten[occ[o].ten].status = "CANCELLED"
        BY <3>1, <4>2
      <4> QED BY <1>2, <4>1, <4>2
    <3> QED BY <1>4, <3>1, <3>2
  <2>3. \A s \in Ten : ten'[s].sim => ten'[s].status \in {"DRAFT", "CANCELLED"}
    BY <1>4 DEF OccupanciesOwned
  <2>4. \A n \in Occ : occ'[n].status \in Living => ~ ten'[occ'[n].ten].sim
    <3>1. \A n \in Occ : occ'[n].status \in Living =>
             occ'[n] = occ[n] /\ occ[n].ten \in Ten /\ ~ ten[occ[n].ten].sim
      BY <1>3 DEF OccupanciesOwned, Living
    <3> QED BY <1>4, <3>1
  <2> QED BY <2>1, <2>2, <2>3, <2>4 DEF OccupanciesOwned
<1>9. LeavingKnown'
  <2>1. \A q \in Proc : Leaving(q)' =>
          /\ proc'[q].t \in Ten /\ ~ ten'[proc'[q].t].sim
          /\ ten'[proc'[q].t].status \notin {"NONE", "DRAFT"}
    BY <1>4, <1>5 DEF NobodyLeaves, LeavingKnown, LeaverKnown, Leaving
  <2>2. ASSUME NEW q \in Proc, proc'[q].pc \in {"transfer", "moveout"}, NEW n \in proc'[q].os
        PROVE  occ'[n].status # "NONE" /\ occ'[n].ten = proc'[q].t
    <3>1. proc'[q] = proc[q] /\ n \in Occ
      BY <1>0, <1>5, <2>2 DEF NobodyLeaves
    <3>2. occ[n].status # "NONE" /\ occ[n].ten = proc[q].t
      BY <2>2, <3>1 DEF LeavingKnown, LeaverKnown
    <3> QED BY <1>3, <3>1, <3>2
  <2>3. ASSUME NEW q \in Proc, Closing(q)'
        PROVE  /\ \A n \in proc'[q].os : occ'[n].status \in Living /\ occ'[n].ten = proc'[q].t
               /\ \A n \in Occ : occ'[n].status \in Blocking /\ occ'[n].ten = proc'[q].t
                                    => n \in proc'[q].os
    <3>1. proc'[q] = proc[q] /\ Closing(q)
      BY <1>5, <2>3 DEF NobodyLeaves, Closing
    <3>2. ASSUME NEW n \in proc[q].os PROVE occ'[n].status \in Living /\ occ'[n].ten = proc[q].t
      <4>1. n \in Occ /\ occ[n].status \in Living /\ occ[n].ten = proc[q].t /\ ~ ten[occ[n].ten].sim
        BY <1>0, <3>1, <3>2 DEF LeavingKnown, LeaverKnown, OccupanciesOwned
      <4>2. n \notin test
        BY <1>2, <4>1
      <4> QED BY <1>3, <4>1, <4>2
    <3>3. ASSUME NEW n \in Occ, occ'[n].status \in Blocking, occ'[n].ten = proc[q].t
          PROVE  n \in proc[q].os
      BY <1>6, <3>1, <3>3 DEF LeavingKnown, LeaverKnown
    <3> QED BY <3>1, <3>2, <3>3
  <2>4. \A q, s \in Proc : Closing(q)' /\ Closing(s)' /\ q # s => proc'[q].os \cap proc'[s].os = {}
    BY <1>5 DEF NobodyLeaves, LeavingKnown, Closing
  <2>5. ASSUME NEW q \in Proc, proc'[q].pc = "orphan", NEW n \in proc'[q].os
        PROVE  /\ occ'[n].status # "NONE" /\ ten'[occ'[n].ten].sim
               /\ occ'[n].status = "PENDING" \/ ten'[occ'[n].ten].status = "CANCELLED"
    <3>1. proc'[q] = proc[q] /\ n \in Occ
      BY <1>0, <1>5, <2>5 DEF NobodyLeaves
    <3>2. /\ occ[n].status # "NONE" /\ ten[occ[n].ten].sim /\ occ[n].ten \in Ten
          /\ occ[n].status = "PENDING" \/ ten[occ[n].ten].status = "CANCELLED"
      BY <2>5, <3>1 DEF LeavingKnown, LeaverKnown, OccupanciesOwned
    <3>3. CASE n \in test
      BY <1>3, <1>4, <3>1, <3>2, <3>3
    <3>4. CASE n \notin test
      BY <1>3, <1>4, <3>1, <3>2, <3>4
    <3> QED BY <3>3, <3>4
  <2> QED BY <2>1, <2>2, <2>3, <2>4, <2>5 DEF LeavingKnown, LeaverKnown
<1>10. ASSUME "notice" \notin Ops PROVE LeftOnce'
  <2>1. LeftOnce
    BY <1>10
  <2>2. MovedOutOnce'
    BY <1>4, <2>1 DEF LeftOnce, MovedOutOnce
  <2>3. ASSUME NEW s \in Ten, ten'[s].status \in Living PROVE Lived(s)'
    <3>1. ten'[s] = ten[s] /\ \A o \in test : occ[o].ten # s
      BY <1>4, <2>3 DEF Living
    <3>2. PICK n \in Occ : occ[n].status \in Living /\ occ[n].ten = s
      BY <2>1, <2>3, <3>1 DEF LeftOnce, Lived
    <3> QED BY <1>3, <3>1, <3>2 DEF Lived
  <2>4. \A n \in Occ : occ'[n].status \in Blocking => ten'[occ'[n].ten].moveOuts = 0
    <3>1. \A n \in Occ : occ'[n].status \in Blocking =>
             occ'[n] = occ[n] /\ occ[n].ten \in Ten /\ ten[occ[n].ten].moveOuts = 0
      BY <1>6, <2>1 DEF LeftOnce, OccupanciesOwned, Blocking
    <3> QED BY <1>4, <3>1
  <2>5. \A q \in Proc : /\ proc'[q].pc # "notice"
                        /\ proc'[q].pc \in {"moveout", "closing"} => proc'[q].os # {}
    BY <1>5, <2>1 DEF LeftOnce, NobodyLeaves
  <2> QED BY <2>2, <2>3, <2>4, <2>5 DEF LeftOnce
<1> QED BY <1>7, <1>8, <1>9, <1>10

(* So every operation on bookings ...                                      *)
LEMMA BookingsKeepTenancies ==
  ASSUME TypeOK, TypeOK', TenancyInv, Bookings
  PROVE  TenancyInv'
<1> USE TenanciesKept, SameTenancies, SameLeavers, LeaverDone
<1>1. ASSUME NEW l \in Lead, CreateLead(l) PROVE TenancyInv'
  BY <1>1 DEF CreateLead
<1>2. ASSUME NEW u \in Unit, NEW l \in Lead \cup {None}, NEW r \in Res, NEW h \in Holds,
             CreateReservation(u, l, r, h)
      PROVE  TenancyInv'
  BY <1>2 DEF CreateReservation
<1>3. ASSUME NEW u \in Unit, NEW l \in Lead, NEW r \in Res, SyncOfflineReservation(u, l, r)
      PROVE  TenancyInv'
  BY <1>3 DEF SyncOfflineReservation
<1>4. ASSUME NEW p \in Proc, NEW u \in Unit, NEW l \in Lead, NEW r \in Res,
             CreatePublicReservation(p, u, l, r)
      PROVE  TenancyInv'
  <2>1. NobodyLeaves
    BY <1>4, NotLeaving DEF CreatePublicReservation, Idle
  <2> QED BY <1>4, <2>1 DEF CreatePublicReservation
<1>5. ASSUME NEW p \in Proc, CodeDelivered(p) \/ CodeFailed(p) PROVE TenancyInv'
  BY <1>5 DEF CodeDelivered, CodeFailed
<1>6. ASSUME NEW r \in Res, NEW h \in Now, RenewHold(r, h) PROVE TenancyInv'
  BY <1>6 DEF RenewHold
<1>7. ASSUME NEW r \in Res, PrepareLease(r) \/ SignLease(r) PROVE TenancyInv'
  BY <1>7 DEF PrepareLease, SignLease
<1>8. ASSUME NEW p \in Proc, NEW r \in Res, NEW h \in Now, VerifyRead(p, r, h) PROVE TenancyInv'
  <2>1. NobodyLeaves
    BY <1>8, NotLeaving DEF VerifyRead, Idle
  <2> QED BY <1>8, <2>1 DEF VerifyRead
<1>9. ASSUME NEW p \in Proc, NEW r \in Res, NEW h \in Now, ExtendRead(p, r, h) PROVE TenancyInv'
  <2>1. NobodyLeaves
    BY <1>9, NotLeaving DEF ExtendRead, Idle
  <2> QED BY <1>9, <2>1 DEF ExtendRead
<1>10. ASSUME NEW p \in Proc, VerifyCommit(p) PROVE TenancyInv'
  BY <1>10 DEF VerifyCommit
<1>11. ASSUME NEW p \in Proc, NEW r \in Res, CancelRead(p, r) PROVE TenancyInv'
  <2>1. NobodyLeaves
    BY <1>11, NotLeaving DEF CancelRead, Idle
  <2> QED BY <1>11, <2>1 DEF CancelRead
<1>12. ASSUME NEW p \in Proc, NEW r \in Res, ExpireRead(p, r) PROVE TenancyInv'
  <2>1. NobodyLeaves
    BY <1>12, NotLeaving DEF ExpireRead, Idle
  <2> QED BY <1>12, <2>1 DEF ExpireRead
<1>13. ASSUME NEW p \in Proc, NEW r \in Res, SweepRead(p, r) PROVE TenancyInv'
  <2>1. NobodyLeaves
    BY <1>13, NotLeaving DEF SweepRead, Idle
  <2> QED BY <1>13, <2>1 DEF SweepRead
<1>14. ASSUME NEW p \in Proc, ExtendCommit(p) PROVE TenancyInv'
  BY <1>14 DEF ExtendCommit
<1>15. ASSUME NEW p \in Proc, CancelClaim(p) PROVE TenancyInv'
  <2>1. NobodyLeaves
    BY <1>15 DEF CancelClaim, NobodyLeaves, TypeOK, Request
  <2> QED BY <1>15, <2>1 DEF CancelClaim
<1>16. ASSUME NEW p \in Proc, ExpireClaim(p) PROVE TenancyInv'
  <2>1. NobodyLeaves
    BY <1>16 DEF ExpireClaim, NobodyLeaves, TypeOK, Request
  <2> QED BY <1>16, <2>1 DEF ExpireClaim
<1>17. ASSUME NEW p \in Proc, CountBlockers(p) PROVE TenancyInv'
  <2>1. PICK b : proc' = [proc EXCEPT ![p].pc = "counted", ![p].flag = b]
    BY <1>17, Zenon DEF CountBlockers
  <2>2. NobodyLeaves
    BY <2>1 DEF NobodyLeaves, TypeOK, Request
  <2> QED BY <1>17, <2>2 DEF CountBlockers
<1>18. ASSUME NEW p \in Proc, EndReservation(p) PROVE TenancyInv'
  BY <1>18 DEF EndReservation
<1>19. ASSUME NEW p \in Proc, SweepRelease(p) PROVE TenancyInv'
  BY <1>19 DEF SweepRelease
<1>20. ASSUME NEW r \in Res, NEW v \in Unit, PatchReservation(r, v) PROVE TenancyInv'
  BY <1>20 DEF PatchReservation
<1>21. ASSUME NEW r \in Res, DeleteReservation(r) PROVE TenancyInv'
  BY <1>21 DEF DeleteReservation
<1>22. ASSUME NEW f \in Floor, SetFloorOperational(f) PROVE TenancyInv'
  BY <1>22 DEF SetFloorOperational
<1> QED
  BY <1>1, <1>2, <1>3, <1>4, <1>5, <1>6, <1>7, <1>8, <1>9, <1>10, <1>11, <1>12, <1>13, <1>14,
     <1>15, <1>16, <1>17, <1>18, <1>19, <1>20, <1>21, <1>22, CleanUpComes, CleanUpKeepsTenancies
  DEF Bookings

(* ... and every operation on tenancies keeps what is known of the         *)
(* tenancies.                                                              *)
LEMMA TenanciesKeepTenancies ==
  ASSUME TypeOK, TypeOK', TenancyInv, Tenancies
  PROVE  TenancyInv'
<1> USE TenanciesKept, SameTenancies, SameLeavers, LeaverDone
<1>1. ASSUME NEW p \in Proc, NEW u \in Unit, NEW r \in Res \cup {NoRow}, NEW simulation \in BOOLEAN,
             MoveInCheck(p, u, r, simulation)
      PROVE  TenancyInv'
  <2>1. NobodyLeaves
    BY <1>1, NotLeaving DEF MoveInCheck, Idle
  <2> QED BY <1>1, <2>1 DEF MoveInCheck
<1>2. ASSUME NEW p \in Proc, NEW t \in Ten, NEW o \in Occ, MoveInCommit(p, t, o)
      PROVE  TenancyInv'
  <2> DEFINE x == [NoTenancy EXCEPT !.status = "DRAFT", !.doc = "PENDING", !.sim = proc[p].flag]
             y == [status |-> "PENDING", unit |-> proc[p].u, ten |-> t]
  <2>1. /\ ten[t].status = "NONE" /\ occ[o].status = "NONE"
        /\ ten' = [ten EXCEPT ![t] = x] /\ occ' = [occ EXCEPT ![o] = y]
        /\ NobodyLeaves
    BY <1>2 DEF MoveInCommit, NextRow
  <2>2. y.ten = t /\ y.status = "PENDING" /\ x.status = "DRAFT" /\ x.moveOuts = 0
    BY DEF NoTenancy
  <2> HIDE DEF x, y
  <2> QED BY <2>1, <2>2, TenancyBegun
<1>3. ASSUME NEW p \in Proc, NEW t \in Ten, DispatchRead(p, t) PROVE TenancyInv'
  <2>1. NobodyLeaves
    BY <1>3, NotLeaving DEF DispatchRead, Idle
  <2> QED BY <1>3, <2>1 DEF DispatchRead
<1>4. ASSUME NEW p \in Proc, DispatchAttach(p) PROVE TenancyInv'
  <2>1. ten' = [ten EXCEPT ![proc[p].t].doc = "SENT"] /\ occ' = occ /\ Done(p)
    BY <1>4 DEF DispatchAttach
  <2>2. TenanciesStay
    BY <2>1 DEF TenanciesStay, TypeOK, Tenancy
  <2> QED BY <2>1, <2>2
<1>5. ASSUME NEW t \in Ten, CompleteEnvelope(t) PROVE TenancyInv'
  <2>1. ten' = [ten EXCEPT ![t].doc = "SIGNED"] /\ occ' = occ /\ proc' = proc
    BY <1>5 DEF CompleteEnvelope
  <2>2. TenanciesStay
    BY <2>1 DEF TenanciesStay, TypeOK, Tenancy
  <2> QED BY <2>1, <2>2
<1>6. ASSUME NEW r \in Res, NEW t \in Ten, NEW o \in Occ, ConfirmMoveIn(r, t, o)
      PROVE  TenancyInv'
  <2> DEFINE x == [NoTenancy EXCEPT !.status = "ACTIVE", !.doc = "SIGNED", !.handed = TRUE]
             y == [status |-> "ACTIVE", unit |-> res[r].unit, ten |-> t]
  <2>1. /\ ten[t].status = "NONE" /\ occ[o].status = "NONE"
        /\ ten' = [ten EXCEPT ![t] = x] /\ occ' = [occ EXCEPT ![o] = y]
        /\ NobodyLeaves
    BY <1>6 DEF ConfirmMoveIn, NextRow
  <2>2. y.ten = t /\ y.status = "ACTIVE" /\ x.status = "ACTIVE" /\ ~ x.sim /\ x.moveOuts = 0
    BY DEF NoTenancy
  <2> HIDE DEF x, y
  <2> QED BY <2>1, <2>2, TenancyBegun
<1>7. ASSUME NEW p \in Proc, NEW t \in Ten, NEW o \in Occ, LegacyRead(p, t, o) PROVE TenancyInv'
  <2>1. NobodyLeaves
    BY <1>7, NotLeaving DEF LegacyRead, Idle
  <2> QED BY <1>7, <2>1 DEF LegacyRead
<1>8. ASSUME NEW u \in Unit, NEW m \in Maint, MaintenanceClaim(u, m) PROVE TenancyInv'
  BY <1>8 DEF MaintenanceClaim
<1>9. ASSUME NEW p \in Proc, NEW u \in Unit, MaintenanceRead(p, u) PROVE TenancyInv'
  <2>1. NobodyLeaves
    BY <1>9, NotLeaving DEF MaintenanceRead, Idle
  <2> QED BY <1>9, <2>1 DEF MaintenanceRead
<1>10. ASSUME NEW p \in Proc, NEW m \in Maint, MaintenanceOpen(p, m) PROVE TenancyInv'
  BY <1>10 DEF MaintenanceOpen
<1>11. ASSUME NEW u \in Unit, NEW m \in Maint, NEW status \in {"OPEN", "ENDED"},
              MaintenanceUpdate(u, m, status)
       PROVE  TenancyInv'
  BY <1>11 DEF MaintenanceUpdate
<1>12. ASSUME NEW u \in Unit, NEW status \in {"AVAILABLE", "SERVICE", "UNAVAILABLE"},
              EditUnit(u, status)
       PROVE  TenancyInv'
  BY <1>12 DEF EditUnit
<1>13. ASSUME NEW u \in Unit, RetireUnit(u) PROVE TenancyInv'
  BY <1>13 DEF RetireUnit
<1> QED
  BY <1>1, <1>2, <1>3, <1>4, <1>5, <1>6, <1>7, <1>8, <1>9, <1>10, <1>11, <1>12, <1>13,
     HandoverKeepsTenancies, TransferComes, TransferKeepsTenancies, NoticeComes,
     NoticeKeepsTenancies, MoveOutComes, MoveOutClaims, MoveOutKeepsTenancies
  DEF Tenancies

(* What is known of the tenancies holds throughout.                        *)
LEMMA TenancyInvariant == Spec => []TenancyInv
<1>1. Init => TenancyInv
  <2> SUFFICES ASSUME Init PROVE TenancyInv
    OBVIOUS
  <2>1. /\ \A o \in Occ : occ[o].status = "NONE" /\ occ[o].ten = NoRow
        /\ \A t \in Ten : ten[t].status = "NONE" /\ ~ ten[t].sim /\ ten[t].moveOuts = 0
        /\ \A q \in Proc : proc[q].pc = "idle"
    BY DEF Init, Idle, NoOccupancy, NoTenancy
  <2>2. OneAllocationPerTenancy /\ OccupanciesOwned
    BY <2>1, OneAllocationByRow DEF OccupanciesOwned, Blocking, Living
  <2>3. LeavingKnown
    BY <2>1 DEF LeavingKnown, LeaverKnown, Leaving, Closing
  <2>4. LeftOnce
    BY <2>1, BoundsAssumption DEF LeftOnce, MovedOutOnce, Living, Blocking
  <2> QED BY <2>2, <2>3, <2>4 DEF TenancyInv
<1>2. TypeOK /\ TypeOK' /\ TenancyInv /\ [Next]_vars => TenancyInv'
  <2> SUFFICES ASSUME TypeOK, TypeOK', TenancyInv, [Next]_vars PROVE TenancyInv'
    OBVIOUS
  <2> USE TenanciesKept, SameTenancies, SameLeavers, LeaverDone
  <2>1. ASSUME NEW p \in Proc, Rollback(p) PROVE TenancyInv'
    BY <2>1 DEF Rollback
  <2>2. CASE Tick
    BY <2>2 DEF Tick
  <2>3. CASE UNCHANGED vars
    BY <2>3 DEF vars
  <2> QED BY <2>1, <2>2, <2>3, BookingsKeepTenancies, TenanciesKeepTenancies DEF Next
<1> QED BY <1>1, <1>2, Typing, PTL DEF Spec

(* However transfers, notices, move-outs and clean-ups interleave, with    *)
(* all operations in use, a tenancy has one allocation at a time and none  *)
(* once it is closed: what was read of its occupancies before the          *)
(* transaction is claimed or checked again in it.                          *)
THEOREM OneAllocation == Spec => []OneAllocationPerTenancy
<1>1. TenancyInv => OneAllocationPerTenancy
  BY DEF TenancyInv
<1> QED BY <1>1, TenancyInvariant, PTL

(* A tenancy is moved out once, unless a notice given on a tenancy that    *)
(* was closed meanwhile brings it back (the run late_notice): with all     *)
(* operations in use but that one.                                         *)
THEOREM MovedOutOnceKept ==
  ASSUME "notice" \notin Ops
  PROVE  Spec => []MovedOutOnce
<1>1. TenancyInv => MovedOutOnce
  BY DEF TenancyInv, LeftOnce
<1> QED BY <1>1, TenancyInvariant, PTL

-----------------------------------------------------------------------------
(* Keys are with a tenancy that runs or has been closed, and is no test.   *)
Keyed ==
    \A t \in Ten :
       ten[t].handed => ~ ten[t].sim /\ ten[t].status \in {"ACTIVE", "NOTICE_GIVEN", "CLOSED"}

(* Of what is done to bookings, only the clean-up reaches a tenancy.       *)
LEMMA BookingsLeaveTenancies ==
  Bookings => ten' = ten \/ \E p \in Proc : OrphanRelease(p)
<1> SUFFICES ASSUME Bookings, ~ \E p \in Proc : OrphanRelease(p) PROVE ten' = ten
  OBVIOUS
<1>1. ASSUME NEW l \in Lead, CreateLead(l) PROVE ten' = ten
  BY <1>1 DEF CreateLead
<1>2. ASSUME NEW u \in Unit, NEW l \in Lead \cup {None}, NEW r \in Res, NEW h \in Holds,
             CreateReservation(u, l, r, h)
      PROVE  ten' = ten
  BY <1>2 DEF CreateReservation
<1>3. ASSUME NEW u \in Unit, NEW l \in Lead, NEW r \in Res, SyncOfflineReservation(u, l, r)
      PROVE  ten' = ten
  BY <1>3 DEF SyncOfflineReservation
<1>4. ASSUME NEW p \in Proc, NEW u \in Unit, NEW l \in Lead, NEW r \in Res,
             CreatePublicReservation(p, u, l, r)
      PROVE  ten' = ten
  BY <1>4 DEF CreatePublicReservation
<1>5. ASSUME NEW p \in Proc, CodeDelivered(p) \/ CodeFailed(p) PROVE ten' = ten
  BY <1>5 DEF CodeDelivered, CodeFailed
<1>6. ASSUME NEW r \in Res, NEW h \in Now, RenewHold(r, h) PROVE ten' = ten
  BY <1>6 DEF RenewHold
<1>7. ASSUME NEW r \in Res, PrepareLease(r) \/ SignLease(r) PROVE ten' = ten
  BY <1>7 DEF PrepareLease, SignLease
<1>8. ASSUME NEW p \in Proc, NEW r \in Res, NEW h \in Now, VerifyRead(p, r, h) \/ ExtendRead(p, r, h)
      PROVE  ten' = ten
  BY <1>8 DEF VerifyRead, ExtendRead
<1>9. ASSUME NEW p \in Proc, VerifyCommit(p) PROVE ten' = ten
  BY <1>9 DEF VerifyCommit
<1>10. ASSUME NEW p \in Proc, NEW r \in Res, CancelRead(p, r) \/ ExpireRead(p, r) \/ SweepRead(p, r)
       PROVE  ten' = ten
  BY <1>10 DEF CancelRead, ExpireRead, SweepRead
<1>11. ASSUME NEW p \in Proc, ExtendCommit(p) \/ CancelClaim(p) \/ ExpireClaim(p) PROVE ten' = ten
  BY <1>11 DEF ExtendCommit, CancelClaim, ExpireClaim
<1>12. ASSUME NEW p \in Proc, CountBlockers(p) \/ EndReservation(p) \/ SweepRelease(p)
       PROVE  ten' = ten
  BY <1>12 DEF CountBlockers, EndReservation, SweepRelease
<1>13. ASSUME NEW r \in Res, NEW v \in Unit, PatchReservation(r, v) PROVE ten' = ten
  BY <1>13 DEF PatchReservation
<1>14. ASSUME NEW r \in Res, DeleteReservation(r) PROVE ten' = ten
  BY <1>14 DEF DeleteReservation
<1>15. ASSUME NEW p \in Proc, NEW u \in Unit, OrphanRead(p, u) PROVE ten' = ten
  BY <1>15 DEF OrphanRead
<1>16. ASSUME NEW f \in Floor, SetFloorOperational(f) PROVE ten' = ten
  BY <1>16 DEF SetFloorOperational
<1> QED BY <1>1, <1>2, <1>3, <1>4, <1>5, <1>6, <1>7, <1>8, <1>9, <1>10, <1>11, <1>12, <1>13, <1>14,
           <1>15, <1>16 DEF Bookings

(* A clean-up cancels simulated tenancies, which nobody has keys of.       *)
LEMMA CleanUpKeepsKeys ==
  ASSUME TypeOK, TenancyInv, Keyed, NEW p \in Proc, OrphanRelease(p)
  PROVE  Keyed'
<1> SUFFICES ASSUME NEW t \in Ten, ten'[t].handed
             PROVE  ~ ten'[t].sim /\ ten'[t].status \in {"ACTIVE", "NOTICE_GIVEN", "CLOSED"}
  BY DEF Keyed
<1>1. ten' = [s \in Ten |-> IF \E o \in proc[p].os : occ[o].ten = s
                           THEN [ten[s] EXCEPT !.status = "CANCELLED",
                                   !.doc = IF @ = "SIGNED" THEN @ ELSE "CANCELLED"]
                           ELSE ten[s]]
  BY DEF OrphanRelease
<1>2. ten[t].handed
  <2>1. ten[t] \in Tenancy
    BY RowTypes
  <2>2. CASE \E o \in proc[p].os : occ[o].ten = t
    <3>1. PICK d : ten'[t] = [ten[t] EXCEPT !.status = "CANCELLED", !.doc = d]
      BY <1>1, <2>2, Zenon
    <3> QED BY <2>1, <3>1 DEF Tenancy
  <2>3. CASE ~ \E o \in proc[p].os : occ[o].ten = t
    BY <1>1, <2>3
  <2> QED BY <2>2, <2>3
<1>3. ~ ten[t].sim
  BY <1>2 DEF Keyed
<1>4. \A o \in proc[p].os : ten[occ[o].ten].sim
  BY DEF OrphanRelease, TenancyInv, LeavingKnown, LeaverKnown
<1>5. ~ \E o \in proc[p].os : occ[o].ten = t
  BY <1>3, <1>4
<1>6. ten'[t] = ten[t]
  BY <1>1, <1>5
<1> QED BY <1>2, <1>6 DEF Keyed

(* No operation on tenancies takes the keys' tenancy back to a draft.      *)
LEMMA TenanciesKeepKeys ==
  ASSUME TypeOK, Keyed, Tenancies
  PROVE  Keyed'
<1>0. ASSUME ten' = ten PROVE Keyed'
  BY <1>0 DEF Keyed
<1>1. ASSUME NEW p \in Proc, NEW u \in Unit, NEW r \in Res \cup {NoRow}, NEW s \in BOOLEAN,
             MoveInCheck(p, u, r, s)
      PROVE  Keyed'
  BY <1>0, <1>1 DEF MoveInCheck
<1>2. ASSUME NEW p \in Proc, NEW t \in Ten, NEW o \in Occ, MoveInCommit(p, t, o) PROVE Keyed'
  BY <1>2 DEF MoveInCommit, NoTenancy, Keyed, TypeOK
<1>3. ASSUME NEW p \in Proc, NEW t \in Ten, DispatchRead(p, t) \/ NoticeRead(p, t) \/ MoveOutRead(p, t)
      PROVE  Keyed'
  BY <1>0, <1>3 DEF DispatchRead, NoticeRead, MoveOutRead
<1>4. ASSUME NEW p \in Proc, DispatchAttach(p) PROVE Keyed'
  BY <1>4 DEF DispatchAttach, Keyed, TypeOK, Tenancy
<1>5. ASSUME NEW p \in Proc, NoticeCommit(p) PROVE Keyed'
  BY <1>5 DEF NoticeCommit, Keyed, TypeOK, Tenancy
<1>6. ASSUME NEW p \in Proc, MoveOutClaim(p) PROVE Keyed'
  BY <1>0, <1>6 DEF MoveOutClaim
<1>7. ASSUME NEW p \in Proc, MoveOutCommit(p) PROVE Keyed'
  BY <1>7 DEF MoveOutCommit, Keyed, TypeOK, Tenancy
<1>8. ASSUME NEW t \in Ten, CompleteEnvelope(t) PROVE Keyed'
  BY <1>8 DEF CompleteEnvelope, Keyed, TypeOK, Tenancy
<1>9. ASSUME NEW r \in Res, NEW t \in Ten, NEW o \in Occ, ConfirmMoveIn(r, t, o) PROVE Keyed'
  BY <1>9 DEF ConfirmMoveIn, NoTenancy, Keyed, TypeOK
<1>10. ASSUME NEW p \in Proc, NEW t \in Ten, NEW o \in Occ, LegacyRead(p, t, o) PROVE Keyed'
  BY <1>0, <1>10 DEF LegacyRead
<1>11. ASSUME NEW p \in Proc, NEW o \in Occ, LegacyCommit(p, o) PROVE Keyed'
  BY <1>11 DEF LegacyCommit, HandoverReady, Keyed, TypeOK, Tenancy
<1>12. ASSUME NEW p \in Proc, NEW t \in Ten, NEW v \in Unit, NEW o \in Occ, TransferRead(p, t, v, o)
       PROVE  Keyed'
  BY <1>0, <1>12 DEF TransferRead
<1>13. ASSUME NEW p \in Proc, NEW o \in Occ, NEW n \in Occ, TransferCommit(p, o, n) PROVE Keyed'
  BY <1>13 DEF TransferCommit, Keyed, TypeOK, Tenancy
<1>14. ASSUME NEW u \in Unit, NEW m \in Maint, MaintenanceClaim(u, m) PROVE Keyed'
  BY <1>0, <1>14 DEF MaintenanceClaim
<1>15. ASSUME NEW p \in Proc, NEW u \in Unit, MaintenanceRead(p, u) PROVE Keyed'
  BY <1>0, <1>15 DEF MaintenanceRead
<1>16. ASSUME NEW p \in Proc, NEW m \in Maint, MaintenanceOpen(p, m) PROVE Keyed'
  BY <1>0, <1>16 DEF MaintenanceOpen
<1>17. ASSUME NEW u \in Unit, NEW m \in Maint, NEW st \in {"OPEN", "ENDED"}, MaintenanceUpdate(u, m, st)
       PROVE  Keyed'
  BY <1>0, <1>17 DEF MaintenanceUpdate
<1>18. ASSUME NEW u \in Unit, NEW st \in {"AVAILABLE", "SERVICE", "UNAVAILABLE"}, EditUnit(u, st)
       PROVE  Keyed'
  BY <1>0, <1>18 DEF EditUnit
<1>19. ASSUME NEW u \in Unit, RetireUnit(u) PROVE Keyed'
  BY <1>0, <1>19 DEF RetireUnit
<1> QED BY <1>1, <1>2, <1>3, <1>4, <1>5, <1>6, <1>7, <1>8, <1>9, <1>10, <1>11, <1>12, <1>13, <1>14,
           <1>15, <1>16, <1>17, <1>18, <1>19 DEF Tenancies

(* Whoever was given the keys keeps a unit to use until moved out, with    *)
(* all operations in use, the unlocked clean-ups and cancellations         *)
(* included, but the notice that can reopen a closed tenancy.              *)
THEOREM TenantsKept ==
  ASSUME "notice" \notin Ops
  PROVE  Spec => []TenantsKeepUnit
<1>1. Init => Keyed
  BY DEF Init, Keyed, NoTenancy
<1>2. TypeOK /\ TenancyInv /\ Keyed /\ [Next]_vars => Keyed'
  <2> SUFFICES ASSUME TypeOK, TenancyInv, Keyed, [Next]_vars PROVE Keyed'
    OBVIOUS
  <2>1. ASSUME ten' = ten PROVE Keyed'
    BY <2>1 DEF Keyed
  <2>2. CASE Bookings
    BY <2>1, <2>2, BookingsLeaveTenancies, CleanUpKeepsKeys
  <2>3. CASE Tenancies
    BY <2>3, TenanciesKeepKeys
  <2>4. ASSUME NEW p \in Proc, Rollback(p) PROVE Keyed'
    BY <2>1, <2>4 DEF Rollback
  <2>5. CASE Tick
    BY <2>1, <2>5 DEF Tick
  <2>6. CASE UNCHANGED vars
    BY <2>1, <2>6 DEF vars
  <2> QED BY <2>2, <2>3, <2>4, <2>5, <2>6 DEF Next
<1>3. TenancyInv /\ Keyed => TenantsKeepUnit
  BY DEF TenancyInv, LeftOnce, Lived, Keyed, TenantsKeepUnit, OccupanciesOf, Living
<1> QED BY <1>1, <1>2, <1>3, Typing, TenancyInvariant, PTL DEF Spec
=============================================================================
