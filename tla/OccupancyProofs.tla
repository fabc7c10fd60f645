--------------------------- MODULE OccupancyProofs ----------------------------
(***************************************************************************)
(* The promises of the leasing core about its units, for any number of     *)
(* units, floors, customers and requests.                                  *)
(*                                                                         *)
(* Two survive every operation, the ones that write without a lock or a    *)
(* guarded update included: no unit is let to two tenants at a time, and   *)
(* no closed floor takes a customer.  Both rest on the rows a move-in keeps *)
(* locked: while one is between its checks and its writes, no request lets *)
(* anybody else into any unit or closes a floor, so what it found is still *)
(* so when it writes.                                                      *)
(*                                                                         *)
(* The others hold of the guarded operations: the mark on a unit stands    *)
(* for its one claim, which is what lets an allocation look at the mark    *)
(* alone; no mark is left behind when the claim goes; and so units pass    *)
(* from party to party as UnitAllocation says.                             *)
(***************************************************************************)
EXTENDS LeasingProofs

(* A request between the checks and the writes of its move-in is the only  *)
(* one; its unit is vacant and on an open floor.  And requests transfer    *)
(* only where transfers are in use.                                        *)
Entering(q) == proc[q].pc = "movein"
Moving(q) == proc[q].pc \in {"movein", "transfer"}
MoveInsGuarded ==
    /\ \A q, s \in Proc : Entering(q) /\ Entering(s) => q = s
    /\ \A q \in Proc : Entering(q) => BlockingOn(proc[q].u) = {} /\ Operational(proc[q].u)
    /\ \A q \in Proc : proc[q].pc = "transfer" => "transfer" \in Ops

(* A step lets nobody in: no request goes on to a move-in or a transfer,   *)
(* no occupancy begins to keep a unit, and no booking becomes active or is *)
(* moved.                                                                  *)
NobodyEnters == \A q \in Proc : Moving(q)' => proc'[q] = proc[q]
NoNewOccupancy == \A u : BlockingOn(u)' \subseteq BlockingOn(u)
NoNewHold ==
    \A r \in Res : res'[r].status = "ACTIVE" => res[r].status = "ACTIVE" /\ res'[r].unit = res[r].unit

(* What a step may do to the claims on a unit. *)
GateStep ==
    \A u \in Unit :
       (ActiveOn(u)' \subseteq ActiveOn(u) /\ BlockingOn(u)' \subseteq BlockingOn(u))
          \/ Operational(u)

(* What every step is shown to keep.                                       *)
StepGoal ==
    /\ MoveInsGuarded'
    /\ GateStep
    /\ OneOccupancyPerUnit /\ "transfer" \notin Ops => OneOccupancyPerUnit'

-----------------------------------------------------------------------------
(* A step that lets nobody in and leaves the floors alone keeps it all.    *)
LEMMA QuietStep ==
  ASSUME MoveInsGuarded, NobodyEnters, NoNewOccupancy, NoNewHold, closed' = closed
  PROVE  StepGoal
<1>1. MoveInsGuarded'
  BY DEF MoveInsGuarded, NobodyEnters, NoNewOccupancy, Moving, Entering, Operational
<1>2. GateStep
  BY DEF GateStep, NoNewHold, NoNewOccupancy, ActiveOn
<1>3. OneOccupancyPerUnit => OneOccupancyPerUnit'
  BY DEF OneOccupancyPerUnit, NoNewOccupancy
<1> QED BY <1>1, <1>2, <1>3 DEF StepGoal

(* A step that does not write occupancies lets nobody in ...               *)
LEMMA SameOccupancies == occ' = occ => NoNewOccupancy
BY DEF NoNewOccupancy, BlockingOn

(* ... and neither does one that only ends occupancies, or moves a living  *)
(* one on where it is.                                                     *)
LEMMA EndedOccupancies ==
  ASSUME \A o \in Occ : occ'[o] = occ[o] \/ occ'[o].status \notin Blocking
                          \/ (occ[o].status \in Blocking /\ occ'[o].unit = occ[o].unit)
  PROVE  NoNewOccupancy
BY DEF NoNewOccupancy, BlockingOn

(* No request enters a unit when none takes a step ...                     *)
LEMMA SameRequests == proc' = proc => NobodyEnters
BY DEF NobodyEnters

(* ... when the one that does goes on to anything but a move-in or a       *)
(* transfer ...                                                            *)
LEMMA OtherRequest ==
  ASSUME TypeOK, NEW p, NEW q, q.pc \notin {"movein", "transfer"}, proc' = [proc EXCEPT ![p] = q]
  PROVE  NobodyEnters
BY DEF TypeOK, NobodyEnters, Moving

(* ... or is done.                                                         *)
LEMMA RequestDone ==
  ASSUME TypeOK, NEW p, Done(p)
  PROVE  NobodyEnters
BY OtherRequest DEF Done, Idle

(* No hold begins where no booking is written.                             *)
LEMMA SameBookings == res' = res => NoNewHold
BY DEF NoNewHold

-----------------------------------------------------------------------------
(* The operations on bookings let nobody into a unit, and put a hold only  *)
(* on a unit of an open floor.                                             *)
LEMMA BookingsGuarded == TypeOK /\ MoveInsGuarded /\ Bookings => StepGoal
<1> SUFFICES ASSUME TypeOK, MoveInsGuarded, Bookings PROVE StepGoal
  OBVIOUS
<1> USE SameOccupancies, SameRequests, SameBookings, QuietStep
<1>h. ASSUME NEW u \in Unit, NEW l, NEW r \in Res, NEW h, NEW public \in BOOLEAN,
             HoldUnit(u, l, r, h, public), NobodyEnters, closed' = closed, occ' = occ
      PROVE  StepGoal
  <2>1. \A v \in Unit : v # u => ActiveOn(v)' \subseteq ActiveOn(v)
    BY <1>h DEF HoldUnit, ActiveOn, TypeOK
  <2>2. Operational(u) /\ NoNewOccupancy
    BY <1>h DEF HoldUnit
  <2>3. GateStep
    BY <2>1, <2>2 DEF GateStep, NoNewOccupancy
  <2>4. MoveInsGuarded'
    BY <1>h, <2>2 DEF MoveInsGuarded, NobodyEnters, NoNewOccupancy, Moving, Entering, Operational
  <2> QED BY <2>2, <2>3, <2>4 DEF StepGoal, OneOccupancyPerUnit, NoNewOccupancy
<1>1. ASSUME NEW l \in Lead, CreateLead(l) PROVE StepGoal
  BY <1>1 DEF CreateLead
<1>2. ASSUME NEW u \in Unit, NEW l \in Lead \cup {None}, NEW r \in Res, NEW h \in Holds,
             CreateReservation(u, l, r, h)
      PROVE  StepGoal
  BY <1>2, <1>h DEF CreateReservation
<1>3. ASSUME NEW u \in Unit, NEW l \in Lead, NEW r \in Res, SyncOfflineReservation(u, l, r)
      PROVE  StepGoal
  BY <1>3, <1>h DEF SyncOfflineReservation
<1>4. ASSUME NEW p \in Proc, NEW u \in Unit, NEW l \in Lead, NEW r \in Res,
             CreatePublicReservation(p, u, l, r)
      PROVE  StepGoal
  <2>1. NobodyEnters
    BY <1>4, OtherRequest DEF CreatePublicReservation, Idle
  <2> QED BY <1>4, <2>1, <1>h DEF CreatePublicReservation
<1>5. ASSUME NEW p \in Proc, CodeDelivered(p) PROVE StepGoal
  <2>1. NoNewHold
    BY <1>5 DEF CodeDelivered, NoNewHold, TypeOK, Reservation
  <2> QED BY <1>5, <2>1, RequestDone DEF CodeDelivered
<1>6. ASSUME NEW p \in Proc, CodeFailed(p) PROVE StepGoal
  <2>1. NoNewHold
    BY <1>6 DEF CodeFailed, NoNewHold, TypeOK, Reservation
  <2> QED BY <1>6, <2>1, RequestDone DEF CodeFailed
<1>7. ASSUME NEW p \in Proc, NEW r \in Res, NEW h \in Now, VerifyRead(p, r, h) PROVE StepGoal
  <2>1. NobodyEnters
    BY <1>7, OtherRequest DEF VerifyRead, Idle
  <2> QED BY <1>7, <2>1 DEF VerifyRead
<1>8. ASSUME NEW p \in Proc, VerifyCommit(p) PROVE StepGoal
  <2>1. NoNewHold
    BY <1>8 DEF VerifyCommit, NoNewHold, TypeOK, Reservation
  <2> QED BY <1>8, <2>1, RequestDone DEF VerifyCommit
<1>9. ASSUME NEW r \in Res, NEW h \in Now, RenewHold(r, h) PROVE StepGoal
  <2>1. closed' = closed /\ NoNewOccupancy /\ NobodyEnters
    BY <1>9 DEF RenewHold
  <2>2. res' = [res EXCEPT ![r].status = "ACTIVE", ![r].hold = h, ![r].swept = FALSE,
                          ![r].code = IF res[r].verified THEN @ ELSE h]
    BY <1>9 DEF RenewHold
  <2>3. CASE res[r].status = "ACTIVE"
    <3>1. NoNewHold
      BY <2>2, <2>3 DEF NoNewHold, TypeOK, Reservation
    <3> QED BY <2>1, <3>1
  <2>4. CASE res[r].status # "ACTIVE"
    <3>1. Operational(res[r].unit)
      BY <1>9, <2>4 DEF RenewHold
    <3>2. \A v \in Unit : v # res[r].unit => ActiveOn(v)' \subseteq ActiveOn(v)
      BY <2>2 DEF ActiveOn, TypeOK, Reservation
    <3>3. GateStep
      BY <2>1, <3>1, <3>2 DEF GateStep, NoNewOccupancy
    <3>4. MoveInsGuarded'
      BY <2>1 DEF MoveInsGuarded, NobodyEnters, NoNewOccupancy, Moving, Entering, Operational
    <3> QED BY <2>1, <3>3, <3>4 DEF StepGoal, OneOccupancyPerUnit, NoNewOccupancy
  <2> QED BY <2>3, <2>4
<1>10. ASSUME NEW r \in Res, PrepareLease(r) PROVE StepGoal
  <2>1. NoNewHold
    BY <1>10 DEF PrepareLease, NoNewHold, TypeOK, Reservation
  <2> QED BY <1>10, <2>1 DEF PrepareLease
<1>11. ASSUME NEW r \in Res, SignLease(r) PROVE StepGoal
  <2>1. NoNewHold
    BY <1>11 DEF SignLease, NoNewHold, TypeOK, Reservation
  <2> QED BY <1>11, <2>1 DEF SignLease
<1>12. ASSUME NEW p \in Proc, NEW r \in Res, NEW h \in Now, ExtendRead(p, r, h) PROVE StepGoal
  <2>1. NobodyEnters
    BY <1>12, OtherRequest DEF ExtendRead, Idle
  <2> QED BY <1>12, <2>1 DEF ExtendRead
<1>13. ASSUME NEW p \in Proc, ExtendCommit(p) PROVE StepGoal
  <2>1. NoNewHold
    BY <1>13 DEF ExtendCommit, NoNewHold, TypeOK, Reservation
  <2> QED BY <1>13, <2>1, RequestDone DEF ExtendCommit
<1>14. ASSUME NEW p \in Proc, NEW r \in Res, CancelRead(p, r) PROVE StepGoal
  <2>1. NobodyEnters
    BY <1>14, OtherRequest DEF CancelRead, Idle
  <2> QED BY <1>14, <2>1 DEF CancelRead
<1>15. ASSUME NEW p \in Proc, CancelClaim(p) PROVE StepGoal
  <2>1. NobodyEnters
    BY <1>15 DEF CancelClaim, NobodyEnters, Moving, TypeOK, Request
  <2> QED BY <1>15, <2>1 DEF CancelClaim
<1>16. ASSUME NEW p \in Proc, NEW r \in Res, ExpireRead(p, r) PROVE StepGoal
  <2>1. NobodyEnters
    BY <1>16, OtherRequest DEF ExpireRead, Idle
  <2> QED BY <1>16, <2>1 DEF ExpireRead
<1>17. ASSUME NEW p \in Proc, ExpireClaim(p) PROVE StepGoal
  <2>1. NobodyEnters
    BY <1>17 DEF ExpireClaim, NobodyEnters, Moving, TypeOK, Request
  <2> QED BY <1>17, <2>1 DEF ExpireClaim
<1>18. ASSUME NEW p \in Proc, CountBlockers(p) PROVE StepGoal
  <2>1. PICK b : proc' = [proc EXCEPT ![p].pc = "counted", ![p].flag = b]
    BY <1>18, Zenon DEF CountBlockers
  <2>2. NobodyEnters
    BY <2>1 DEF NobodyEnters, Moving, TypeOK, Request
  <2> QED BY <1>18, <2>2 DEF CountBlockers
<1>19. ASSUME NEW p \in Proc, EndReservation(p) PROVE StepGoal
  <2>1. res' = [res EXCEPT ![proc[p].r].status = proc[p].st, ![proc[p].r].swept = FALSE,
                       ![proc[p].r].code = IF proc[p].st = "EXPIRED" THEN 0 ELSE @]
    BY <1>19 DEF EndReservation
  <2>2. proc[p].st # "ACTIVE"
    BY RowTypes
  <2>3. NoNewHold
    BY <2>1, <2>2 DEF NoNewHold, TypeOK, Reservation
  <2> QED BY <1>19, <2>3, RequestDone DEF EndReservation
<1>20. ASSUME NEW p \in Proc, NEW r \in Res, SweepRead(p, r) PROVE StepGoal
  <2>1. NobodyEnters
    BY <1>20, OtherRequest DEF SweepRead, Idle
  <2> QED BY <1>20, <2>1 DEF SweepRead
<1>21. ASSUME NEW p \in Proc, SweepRelease(p) PROVE StepGoal
  <2>1. res' = [res EXCEPT ![proc[p].r].status = "CANCELLED", ![proc[p].r].swept = TRUE,
                       ![proc[p].r].code = 0]
    BY <1>21 DEF SweepRelease
  <2>2. NoNewHold
    BY <2>1 DEF NoNewHold, TypeOK, Reservation
  <2> QED BY <1>21, <2>2, RequestDone DEF SweepRelease
<1>22. ASSUME NEW r \in Res, NEW v \in Unit, PatchReservation(r, v) PROVE StepGoal
  <2>1. closed' = closed /\ NoNewOccupancy /\ NobodyEnters
    BY <1>22 DEF PatchReservation
  <2>2. \A w \in Unit : w # v => ActiveOn(w)' \subseteq ActiveOn(w)
    BY <1>22 DEF PatchReservation, ActiveOn, TypeOK, Reservation
  <2>3. GateStep
    BY <1>22, <2>1, <2>2 DEF PatchReservation, GateStep, NoNewOccupancy
  <2>4. MoveInsGuarded'
    BY <2>1 DEF MoveInsGuarded, NobodyEnters, NoNewOccupancy, Moving, Entering, Operational
  <2> QED BY <2>1, <2>3, <2>4 DEF StepGoal, OneOccupancyPerUnit, NoNewOccupancy
<1>23. ASSUME NEW r \in Res, DeleteReservation(r) PROVE StepGoal
  <2>1. NoNewHold
    BY <1>23 DEF DeleteReservation, NoNewHold, TypeOK, Reservation
  <2> QED BY <1>23, <2>1 DEF DeleteReservation
<1>24. ASSUME NEW p \in Proc, NEW u \in Unit, OrphanRead(p, u) PROVE StepGoal
  <2>1. PICK os : proc' = [proc EXCEPT ![p] = [Idle EXCEPT !.pc = "orphan", !.u = u, !.os = os]]
    BY <1>24 DEF OrphanRead
  <2>2. NobodyEnters
    BY <2>1, OtherRequest DEF Idle
  <2> QED BY <1>24, <2>2 DEF OrphanRead
<1>25. ASSUME NEW p \in Proc, OrphanRelease(p) PROVE StepGoal
  <2>1. NoNewOccupancy
    BY <1>25, EndedOccupancies, RowTypes DEF OrphanRelease, Occupancy, Blocking
  <2>2. closed' = closed /\ NobodyEnters /\ NoNewHold
    BY <1>25, RequestDone DEF OrphanRelease
  <2> QED BY <2>1, <2>2
<1>26. ASSUME NEW f \in Floor, SetFloorOperational(f) PROVE StepGoal
  <2>1. NoNewOccupancy /\ NobodyEnters /\ NoNewHold
    BY <1>26 DEF SetFloorOperational
  <2>2. MoveInsGuarded'
    BY <1>26 DEF SetFloorOperational, FacilityUnlocked, MoveInsGuarded, Entering
  <2>3. GateStep
    BY <2>1 DEF GateStep, NoNewHold, NoNewOccupancy, ActiveOn
  <2> QED BY <2>1, <2>2, <2>3 DEF StepGoal, OneOccupancyPerUnit, NoNewOccupancy
<1> QED
  BY <1>1, <1>2, <1>3, <1>4, <1>5, <1>6, <1>7, <1>8, <1>9, <1>10, <1>11, <1>12, <1>13, <1>14,
     <1>15, <1>16, <1>17, <1>18, <1>19, <1>20, <1>21, <1>22, <1>23, <1>24, <1>25, <1>26
  DEF Bookings

-----------------------------------------------------------------------------
(* The operations on tenancies let somebody into a unit only when it is    *)
(* vacant and its floor open (transfers look at the mark on the unit and   *)
(* not at its occupancies, and are left out of the first claim).           *)
LEMMA TenanciesGuarded == TypeOK /\ MoveInsGuarded /\ Tenancies => StepGoal
<1> SUFFICES ASSUME TypeOK, MoveInsGuarded, Tenancies PROVE StepGoal
  OBVIOUS
<1> USE SameOccupancies, SameRequests, SameBookings, QuietStep
<1>1. ASSUME NEW p \in Proc, NEW u \in Unit, NEW r \in Res \cup {NoRow}, NEW simulation \in BOOLEAN,
             MoveInCheck(p, u, r, simulation)
      PROVE  StepGoal
  <2>1. closed' = closed /\ NoNewOccupancy /\ NoNewHold /\ occ' = occ
    BY <1>1 DEF MoveInCheck
  <2>2. proc' = [proc EXCEPT ![p] = [Idle EXCEPT !.pc = "movein", !.r = r, !.u = u,
                                                 !.flag = simulation]]
    BY <1>1 DEF MoveInCheck
  <2>3. \A q \in Proc : Entering(q)' => q = p
    BY <1>1, <2>2 DEF MoveInCheck, FacilityUnlocked, Entering, TypeOK
  <2>4. proc'[p].u = u
    BY <2>2 DEF TypeOK, Idle
  <2>5. BlockingOn(u)' = {} /\ Operational(u)'
    BY <1>1, <2>1 DEF MoveInCheck, BlockingOn, Operational
  <2>6. MoveInsGuarded'
    BY <2>2, <2>3, <2>4, <2>5 DEF MoveInsGuarded, Entering, TypeOK, Idle
  <2>7. GateStep
    BY <2>1 DEF GateStep, NoNewHold, NoNewOccupancy, ActiveOn
  <2> QED BY <2>1, <2>6, <2>7 DEF StepGoal, OneOccupancyPerUnit, NoNewOccupancy
<1>2. ASSUME NEW p \in Proc, NEW t \in Ten, NEW o \in Occ, MoveInCommit(p, t, o)
      PROVE  StepGoal
  <2> PICK u : u = proc[p].u
    OBVIOUS
  <2>1. Entering(p) /\ Done(p) /\ closed' = closed
    BY <1>2 DEF MoveInCommit, Entering
  <2>2. BlockingOn(u) = {} /\ Operational(u)
    BY <2>1 DEF MoveInsGuarded
  <2>3. occ' = [occ EXCEPT ![o] = [status |-> "PENDING", unit |-> u, ten |-> t]]
    BY <1>2 DEF MoveInCommit
  <2>4. \A v : v # u => BlockingOn(v)' \subseteq BlockingOn(v)
    BY <2>3 DEF BlockingOn, TypeOK
  <2>5. BlockingOn(u)' \subseteq {o}
    BY <2>2, <2>3 DEF BlockingOn, TypeOK
  <2>6. \A q \in Proc : ~ Entering(q)'
    BY <2>1 DEF Done, MoveInsGuarded, Entering, TypeOK, Idle
  <2>7. MoveInsGuarded'
    BY <2>1, <2>6 DEF MoveInsGuarded, Entering, Done, TypeOK, Idle
  <2>8. \A v \in Unit : ActiveOn(v)' \subseteq ActiveOn(v)
    <3>1. \A q \in Res : res'[q] = IF q = proc[p].r
                                   THEN [res[q] EXCEPT !.status = "CONVERTED", !.ten = t]
                                   ELSE res[q]
      BY <1>2 DEF MoveInCommit
    <3>2. \A q \in Res : [res[q] EXCEPT !.status = "CONVERTED", !.ten = t].status = "CONVERTED"
      BY DEF TypeOK, Reservation
    <3> QED BY <3>1, <3>2 DEF ActiveOn
  <2>9. GateStep
    BY <2>2, <2>4, <2>8 DEF GateStep
  <2>10. OneOccupancyPerUnit => OneOccupancyPerUnit'
    BY <2>4, <2>5 DEF OneOccupancyPerUnit
  <2> QED BY <2>7, <2>9, <2>10 DEF StepGoal
<1>3. ASSUME NEW p \in Proc, NEW t \in Ten, DispatchRead(p, t) PROVE StepGoal
  <2>1. NobodyEnters
    BY <1>3, OtherRequest DEF DispatchRead, Idle
  <2> QED BY <1>3, <2>1 DEF DispatchRead
<1>4. ASSUME NEW p \in Proc, DispatchAttach(p) PROVE StepGoal
  BY <1>4, RequestDone DEF DispatchAttach
<1>5. ASSUME NEW t \in Ten, CompleteEnvelope(t) PROVE StepGoal
  BY <1>5 DEF CompleteEnvelope
<1>6. ASSUME NEW r \in Res, NEW t \in Ten, NEW o \in Occ, ConfirmMoveIn(r, t, o) PROVE StepGoal
  <2> PICK u : u = res[r].unit
    OBVIOUS
  <2>1. closed' = closed /\ proc' = proc /\ \A q \in Proc : ~ Entering(q)
    BY <1>6 DEF ConfirmMoveIn, FacilityUnlocked, Entering
  <2>2. BlockingOn(u) = {} /\ Operational(u)
    BY <1>6 DEF ConfirmMoveIn
  <2>3. occ' = [occ EXCEPT ![o] = [status |-> "ACTIVE", unit |-> u, ten |-> t]]
    BY <1>6 DEF ConfirmMoveIn
  <2>4. \A v : v # u => BlockingOn(v)' \subseteq BlockingOn(v)
    BY <2>3 DEF BlockingOn, TypeOK
  <2>5. BlockingOn(u)' \subseteq {o}
    BY <2>2, <2>3 DEF BlockingOn, TypeOK
  <2>6. MoveInsGuarded'
    BY <2>1 DEF MoveInsGuarded, Entering
  <2>7. \A v \in Unit : ActiveOn(v)' \subseteq ActiveOn(v)
    BY <1>6 DEF ConfirmMoveIn, ActiveOn, TypeOK, Reservation
  <2>8. GateStep
    BY <2>2, <2>4, <2>7 DEF GateStep
  <2>9. OneOccupancyPerUnit => OneOccupancyPerUnit'
    BY <2>4, <2>5 DEF OneOccupancyPerUnit
  <2> QED BY <2>6, <2>8, <2>9 DEF StepGoal
<1>7. ASSUME NEW p \in Proc, NEW t \in Ten, NEW o \in Occ, LegacyRead(p, t, o) PROVE StepGoal
  <2>1. NobodyEnters
    BY <1>7, OtherRequest DEF LegacyRead, Idle
  <2> QED BY <1>7, <2>1 DEF LegacyRead
<1>8. ASSUME NEW p \in Proc, NEW o \in Occ, LegacyCommit(p, o) PROVE StepGoal
  <2>1. occ[o].status \in Blocking
    BY <1>8 DEF LegacyCommit, HandoverReady, OccupanciesOf
  <2>2. occ' = [occ EXCEPT ![o].status = "ACTIVE"]
    BY <1>8 DEF LegacyCommit
  <2>3. NoNewOccupancy
    BY <2>1, <2>2, EndedOccupancies DEF TypeOK, Occupancy
  <2> QED BY <1>8, <2>3, RequestDone DEF LegacyCommit
<1>9. ASSUME NEW p \in Proc, NEW t \in Ten, NEW v \in Unit, NEW o \in Occ, TransferRead(p, t, v, o)
      PROVE  StepGoal
  <2>1. closed' = closed /\ NoNewOccupancy /\ NoNewHold /\ "transfer" \in Ops
    BY <1>9 DEF TransferRead, Start
  <2>2. proc' = [proc EXCEPT ![p] = [Idle EXCEPT !.pc = "transfer", !.t = t, !.u = v, !.os = {o}]]
    BY <1>9 DEF TransferRead
  <2>3. MoveInsGuarded'
    BY <2>1, <2>2 DEF MoveInsGuarded, Entering, NoNewOccupancy, Operational, TypeOK, Idle
  <2>4. GateStep
    BY <2>1 DEF GateStep, NoNewHold, NoNewOccupancy, ActiveOn
  <2> QED BY <2>1, <2>3, <2>4 DEF StepGoal
<1>10. ASSUME NEW p \in Proc, NEW o \in Occ, NEW n \in Occ, TransferCommit(p, o, n) PROVE StepGoal
  <2> PICK v : v = proc[p].u
    OBVIOUS
  <2>1. closed' = closed /\ NoNewHold /\ Done(p) /\ Operational(v) /\ \A q \in Proc : ~ Entering(q)
    BY <1>10 DEF TransferCommit, FacilityUnlocked, Entering
  <2>2. "transfer" \in Ops
    BY <1>10 DEF TransferCommit, MoveInsGuarded
  <2>3. MoveInsGuarded'
    BY <2>1, <2>2, RequestDone DEF MoveInsGuarded, NobodyEnters, Moving, Entering
  <2>4. occ' = [occ EXCEPT ![o].status = "MOVED_OUT",
                           ![n] = [status |-> "ACTIVE", unit |-> v, ten |-> proc[p].t]]
    BY <1>10 DEF TransferCommit
  <2>5. \A w : w # v => BlockingOn(w)' \subseteq BlockingOn(w)
    BY <2>4 DEF BlockingOn, Blocking, TypeOK, Occupancy
  <2>6. GateStep
    BY <2>1, <2>5 DEF GateStep, NoNewHold, ActiveOn
  <2> QED BY <2>2, <2>3, <2>6 DEF StepGoal
<1>11. ASSUME NEW p \in Proc, NEW t \in Ten, NoticeRead(p, t) PROVE StepGoal
  <2>1. NobodyEnters
    BY <1>11, OtherRequest DEF NoticeRead, Idle
  <2> QED BY <1>11, <2>1 DEF NoticeRead
<1>12. ASSUME NEW p \in Proc, NoticeCommit(p) PROVE StepGoal
  <2>1. NoNewOccupancy
    BY <1>12, EndedOccupancies, RowTypes
    DEF NoticeCommit, OccupanciesOf, Occupancy, Blocking
  <2> QED BY <1>12, <2>1, RequestDone DEF NoticeCommit
<1>13. ASSUME NEW p \in Proc, NEW t \in Ten, MoveOutRead(p, t) PROVE StepGoal
  <2>1. NobodyEnters
    BY <1>13, OtherRequest DEF MoveOutRead, Idle
  <2> QED BY <1>13, <2>1 DEF MoveOutRead
<1>14. ASSUME NEW p \in Proc, MoveOutClaim(p) PROVE StepGoal
  <2>1. PICK os, plan : proc' = [proc EXCEPT ![p].pc = "closing", ![p].os = os, ![p].plan = plan]
    BY <1>14 DEF MoveOutClaim
  <2>2. NobodyEnters
    BY <2>1 DEF NobodyEnters, Moving, TypeOK, Request
  <2> QED BY <1>14, <2>2 DEF MoveOutClaim
<1>15. ASSUME NEW p \in Proc, MoveOutCommit(p) PROVE StepGoal
  <2>1. NoNewOccupancy
    BY <1>15, EndedOccupancies, RowTypes DEF MoveOutCommit, Occupancy, Blocking
  <2> QED BY <1>15, <2>1, RequestDone DEF MoveOutCommit
<1>16. ASSUME NEW u \in Unit, NEW m \in Maint, MaintenanceClaim(u, m) PROVE StepGoal
  BY <1>16 DEF MaintenanceClaim
<1>17. ASSUME NEW p \in Proc, NEW u \in Unit, MaintenanceRead(p, u) PROVE StepGoal
  <2>1. NobodyEnters
    BY <1>17, OtherRequest DEF MaintenanceRead, Idle
  <2> QED BY <1>17, <2>1 DEF MaintenanceRead
<1>18. ASSUME NEW p \in Proc, NEW m \in Maint, MaintenanceOpen(p, m) PROVE StepGoal
  BY <1>18, RequestDone DEF MaintenanceOpen
<1>19. ASSUME NEW u \in Unit, NEW m \in Maint, NEW status \in {"OPEN", "ENDED"},
              MaintenanceUpdate(u, m, status)
      PROVE  StepGoal
  BY <1>19 DEF MaintenanceUpdate
<1>20. ASSUME NEW u \in Unit, NEW status \in {"AVAILABLE", "SERVICE", "UNAVAILABLE"},
              EditUnit(u, status)
      PROVE  StepGoal
  BY <1>20 DEF EditUnit
<1>21. ASSUME NEW u \in Unit, RetireUnit(u) PROVE StepGoal
  BY <1>21 DEF RetireUnit
<1> QED
  BY <1>1, <1>2, <1>3, <1>4, <1>5, <1>6, <1>7, <1>8, <1>9, <1>10, <1>11, <1>12, <1>13, <1>14,
     <1>15, <1>16, <1>17, <1>18, <1>19, <1>20, <1>21
  DEF Tenancies

(* Every step of the leasing core keeps the promises. *)
LEMMA StepGuarded == TypeOK /\ MoveInsGuarded /\ [Next]_vars => StepGoal
<1> SUFFICES ASSUME TypeOK, MoveInsGuarded, [Next]_vars PROVE StepGoal
  OBVIOUS
<1> USE SameOccupancies, SameRequests, SameBookings, QuietStep
<1>1. ASSUME NEW p \in Proc, Rollback(p) PROVE StepGoal
  BY <1>1, RequestDone DEF Rollback
<1>2. CASE Tick
  BY <1>2 DEF Tick
<1>3. CASE UNCHANGED vars
  BY <1>3 DEF vars
<1> QED BY <1>1, <1>2, <1>3, BookingsGuarded, TenanciesGuarded DEF Next

-----------------------------------------------------------------------------
(* The state of a move-in under its locks is as the move-in found it.      *)
THEOREM MoveInsHold == Spec => []MoveInsGuarded
<1>1. Init => MoveInsGuarded
  BY DEF Init, Idle, MoveInsGuarded, Entering
<1>2. TypeOK /\ MoveInsGuarded /\ [Next]_vars => MoveInsGuarded'
  BY StepGuarded DEF StepGoal
<1> QED BY <1>1, <1>2, Typing, PTL DEF Spec

(* Two tenants are never let into one unit, by whatever operations the     *)
(* bookings, signatures, handovers, clean-ups and move-outs are worked on, *)
(* and however their requests interleave; without transfers.               *)
THEOREM OneTenant ==
  ASSUME "transfer" \notin Ops
  PROVE  Spec => []OneOccupancyPerUnit
<1>1. Init => OneOccupancyPerUnit
  BY DEF Init, OneOccupancyPerUnit, BlockingOn, Blocking, NoOccupancy
<1>2. TypeOK /\ MoveInsGuarded /\ OneOccupancyPerUnit /\ [Next]_vars => OneOccupancyPerUnit'
  BY StepGuarded DEF StepGoal
<1> QED BY <1>1, <1>2, Typing, MoveInsHold, PTL DEF Spec

(* No booking and no occupancy ever begins on a closed floor, transfers    *)
(* and the unguarded operations included.                                  *)
THEOREM ClosedFloorsStayClosed == Spec => FloorGate
<1>1. TypeOK /\ MoveInsGuarded /\ [Next]_vars => [GateStep]_vars
  BY StepGuarded DEF StepGoal
<1> QED BY <1>1, Typing, MoveInsHold, PTL DEF Spec, FloorGate, GateStep

-----------------------------------------------------------------------------
(* What the guarded operations keep: the mark on a unit stands for its one *)
(* claim.  Move-outs and transfers are not in use together.                *)
Guarded == UnguardedOps \cap Ops = {} /\ ~ ({"transfer", "moveout"} \subseteq Ops)

UnitOK(u) ==
    /\ \A r \in ActiveOn(u) : unit[u] = "RESERVED" /\ ActiveOn(u) = {r} /\ BlockingOn(u) = {}
    /\ \A o \in BlockingOn(u) : /\ BlockingOn(u) = {o}
                                /\ unit[u] = IF occ[o].status = "PENDING" THEN "RESERVED"
                                             ELSE "OCCUPIED"

(* Every booking and every occupancy is for a unit.                        *)
Placed ==
    /\ \A r \in Res : res[r].status # "NONE" => res[r].unit \in Unit
    /\ \A o \in Occ : occ[o].status # "NONE" => occ[o].unit \in Unit

(* Without transfers a tenancy has one occupancy, ever.                    *)
OneRow ==
    "transfer" \notin Ops =>
       \A o, n \in Occ : occ[o].status # "NONE" /\ occ[n].status # "NONE" /\ occ[o].ten = occ[n].ten
                            => o = n

(* What a request knows of the unit it works on: the one of its booking,   *)
(* which nothing else keeps once that is counted; for a move-in, one that  *)
(* only its own booking keeps; and those of the occupancies it has locked. *)
Minding(q) == proc[q].pc \in {"claim", "claimed", "counted", "sweep"}
Known(q) ==
    /\ proc[q].pc \notin {"cancel", "orphan"}
    /\ Minding(q) => /\ proc[q].r \in Res /\ res[proc[q].r].status # "NONE"
                     /\ res[proc[q].r].unit = proc[q].u
    /\ proc[q].pc = "counted" => proc[q].flag
    /\ Entering(q) => proc[q].u \in Unit /\ ActiveOn(proc[q].u) = {proc[q].r} \ {NoRow}
    /\ proc[q].pc \in {"moveout", "closing"} => "moveout" \in Ops
    /\ proc[q].pc = "transfer" => "transfer" \in Ops /\ proc[q].u \in Unit
    /\ Closing(q) => \A u \in Unit : proc[q].plan[u] # "NONE" => \E o \in proc[q].os : occ[o].unit = u

HoldingInv ==
    /\ \A u \in Unit : UnitOK(u)
    /\ Placed
    /\ OneRow
    /\ \A q \in Proc : Known(q)

(* Everything it rests on. *)
Premises == TypeOK /\ BookingInv /\ TenancyInv /\ MoveInsGuarded /\ HoldingInv

(* So every claim is backed by its unit's mark, and alone.                 *)
LEMMA BackedUnits == HoldingInv => HoldBacked /\ OccupancyBacked /\ OneClaimPerUnit
<1> SUFFICES ASSUME HoldingInv PROVE HoldBacked /\ OccupancyBacked /\ OneClaimPerUnit
  OBVIOUS
<1> USE DEF HoldingInv
<1>1. HoldBacked
  BY DEF HoldBacked, Placed, UnitOK, ActiveOn
<1>2. OccupancyBacked
  <2>1. ASSUME NEW o \in Occ, occ[o].status \in Blocking
        PROVE  unit[occ[o].unit] = IF occ[o].status = "PENDING" THEN "RESERVED" ELSE "OCCUPIED"
    <3>1. occ[o].unit \in Unit
      BY <2>1 DEF Placed, Blocking
    <3>2. o \in BlockingOn(occ[o].unit)
      BY <2>1 DEF BlockingOn
    <3> QED BY <3>1, <3>2 DEF UnitOK
  <2> QED BY <2>1 DEF OccupancyBacked, Living, Blocking
<1>3. OneClaimPerUnit
  BY DEF OneClaimPerUnit, UnitOK
<1> QED BY <1>1, <1>2, <1>3

(* The rows a step finds stay where they are, and the new ones are for a   *)
(* unit, too.                                                              *)
RowsStay ==
    /\ \A r \in Res : res[r].status # "NONE" =>
          res'[r].status # "NONE" /\ res'[r].unit = res[r].unit
    /\ \A o \in Occ : occ[o].status # "NONE" =>
          occ'[o].status # "NONE" /\ occ'[o].unit = occ[o].unit /\ occ'[o].ten = occ[o].ten
RowsPlaced ==
    /\ \A r \in Res : res'[r].status # "NONE" => res[r].status # "NONE" \/ res'[r].unit \in Unit
    /\ \A o \in Occ : occ'[o].status # "NONE" => occ[o].status # "NONE" \/ occ'[o].unit \in Unit

(* A request that takes no step still knows what it knew, unless the unit  *)
(* of its move-in is touched.                                              *)
Undisturbed(q) == proc'[q] = proc[q] /\ (Entering(q) => ActiveOn(proc[q].u)' = ActiveOn(proc[q].u))

(* A step that leaves the rows where they are, the units marked right and  *)
(* the requests as they were keeps it all.                                 *)
LEMMA HoldingKept ==
  ASSUME Premises, RowsStay, RowsPlaced, OneRow',
         \A u \in Unit : UnitOK(u)',
         \A q \in Proc : Undisturbed(q) \/ Known(q)'
  PROVE  HoldingInv'
<1> USE DEF Premises, HoldingInv
<1>1. Placed'
  BY DEF Placed, RowsStay, RowsPlaced
<1>2. ASSUME NEW q \in Proc, Undisturbed(q)
      PROVE  Known(q)'
  <2>1. proc'[q] = proc[q] /\ Known(q) /\ proc[q].os \subseteq Occ
    BY <1>2 DEF Undisturbed, TypeOK, Request
  <2>2. Minding(q)' => /\ proc'[q].r \in Res /\ res'[proc'[q].r].status # "NONE"
                       /\ res'[proc'[q].r].unit = proc'[q].u
    BY <2>1 DEF Known, Minding, RowsStay
  <2>3. Entering(q)' => proc'[q].u \in Unit /\ ActiveOn(proc[q].u)' = {proc'[q].r} \ {NoRow}
    BY <1>2, <2>1 DEF Known, Entering, Undisturbed
  <2>4. ASSUME Closing(q)', NEW u \in Unit, proc'[q].plan[u] # "NONE"
        PROVE  \E o \in proc'[q].os : occ'[o].unit = u
    <3>1. Closing(q) /\ proc[q].plan[u] # "NONE"
      BY <2>1, <2>4 DEF Closing
    <3>2. PICK o \in proc[q].os : occ[o].unit = u
      BY <2>1, <3>1 DEF Known
    <3>3. o \in Occ /\ occ[o].status \in Living
      BY <2>1, <3>1 DEF TenancyInv, LeavingKnown, LeaverKnown
    <3>4. occ'[o].unit = u
      BY <3>2, <3>3 DEF RowsStay, Living
    <3> QED BY <2>1, <3>4
  <2>5. /\ proc'[q].pc \notin {"cancel", "orphan"}
        /\ proc'[q].pc = "counted" => proc'[q].flag
        /\ proc'[q].pc \in {"moveout", "closing"} => "moveout" \in Ops
        /\ proc'[q].pc = "transfer" => "transfer" \in Ops /\ proc'[q].u \in Unit
    BY <2>1 DEF Known
  <2> QED BY <2>2, <2>3, <2>4, <2>5 DEF Known
<1> QED BY <1>1, <1>2

(* A unit keeps its mark when some of its claims go, or an occupancy of it *)
(* moves on, and may be marked anything when none is left.                 *)
LEMMA UnitFewer ==
  ASSUME NEW u, UnitOK(u), unit'[u] = unit[u], ActiveOn(u)' \subseteq ActiveOn(u),
         \A o \in BlockingOn(u)' : /\ o \in BlockingOn(u)
                                   /\ (occ'[o].status = "PENDING") <=> (occ[o].status = "PENDING")
  PROVE  UnitOK(u)'
BY DEF UnitOK

(* (It is free to be marked anything, then.)                               *)
LEMMA UnitCleared ==
  ASSUME NEW u, ActiveOn(u)' = {}, BlockingOn(u)' = {}
  PROVE  UnitOK(u)'
BY DEF UnitOK

(* One booking keeps a unit reserved ...                                   *)
LEMMA UnitHeld ==
  ASSUME NEW u, NEW r, ActiveOn(u)' = {r}, BlockingOn(u)' = {}, unit'[u] = "RESERVED"
  PROVE  UnitOK(u)'
BY DEF UnitOK

(* ... and one occupancy reserved or occupied.                             *)
LEMMA UnitLet ==
  ASSUME NEW u, NEW o, ActiveOn(u)' = {}, BlockingOn(u)' = {o},
         unit'[u] = IF occ'[o].status = "PENDING" THEN "RESERVED" ELSE "OCCUPIED"
  PROVE  UnitOK(u)'
BY DEF UnitOK

(* A unit that is not marked for anybody has no claim. *)
LEMMA Unclaimed ==
  ASSUME NEW u, UnitOK(u), unit[u] \notin {"RESERVED", "OCCUPIED"}
  PROVE  ActiveOn(u) = {} /\ BlockingOn(u) = {}
BY DEF UnitOK

-----------------------------------------------------------------------------
(* A request that begins something else, or is done, knows nothing yet. *)
LEMMA Unconcerned ==
  ASSUME NEW q, proc'[q].pc \notin {"cancel", "orphan", "claim", "claimed", "counted", "sweep",
                                    "movein", "moveout", "closing", "transfer"}
  PROVE  Known(q)'
BY DEF Known, Minding, Entering, Closing

(* ... or nothing yet of any unit it will write ...                        *)
LEMMA ConcernsNobody ==
  ASSUME TypeOK, NEW p, NEW x, proc' = [proc EXCEPT ![p] = x],
         x.pc \notin {"cancel", "orphan", "claim", "claimed", "counted", "sweep",
                      "movein", "moveout", "closing", "transfer"}
  PROVE  \A q \in Proc : proc'[q] = proc[q] \/ Known(q)'
BY Unconcerned DEF TypeOK

(* ... or is done.  The others know what they knew,                        *)
LEMMA ConcernEnds ==
  ASSUME TypeOK, NEW p, Done(p)
  PROVE  \A q \in Proc : proc'[q] = proc[q] \/ Known(q)'
BY ConcernsNobody DEF Done, Idle

(* all of them where no request moves.                                     *)
LEMMA SameConcerns == proc' = proc => \A q \in Proc : proc'[q] = proc[q] \/ Known(q)'
OBVIOUS

(* Nothing happens to a unit unless a claim on it comes, goes or moves on. *)
ClaimsStay ==
    /\ \A r \in Res : res'[r].status = res[r].status /\ res'[r].unit = res[r].unit
    /\ \A o \in Occ : /\ occ'[o].status = occ[o].status /\ occ'[o].unit = occ[o].unit
                      /\ occ'[o].ten = occ[o].ten

(* The claims stay where no row is written.                                *)
LEMMA SameClaims == res' = res /\ occ' = occ => ClaimsStay
BY DEF ClaimsStay

(* Then a unit may be marked something else only if it has no claim.       *)
LEMMA ClaimsKept ==
  ASSUME Premises, ClaimsStay, \A q \in Proc : proc'[q] = proc[q] \/ Known(q)',
         \A u \in Unit : unit'[u] = unit[u] \/ (ActiveOn(u) = {} /\ BlockingOn(u) = {})
  PROVE  HoldingInv'
<1>1. \A u \in Unit : /\ ActiveOn(u)' = ActiveOn(u) /\ BlockingOn(u)' = BlockingOn(u)
                      /\ \A o \in BlockingOn(u) : occ'[o].status = occ[o].status
  BY DEF ClaimsStay, ActiveOn, BlockingOn
<1>2. \A u \in Unit : UnitOK(u)'
  BY <1>1, UnitFewer, UnitCleared DEF Premises, HoldingInv
<1>3. RowsStay /\ RowsPlaced /\ OneRow'
  BY DEF RowsStay, RowsPlaced, OneRow, ClaimsStay, Premises, HoldingInv
<1>4. \A q \in Proc : Undisturbed(q) \/ Known(q)'
  <2>1. ASSUME NEW q \in Proc, proc'[q] = proc[q], Entering(q)
        PROVE  ActiveOn(proc[q].u)' = ActiveOn(proc[q].u)
    BY <2>1 DEF ActiveOn, ClaimsStay
  <2> QED BY <2>1 DEF Undisturbed
<1> QED BY <1>2, <1>3, <1>4, HoldingKept

(* A booking r begins, or is renewed, on unit u, which nothing else keeps. *)
LEMMA UnitBooked ==
  ASSUME Premises, NEW u \in Unit, NEW r \in Res, NEW x, res' = [res EXCEPT ![r] = x],
         x.status = "ACTIVE", x.unit = u, res[r].status # "NONE" => res[r].unit = u,
         ActiveOn(u) \subseteq {r}, BlockingOn(u) = {}, UnitUnlocked(u),
         unit' = [unit EXCEPT ![u] = "RESERVED"], occ' = occ,
         \A q \in Proc : proc'[q] = proc[q] \/ Known(q)'
  PROVE  HoldingInv'
<1> USE DEF Premises, HoldingInv
<1>1. res'[r] = x /\ \A q \in Res : q # r => res'[q] = res[q]
  BY DEF TypeOK
<1>2. unit'[u] = "RESERVED" /\ \A v \in Unit : v # u => unit'[v] = unit[v]
  BY DEF TypeOK
<1>3. res[r].status = "ACTIVE" => res[r].unit = u
  OBVIOUS
<1>4. \A v \in Unit : v # u => ActiveOn(v)' = ActiveOn(v)
  BY <1>1, <1>3 DEF ActiveOn
<1>5. \A v : BlockingOn(v)' = BlockingOn(v)
  BY DEF BlockingOn
<1>6. ActiveOn(u)' = {r}
  BY <1>1 DEF ActiveOn
<1>7. UnitOK(u)'
  BY <1>2, <1>5, <1>6, UnitHeld
<1>8. \A v \in Unit : v # u => UnitOK(v)'
  BY <1>2, <1>4, <1>5, UnitFewer
<1>9. RowsStay /\ RowsPlaced /\ OneRow'
  BY <1>1 DEF RowsStay, RowsPlaced, OneRow
<1>10. \A q \in Proc : Undisturbed(q) \/ Known(q)'
  <2>1. ASSUME NEW q \in Proc, proc'[q] = proc[q], Entering(q)
        PROVE  ActiveOn(proc[q].u)' = ActiveOn(proc[q].u)
    <3>1. proc[q].u \in Unit /\ proc[q].u # u
      BY <2>1 DEF UnitUnlocked, Known, Entering
    <3> QED BY <1>1, <1>3, <2>1, <3>1 DEF ActiveOn
  <2> QED BY <2>1 DEF Undisturbed
<1> QED BY <1>7, <1>8, <1>9, <1>10, HoldingKept

(* A booking r ends, and its unit, which nothing else keeps, is marked     *)
(* anything.                                                               *)
LEMMA UnitReleased ==
  ASSUME Premises, NEW r \in Res, NEW x, NEW y, res' = [res EXCEPT ![r] = x],
         res[r].status = "ACTIVE", x.status \notin {"NONE", "ACTIVE"}, x.unit = res[r].unit,
         UnitUnlocked(res[r].unit), unit' = [unit EXCEPT ![res[r].unit] = y], occ' = occ,
         \A q \in Proc : proc'[q] = proc[q] \/ Known(q)'
  PROVE  HoldingInv'
<1> USE DEF Premises, HoldingInv
<1> PICK u : u = res[r].unit
  OBVIOUS
<1>0. u \in Unit /\ ActiveOn(u) = {r} /\ BlockingOn(u) = {}
  <2>1. u \in Unit
    BY DEF Placed
  <2>2. r \in ActiveOn(u)
    BY DEF ActiveOn
  <2> QED BY <2>1, <2>2 DEF UnitOK
<1>1. res'[r] = x /\ \A q \in Res : q # r => res'[q] = res[q]
  BY DEF TypeOK
<1>2. \A v \in Unit : v # u => unit'[v] = unit[v]
  BY DEF TypeOK
<1>4. \A v \in Unit : v # u => ActiveOn(v)' = ActiveOn(v)
  BY <1>1 DEF ActiveOn
<1>5. \A v : BlockingOn(v)' = BlockingOn(v)
  BY DEF BlockingOn
<1>6. ActiveOn(u)' = {}
  <2>1. ASSUME NEW q \in Res, res'[q].status = "ACTIVE", res'[q].unit = u PROVE FALSE
    <3>1. q # r /\ q \in ActiveOn(u)
      BY <1>1, <2>1 DEF ActiveOn
    <3> QED BY <1>0, <3>1
  <2> QED BY <2>1 DEF ActiveOn
<1>7. UnitOK(u)'
  BY <1>0, <1>5, <1>6, UnitCleared
<1>8. \A v \in Unit : v # u => UnitOK(v)'
  BY <1>2, <1>4, <1>5, UnitFewer
<1>9. RowsStay /\ RowsPlaced /\ OneRow'
  BY <1>1 DEF RowsStay, RowsPlaced, OneRow
<1>10. \A q \in Proc : Undisturbed(q) \/ Known(q)'
  <2>1. ASSUME NEW q \in Proc, proc'[q] = proc[q], Entering(q)
        PROVE  ActiveOn(proc[q].u)' = ActiveOn(proc[q].u)
    <3>1. proc[q].u \in Unit /\ proc[q].u # u
      BY <2>1 DEF UnitUnlocked, Known, Entering
    <3> QED BY <1>1, <2>1, <3>1 DEF ActiveOn
  <2> QED BY <2>1 DEF Undisturbed
<1> QED BY <1>7, <1>8, <1>9, <1>10, HoldingKept

(* A new occupancy o of a new tenancy t takes unit u, which only a booking *)
(* kept, and converts that.                                                *)
LEMMA UnitEntered ==
  ASSUME Premises, NEW u \in Unit, NEW t \in Ten, NEW o \in Occ, NEW y,
         occ[o].status = "NONE", ten[t].status = "NONE", occ' = [occ EXCEPT ![o] = y],
         y.unit = u, y.ten = t, y.status \in {"PENDING", "ACTIVE"},
         unit' = [unit EXCEPT ![u] = IF y.status = "PENDING" THEN "RESERVED" ELSE "OCCUPIED"],
         BlockingOn(u) = {},
         \A q \in ActiveOn(u) : res'[q].status = "CONVERTED" /\ res'[q].unit = u,
         \A q \in Res : q \notin ActiveOn(u) => res'[q] = res[q],
         \A q \in Proc : (proc'[q] = proc[q] /\ ~ Entering(q)) \/ Known(q)'
  PROVE  HoldingInv'
<1> USE DEF Premises, HoldingInv
<1>1. occ'[o] = y /\ \A n \in Occ : n # o => occ'[n] = occ[n]
  BY DEF TypeOK
<1>2. /\ unit'[u] = IF y.status = "PENDING" THEN "RESERVED" ELSE "OCCUPIED"
      /\ \A v \in Unit : v # u => unit'[v] = unit[v]
  BY DEF TypeOK
<1>3. \A v \in Unit : v # u => ActiveOn(v)' = ActiveOn(v)
  BY DEF ActiveOn
<1>4. ActiveOn(u)' = {}
  <2>1. ASSUME NEW q \in Res, res'[q].status = "ACTIVE", res'[q].unit = u PROVE FALSE
    <3>1. CASE q \in ActiveOn(u)
      BY <2>1, <3>1
    <3>2. CASE q \notin ActiveOn(u)
      BY <2>1, <3>2 DEF ActiveOn
    <3> QED BY <3>1, <3>2
  <2> QED BY <2>1 DEF ActiveOn
<1>5. \A v \in Unit : v # u => BlockingOn(v)' = BlockingOn(v)
  BY <1>1 DEF BlockingOn, Blocking
<1>6. BlockingOn(u)' = {o}
  <2>1. o \in BlockingOn(u)'
    BY <1>1 DEF BlockingOn, Blocking
  <2>2. ASSUME NEW n \in Occ, occ'[n].status \in Blocking, occ'[n].unit = u, n # o PROVE FALSE
    <3>1. n \in BlockingOn(u)
      BY <1>1, <2>2 DEF BlockingOn
    <3> QED BY <3>1
  <2> QED BY <2>1, <2>2 DEF BlockingOn
<1>7. UnitOK(u)'
  BY <1>1, <1>2, <1>4, <1>6, UnitLet
<1>8. ASSUME NEW v \in Unit, v # u PROVE UnitOK(v)'
  <2>1. \A n \in BlockingOn(v) : occ'[n] = occ[n]
    BY <1>1 DEF BlockingOn, Blocking
  <2> QED BY <1>2, <1>3, <1>5, <1>8, <2>1, UnitFewer
<1>9. RowsStay /\ RowsPlaced
  BY <1>1 DEF RowsStay, RowsPlaced, ActiveOn
<1>10. OneRow'
  <2>1. \A n \in Occ : occ[n].status # "NONE" => occ[n].ten # t
    BY DEF TenancyInv, OccupanciesOwned
  <2> QED BY <1>1, <2>1 DEF OneRow
<1>11. \A q \in Proc : Undisturbed(q) \/ Known(q)'
  BY DEF Undisturbed
<1> QED BY <1>7, <1>8, <1>9, <1>10, <1>11, HoldingKept

(* A move-out claims what it read, where transfers are not in use: then a  *)
(* tenancy has one occupancy, and their numbers agree.                     *)
LEMMA ClaimedAsRead ==
  ASSUME Guarded, Premises, NEW p \in Proc, MoveOutClaim(p)
  PROVE  OccupanciesOf(proc[p].t, Living) = proc[p].os
<1> DEFINE claimed == OccupanciesOf(proc[p].t, Living)
           read == proc[p].os
<1>1. proc[p].pc = "moveout" /\ Cardinality(claimed) = Cardinality(read)
  BY DEF MoveOutClaim
<1>2. "transfer" \notin Ops
  BY <1>1 DEF Premises, HoldingInv, Known, Guarded
<1>3. /\ read \subseteq Occ /\ \A o \in read : occ[o].status # "NONE" /\ occ[o].ten = proc[p].t
      /\ claimed \subseteq Occ /\ \A o \in claimed : occ[o].status # "NONE" /\ occ[o].ten = proc[p].t
  BY <1>1 DEF Premises, TenancyInv, LeavingKnown, LeaverKnown, OccupanciesOf, Living, TypeOK, Request
<1> HIDE DEF claimed, read
<1>4. \A o \in read \cup claimed, n \in read \cup claimed : o = n
  BY <1>2, <1>3 DEF Premises, HoldingInv, OneRow
<1>5. IsFiniteSet(read) /\ IsFiniteSet(claimed)
  <2>1. IsFiniteSet(Occ)
    BY BoundsAssumption, FS_Interval DEF Occ
  <2> QED BY <1>3, <2>1, FS_Subset
<1>6. read = {} <=> claimed = {}
  BY <1>1, <1>5, FS_EmptySet
<1>7. claimed = read
  BY <1>4, <1>6
<1> QED BY <1>7 DEF claimed, read

(* The operations on bookings mark a unit for the booking they begin, and  *)
(* clear the mark only with its last claim ...                             *)
LEMMA BookingsKeepHolding ==
  ASSUME Guarded, Premises, Bookings
  PROVE  HoldingInv'
<1> USE ClaimsKept, SameClaims, SameConcerns, ConcernEnds DEF Premises
<1>h. ASSUME NEW u \in Unit, NEW l, NEW r \in Res, NEW h, NEW public \in BOOLEAN,
             HoldUnit(u, l, r, h, public), occ' = occ,
             \A q \in Proc : proc'[q] = proc[q] \/ Known(q)'
      PROVE  HoldingInv'
  <2> DEFINE x == [NoReservation EXCEPT !.status = "ACTIVE", !.unit = u, !.lead = l, !.hold = h,
                                        !.public = public,
                                        !.code = IF public THEN h ELSE 0]
  <2>1. /\ res' = [res EXCEPT ![r] = x] /\ res[r].status = "NONE" /\ unit[u] = "AVAILABLE"
        /\ unit' = [unit EXCEPT ![u] = "RESERVED"] /\ UnitUnlocked(u)
    BY <1>h DEF HoldUnit, NextRow
  <2>2. x.status = "ACTIVE" /\ x.unit = u
    BY DEF NoReservation
  <2>3. ActiveOn(u) = {} /\ BlockingOn(u) = {}
    BY <2>1, Unclaimed DEF HoldingInv
  <2> HIDE DEF x
  <2> QED BY <1>h, <2>1, <2>2, <2>3, UnitBooked
<1>1. ASSUME NEW l \in Lead, CreateLead(l) PROVE HoldingInv'
  BY <1>1 DEF CreateLead
<1>2. ASSUME NEW u \in Unit, NEW l \in Lead \cup {None}, NEW r \in Res, NEW h \in Holds,
             CreateReservation(u, l, r, h)
      PROVE  HoldingInv'
  BY <1>2, <1>h DEF CreateReservation
<1>3. ASSUME NEW u \in Unit, NEW l \in Lead, NEW r \in Res, SyncOfflineReservation(u, l, r)
      PROVE  HoldingInv'
  BY <1>3, <1>h DEF SyncOfflineReservation
<1>4. ASSUME NEW p \in Proc, NEW u \in Unit, NEW l \in Lead, NEW r \in Res,
             CreatePublicReservation(p, u, l, r)
      PROVE  HoldingInv'
  <2>1. \A q \in Proc : proc'[q] = proc[q] \/ Known(q)'
    BY <1>4, ConcernsNobody DEF CreatePublicReservation, Idle
  <2> QED BY <1>4, <2>1, <1>h DEF CreatePublicReservation
<1>5. ASSUME NEW p \in Proc, CodeDelivered(p) PROVE HoldingInv'
  <2>1. ClaimsStay
    BY <1>5 DEF CodeDelivered, ClaimsStay, TypeOK, Reservation
  <2> QED BY <1>5, <2>1 DEF CodeDelivered
<1>6. ASSUME NEW p \in Proc, CodeFailed(p) PROVE HoldingInv'
  BY <1>6 DEF CodeFailed, Guarded, UnguardedOps
<1>7. ASSUME NEW p \in Proc, NEW r \in Res, NEW h \in Now, VerifyRead(p, r, h) PROVE HoldingInv'
  <2>1. \A q \in Proc : proc'[q] = proc[q] \/ Known(q)'
    BY <1>7, ConcernsNobody DEF VerifyRead, Idle
  <2> QED BY <1>7, <2>1 DEF VerifyRead
<1>8. ASSUME NEW p \in Proc, VerifyCommit(p) PROVE HoldingInv'
  <2>1. ClaimsStay
    BY <1>8 DEF VerifyCommit, ClaimsStay, TypeOK, Reservation
  <2> QED BY <1>8, <2>1 DEF VerifyCommit
<1>9. ASSUME NEW r \in Res, NEW h \in Now, RenewHold(r, h) PROVE HoldingInv'
  <2> DEFINE x == [res[r] EXCEPT !.status = "ACTIVE", !.hold = h, !.swept = FALSE,
                   !.code = IF res[r].verified THEN @ ELSE h]
  <2>1. res' = [res EXCEPT ![r] = x] /\ occ' = occ /\ proc' = proc /\ res[r].status # "NONE"
    BY <1>9 DEF RenewHold
  <2>2. x.status = "ACTIVE" /\ x.unit = res[r].unit
    BY DEF TypeOK, Reservation
  <2> HIDE DEF x
  <2>3. CASE res[r].status = "ACTIVE" /\ unit' = unit
    <3>1. ClaimsStay
      BY <2>1, <2>2, <2>3 DEF ClaimsStay, TypeOK
    <3> QED BY <2>1, <2>3, <3>1
  <2>4. CASE /\ ActiveOn(res[r].unit) \subseteq {r} /\ BlockingOn(res[r].unit) = {}
             /\ unit' = [unit EXCEPT ![res[r].unit] = "RESERVED"]
    <3>1. res[r].unit \in Unit
      BY <2>1 DEF HoldingInv, Placed
    <3>2. UnitUnlocked(res[r].unit)
      BY <1>9 DEF RenewHold
    <3> QED BY <2>1, <2>2, <2>4, <3>1, <3>2, UnitBooked
  <2> QED BY <1>9, <2>3, <2>4 DEF RenewHold
<1>10. ASSUME NEW r \in Res, PrepareLease(r) PROVE HoldingInv'
  <2>1. ClaimsStay
    BY <1>10 DEF PrepareLease, ClaimsStay, TypeOK, Reservation
  <2> QED BY <1>10, <2>1 DEF PrepareLease
<1>11. ASSUME NEW r \in Res, SignLease(r) PROVE HoldingInv'
  <2>1. ClaimsStay
    BY <1>11 DEF SignLease, ClaimsStay, TypeOK, Reservation
  <2> QED BY <1>11, <2>1 DEF SignLease
<1>12. ASSUME NEW p \in Proc, NEW r \in Res, NEW h \in Now, ExtendRead(p, r, h) PROVE HoldingInv'
  <2>1. \A q \in Proc : proc'[q] = proc[q] \/ Known(q)'
    BY <1>12, ConcernsNobody DEF ExtendRead, Idle
  <2> QED BY <1>12, <2>1 DEF ExtendRead
<1>13. ASSUME NEW p \in Proc, ExtendCommit(p) PROVE HoldingInv'
  <2>1. ClaimsStay
    BY <1>13 DEF ExtendCommit, ClaimsStay, TypeOK, Reservation
  <2> QED BY <1>13, <2>1 DEF ExtendCommit
<1>14. ASSUME NEW p \in Proc, NEW r \in Res, CancelRead(p, r) PROVE HoldingInv'
  BY <1>14 DEF CancelRead, Start, Guarded, UnguardedOps
<1>15. ASSUME NEW p \in Proc, CancelClaim(p) PROVE HoldingInv'
  BY <1>15 DEF CancelClaim, BookingInv, EndingsClaimed
<1>16. ASSUME NEW p \in Proc, NEW r \in Res, ExpireRead(p, r) PROVE HoldingInv'
  <2>1. /\ proc' = [proc EXCEPT ![p] = [Idle EXCEPT !.pc = "claim", !.r = r, !.u = res[r].unit,
                                                    !.st = "EXPIRED"]]
        /\ res' = res /\ res[r].status = "ACTIVE"
    BY <1>16 DEF ExpireRead
  <2>2. proc'[p].pc = "claim" /\ proc'[p].r = r /\ proc'[p].u = res[r].unit
    BY <2>1 DEF TypeOK, Idle
  <2>3. Known(p)'
    BY <2>1, <2>2 DEF Known, Minding, Entering, Closing
  <2>4. \A q \in Proc : proc'[q] = proc[q] \/ Known(q)'
    BY <2>1, <2>3 DEF TypeOK
  <2> QED BY <1>16, <2>4 DEF ExpireRead
<1>17. ASSUME NEW p \in Proc, ExpireClaim(p) PROVE HoldingInv'
  <2>1. /\ proc[p].pc = "claim" /\ proc' = [proc EXCEPT ![p].pc = "claimed"] /\ res' = res
    BY <1>17 DEF ExpireClaim
  <2>2. proc'[p].pc = "claimed" /\ proc'[p].r = proc[p].r /\ proc'[p].u = proc[p].u
    BY <2>1 DEF TypeOK, Request
  <2>3. Known(p)'
    BY <2>1, <2>2 DEF Known, Minding, Entering, Closing, HoldingInv
  <2>4. \A q \in Proc : proc'[q] = proc[q] \/ Known(q)'
    BY <2>1, <2>3 DEF TypeOK
  <2> QED BY <1>17, <2>4 DEF ExpireClaim
<1>18. ASSUME NEW p \in Proc, CountBlockers(p) PROVE HoldingInv'
  <2> PICK r : r = proc[p].r
    OBVIOUS
  <2> PICK u : u = proc[p].u
    OBVIOUS
  <2>1. /\ proc[p].pc = "claimed" /\ res' = res
        /\ proc' = [proc EXCEPT ![p].pc = "counted",
                                ![p].flag = ActiveOn(u) \subseteq {r} /\ BlockingOn(u) = {}]
    BY <1>18, Zenon DEF CountBlockers
  <2>2. r \in Res /\ res[r].status = "ACTIVE" /\ res[r].unit = u
    BY <2>1 DEF BookingInv, EndingsClaimed, Ending, HoldingInv, Known, Minding
  <2>3. u \in Unit /\ r \in ActiveOn(u)
    BY <2>2 DEF HoldingInv, Placed, ActiveOn
  <2>4. ActiveOn(u) \subseteq {r} /\ BlockingOn(u) = {}
    BY <2>3 DEF HoldingInv, UnitOK
  <2>5. proc' = [proc EXCEPT ![p].pc = "counted", ![p].flag = TRUE]
    BY <2>1, <2>4, Zenon
  <2>6. proc'[p].pc = "counted" /\ proc'[p].r = r /\ proc'[p].u = u /\ proc'[p].flag
    BY <2>5 DEF TypeOK, Request
  <2>7. Known(p)'
    BY <2>1, <2>2, <2>6 DEF Known, Minding, Entering, Closing
  <2>8. \A q \in Proc : proc'[q] = proc[q] \/ Known(q)'
    BY <2>5, <2>7 DEF TypeOK
  <2> QED BY <1>18, <2>8 DEF CountBlockers
<1>19. ASSUME NEW p \in Proc, EndReservation(p) PROVE HoldingInv'
  <2> PICK r : r = proc[p].r
    OBVIOUS
  <2> DEFINE x == [res[r] EXCEPT !.status = proc[p].st, !.swept = FALSE,
                   !.code = IF proc[p].st = "EXPIRED" THEN 0 ELSE @]
  <2>1. /\ res' = [res EXCEPT ![r] = x] /\ proc[p].pc = "counted" /\ Done(p) /\ occ' = occ
        /\ proc[p].flag => UnitUnlocked(proc[p].u)
        /\ unit' = IF proc[p].flag /\ unit[proc[p].u] = "RESERVED"
                   THEN [unit EXCEPT ![proc[p].u] = "AVAILABLE"] ELSE unit
    BY <1>19 DEF EndReservation
  <2>2. /\ r \in Res /\ res[r].status = "ACTIVE" /\ proc[p].st = "EXPIRED"
        /\ res[r].unit = proc[p].u /\ proc[p].flag
    BY <2>1 DEF BookingInv, EndingsClaimed, Ending, HoldingInv, Known, Minding
  <2>3. x.status = "EXPIRED" /\ x.unit = res[r].unit
    BY <2>2 DEF TypeOK, Reservation
  <2>4. unit[res[r].unit] = "RESERVED"
    BY <2>2, BackedUnits DEF HoldBacked
  <2> HIDE DEF x
  <2> QED BY <2>1, <2>2, <2>3, <2>4, UnitReleased
<1>20. ASSUME NEW p \in Proc, NEW r \in Res, SweepRead(p, r) PROVE HoldingInv'
  <2>1. /\ proc' = [proc EXCEPT ![p] = [Idle EXCEPT !.pc = "sweep", !.r = r, !.u = res[r].unit]]
        /\ res' = res /\ res[r].status = "ACTIVE"
    BY <1>20 DEF SweepRead, Expirable
  <2>2. proc'[p].pc = "sweep" /\ proc'[p].r = r /\ proc'[p].u = res[r].unit
    BY <2>1 DEF TypeOK, Idle
  <2>3. Known(p)'
    BY <2>1, <2>2 DEF Known, Minding, Entering, Closing
  <2>4. \A q \in Proc : proc'[q] = proc[q] \/ Known(q)'
    BY <2>1, <2>3 DEF TypeOK
  <2> QED BY <1>20, <2>4 DEF SweepRead
<1>21. ASSUME NEW p \in Proc, SweepRelease(p) PROVE HoldingInv'
  <2> PICK r : r = proc[p].r
    OBVIOUS
  <2> DEFINE x == [res[r] EXCEPT !.status = "CANCELLED", !.swept = TRUE, !.code = 0]
  <2>1. /\ res' = [res EXCEPT ![r] = x] /\ proc[p].pc = "sweep" /\ Done(p) /\ occ' = occ
        /\ UnitUnlocked(proc[p].u) /\ res[r].status = "ACTIVE"
    BY <1>21 DEF SweepRelease, Expirable
  <2>2. PICK y : unit' = IF unit[proc[p].u] = "RESERVED"
                         THEN [unit EXCEPT ![proc[p].u] = y] ELSE unit
    BY <1>21 DEF SweepRelease
  <2>3. r \in Res /\ res[r].unit = proc[p].u
    BY <2>1 DEF HoldingInv, Known, Minding
  <2>4. x.status = "CANCELLED" /\ x.unit = res[r].unit
    BY <2>3 DEF TypeOK, Reservation
  <2>5. unit[res[r].unit] = "RESERVED"
    BY <2>1, <2>3, BackedUnits DEF HoldBacked
  <2> HIDE DEF x
  <2> QED BY <2>1, <2>2, <2>3, <2>4, <2>5, UnitReleased
<1>22. ASSUME NEW r \in Res, NEW v \in Unit, PatchReservation(r, v) PROVE HoldingInv'
  BY <1>22 DEF PatchReservation, Guarded, UnguardedOps
<1>23. ASSUME NEW r \in Res, DeleteReservation(r) PROVE HoldingInv'
  BY <1>23 DEF DeleteReservation, Guarded, UnguardedOps
<1>24. ASSUME NEW p \in Proc, NEW u \in Unit, OrphanRead(p, u) PROVE HoldingInv'
  BY <1>24 DEF OrphanRead, Start, Guarded, UnguardedOps
<1>25. ASSUME NEW p \in Proc, OrphanRelease(p) PROVE HoldingInv'
  BY <1>25 DEF OrphanRelease, HoldingInv, Known
<1>26. ASSUME NEW f \in Floor, SetFloorOperational(f) PROVE HoldingInv'
  BY <1>26 DEF SetFloorOperational
<1> QED
  BY <1>1, <1>2, <1>3, <1>4, <1>5, <1>6, <1>7, <1>8, <1>9, <1>10, <1>11, <1>12, <1>13, <1>14,
     <1>15, <1>16, <1>17, <1>18, <1>19, <1>20, <1>21, <1>22, <1>23, <1>24, <1>25, <1>26
  DEF Bookings

(* ... and the operations on tenancies, maintenance and units mark it for  *)
(* the tenant they let in, and never while it is somebody else's.          *)
LEMMA TenanciesKeepHolding ==
  ASSUME Guarded, Premises, Tenancies
  PROVE  HoldingInv'
<1> USE ClaimsKept, SameClaims, SameConcerns, ConcernEnds DEF Premises
<1>1. ASSUME NEW p \in Proc, NEW u \in Unit, NEW r \in Res \cup {NoRow}, NEW simulation \in BOOLEAN,
             MoveInCheck(p, u, r, simulation)
      PROVE  HoldingInv'
  <2>1. /\ proc' = [proc EXCEPT ![p] = [Idle EXCEPT !.pc = "movein", !.r = r, !.u = u,
                                                    !.flag = simulation]]
        /\ res' = res /\ ActiveOn(u) \subseteq {r}
        /\ r # NoRow => res[r].status = "ACTIVE" /\ res[r].unit = u
    BY <1>1 DEF MoveInCheck
  <2>2. proc'[p].pc = "movein" /\ proc'[p].r = r /\ proc'[p].u = u
    BY <2>1 DEF TypeOK, Idle
  <2>3. NoRow \notin Res
    BY DEF NoRow, Res
  <2>4. ActiveOn(u)' = {r} \ {NoRow}
    BY <2>1, <2>3 DEF ActiveOn
  <2>5. Known(p)'
    BY <2>2, <2>4 DEF Known, Minding, Entering, Closing, ActiveOn
  <2>6. \A q \in Proc : proc'[q] = proc[q] \/ Known(q)'
    BY <2>1, <2>5 DEF TypeOK
  <2> QED BY <1>1, <2>6 DEF MoveInCheck
<1>2. ASSUME NEW p \in Proc, NEW t \in Ten, NEW o \in Occ, MoveInCommit(p, t, o)
      PROVE  HoldingInv'
  <2> PICK r : r = proc[p].r
    OBVIOUS
  <2> PICK u : u = proc[p].u
    OBVIOUS
  <2> DEFINE y == [status |-> "PENDING", unit |-> u, ten |-> t]
  <2>1. /\ ten[t].status = "NONE" /\ occ[o].status = "NONE" /\ Done(p) /\ Entering(p)
        /\ occ' = [occ EXCEPT ![o] = y]
        /\ unit' = [unit EXCEPT ![u] = "RESERVED"]
        /\ \A q \in Res : res'[q] = IF q = r THEN [res[q] EXCEPT !.status = "CONVERTED", !.ten = t]
                                    ELSE res[q]
    BY <1>2 DEF MoveInCommit, NextRow, Entering
  <2>2. u \in Unit /\ ActiveOn(u) = {r} \ {NoRow} /\ BlockingOn(u) = {}
    BY <2>1 DEF HoldingInv, Known, MoveInsGuarded
  <2>3. r \in Res => r \in ActiveOn(u)
    BY <2>2 DEF NoRow, Res
  <2>4. \A q \in ActiveOn(u) : res'[q].status = "CONVERTED" /\ res'[q].unit = u
    <3>1. ASSUME NEW q \in ActiveOn(u) PROVE res'[q].status = "CONVERTED" /\ res'[q].unit = u
      <4>1. q \in Res /\ res[q].unit = u /\ q = r
        BY <2>2, <3>1 DEF ActiveOn
      <4>2. res'[q] = [res[q] EXCEPT !.status = "CONVERTED", !.ten = t] /\ res[q] \in Reservation
        BY <2>1, <4>1 DEF TypeOK
      <4> QED BY <4>1, <4>2 DEF Reservation
    <3> QED BY <3>1
  <2>5. \A q \in Res : q \notin ActiveOn(u) => res'[q] = res[q]
    BY <2>1, <2>3
  <2>6. \A q \in Proc : (proc'[q] = proc[q] /\ ~ Entering(q)) \/ Known(q)'
    <3>1. \A q \in Proc : q # p => proc'[q] = proc[q] /\ ~ Entering(q)
      BY <2>1 DEF Done, TypeOK, MoveInsGuarded
    <3>2. proc'[p].pc = "idle"
      BY <2>1 DEF Done, TypeOK, Idle
    <3> QED BY <3>1, <3>2, Unconcerned
  <2>7. y.unit = u /\ y.ten = t /\ y.status = "PENDING"
    OBVIOUS
  <2> HIDE DEF y
  <2> QED BY <2>1, <2>2, <2>4, <2>5, <2>6, <2>7, UnitEntered
<1>3. ASSUME NEW p \in Proc, NEW t \in Ten, DispatchRead(p, t) PROVE HoldingInv'
  <2>1. \A q \in Proc : proc'[q] = proc[q] \/ Known(q)'
    BY <1>3, ConcernsNobody DEF DispatchRead, Idle
  <2> QED BY <1>3, <2>1 DEF DispatchRead
<1>4. ASSUME NEW p \in Proc, DispatchAttach(p) PROVE HoldingInv'
  BY <1>4 DEF DispatchAttach
<1>5. ASSUME NEW t \in Ten, CompleteEnvelope(t) PROVE HoldingInv'
  BY <1>5 DEF CompleteEnvelope
<1>6. ASSUME NEW r \in Res, NEW t \in Ten, NEW o \in Occ, ConfirmMoveIn(r, t, o)
      PROVE  HoldingInv'
  <2> PICK u : u = res[r].unit
    OBVIOUS
  <2> DEFINE y == [status |-> "ACTIVE", unit |-> u, ten |-> t]
  <2>1. /\ ten[t].status = "NONE" /\ occ[o].status = "NONE"
        /\ occ' = [occ EXCEPT ![o] = y]
        /\ unit' = [unit EXCEPT ![u] = "OCCUPIED"]
        /\ res' = [res EXCEPT ![r].status = "CONVERTED", ![r].ten = t]
        /\ res[r].status = "ACTIVE"
        /\ BlockingOn(u) = {} /\ ActiveOn(u) \subseteq {r}
        /\ proc' = proc /\ FacilityUnlocked
    BY <1>6 DEF ConfirmMoveIn, NextRow
  <2>2. u \in Unit
    BY <2>1 DEF HoldingInv, Placed
  <2>3. /\ \A q \in ActiveOn(u) : res'[q].status = "CONVERTED" /\ res'[q].unit = u
        /\ \A q \in Res : q \notin ActiveOn(u) => res'[q] = res[q]
    BY <2>1 DEF ActiveOn, TypeOK, Reservation
  <2>4. \A q \in Proc : proc'[q] = proc[q] /\ ~ Entering(q)
    BY <2>1 DEF FacilityUnlocked, Entering
  <2>5. y.unit = u /\ y.ten = t /\ y.status = "ACTIVE"
    OBVIOUS
  <2> HIDE DEF y
  <2> QED BY <2>1, <2>2, <2>3, <2>4, <2>5, UnitEntered
<1>7. ASSUME NEW p \in Proc, NEW t \in Ten, NEW o \in Occ, LegacyRead(p, t, o) PROVE HoldingInv'
  <2>1. \A q \in Proc : proc'[q] = proc[q] \/ Known(q)'
    BY <1>7, ConcernsNobody DEF LegacyRead, Idle
  <2> QED BY <1>7, <2>1 DEF LegacyRead
<1>8. ASSUME NEW p \in Proc, NEW o \in Occ, LegacyCommit(p, o) PROVE HoldingInv'
  <2> PICK u : u = occ[o].unit
    OBVIOUS
  <2>1. /\ BlockingOn(u) = {o} /\ ActiveOn(u) = {} /\ res' = res /\ Done(p)
        /\ occ' = [occ EXCEPT ![o].status = "ACTIVE"]
        /\ unit' = [unit EXCEPT ![u] = "OCCUPIED"]
        /\ FacilityUnlocked
    BY <1>8 DEF LegacyCommit
  <2>2. occ[o].status \in Blocking
    BY <2>1 DEF BlockingOn
  <2>3. u \in Unit
    BY <2>2 DEF HoldingInv, Placed, Blocking
  <2>4. /\ occ'[o].status = "ACTIVE" /\ occ'[o].unit = u /\ occ'[o].ten = occ[o].ten
        /\ \A n \in Occ : n # o => occ'[n] = occ[n]
    BY <2>1 DEF TypeOK, Occupancy
  <2>5. /\ unit'[u] = "OCCUPIED" /\ \A v \in Unit : v # u => unit'[v] = unit[v]
    BY <2>1, <2>3 DEF TypeOK
  <2>6. \A v \in Unit : ActiveOn(v)' = ActiveOn(v) /\ BlockingOn(v)' = BlockingOn(v)
    BY <2>1, <2>2, <2>4 DEF ActiveOn, BlockingOn, Blocking
  <2>7. UnitOK(u)'
    BY <2>1, <2>3, <2>4, <2>5, <2>6, UnitLet
  <2>8. ASSUME NEW v \in Unit, v # u PROVE UnitOK(v)'
    <3>1. \A n \in BlockingOn(v) : occ'[n] = occ[n]
      BY <2>4, <2>8 DEF BlockingOn
    <3> QED BY <2>5, <2>6, <2>8, <3>1, UnitFewer DEF HoldingInv
  <2>9. RowsStay /\ RowsPlaced /\ OneRow'
    BY <2>1, <2>2, <2>4 DEF RowsStay, RowsPlaced, OneRow, HoldingInv, Blocking
  <2>10. \A q \in Proc : Undisturbed(q) \/ Known(q)'
    BY <2>1 DEF Undisturbed, FacilityUnlocked, Entering
  <2> QED BY <2>7, <2>8, <2>9, <2>10, HoldingKept
<1>9. ASSUME NEW p \in Proc, NEW t \in Ten, NEW v \in Unit, NEW o \in Occ, TransferRead(p, t, v, o)
      PROVE  HoldingInv'
  <2>1. /\ proc' = [proc EXCEPT ![p] = [Idle EXCEPT !.pc = "transfer", !.t = t, !.u = v, !.os = {o}]]
        /\ "transfer" \in Ops
    BY <1>9 DEF TransferRead, Start
  <2>2. proc'[p].pc = "transfer" /\ proc'[p].u = v
    BY <2>1 DEF TypeOK, Idle
  <2>3. Known(p)'
    BY <2>1, <2>2 DEF Known, Minding, Entering, Closing
  <2>4. \A q \in Proc : proc'[q] = proc[q] \/ Known(q)'
    BY <2>1, <2>3 DEF TypeOK
  <2> QED BY <1>9, <2>4 DEF TransferRead
<1>10. ASSUME NEW p \in Proc, NEW o \in Occ, NEW n \in Occ, TransferCommit(p, o, n)
       PROVE  HoldingInv'
  <2> PICK u : u = occ[o].unit
    OBVIOUS
  <2> PICK v : v = proc[p].u
    OBVIOUS
  <2> PICK t : t = proc[p].t
    OBVIOUS
  <2>1. /\ proc[p].pc = "transfer" /\ Done(p) /\ res' = res /\ FacilityUnlocked
        /\ unit[v] = "AVAILABLE" /\ occ[o].status = "ACTIVE" /\ occ[n].status = "NONE"
        /\ occ' = [occ EXCEPT ![o].status = "MOVED_OUT",
                              ![n] = [status |-> "ACTIVE", unit |-> v, ten |-> t]]
        /\ unit' = [unit EXCEPT ![u] = "AVAILABLE", ![v] = "OCCUPIED"]
    BY <1>10 DEF TransferCommit, NextRow
  <2>2. v \in Unit /\ "transfer" \in Ops
    BY <2>1 DEF HoldingInv, Known
  <2>3. u \in Unit /\ o \in BlockingOn(u)
    BY <2>1 DEF HoldingInv, Placed, BlockingOn, Blocking
  <2>4. BlockingOn(u) = {o} /\ unit[u] = "OCCUPIED" /\ ActiveOn(u) = {}
    BY <2>1, <2>3 DEF HoldingInv, UnitOK
  <2>5. ActiveOn(v) = {} /\ BlockingOn(v) = {} /\ u # v
    BY <2>1, <2>2, <2>4, Unclaimed DEF HoldingInv
  <2>6. /\ occ'[o].status = "MOVED_OUT" /\ occ'[o].unit = u /\ occ'[o].ten = occ[o].ten
        /\ occ'[n].status = "ACTIVE" /\ occ'[n].unit = v
        /\ \A m \in Occ : m # o /\ m # n => occ'[m] = occ[m]
    BY <2>1 DEF TypeOK, Occupancy
  <2>7. /\ unit'[v] = "OCCUPIED" /\ \A w \in Unit : w # u /\ w # v => unit'[w] = unit[w]
    BY <2>1, <2>2 DEF TypeOK
  <2>8. \A w : ActiveOn(w)' = ActiveOn(w)
    BY <2>1 DEF ActiveOn
  <2>9. BlockingOn(u)' = {}
    <3>1. ASSUME NEW m \in Occ, occ'[m].status \in Blocking, occ'[m].unit = u PROVE FALSE
      <4>1. m # o /\ m # n
        BY <2>5, <2>6, <3>1 DEF Blocking
      <4>2. m \in BlockingOn(u)
        BY <2>6, <3>1, <4>1 DEF BlockingOn
      <4> QED BY <2>4, <4>1, <4>2
    <3> QED BY <3>1 DEF BlockingOn
  <2>10. BlockingOn(v)' = {n}
    <3>1. n \in BlockingOn(v)'
      BY <2>6 DEF BlockingOn, Blocking
    <3>2. ASSUME NEW m \in Occ, occ'[m].status \in Blocking, occ'[m].unit = v, m # n PROVE FALSE
      <4>1. m # o
        BY <2>5, <2>6, <3>2 DEF Blocking
      <4>2. m \in BlockingOn(v)
        BY <2>6, <3>2, <4>1 DEF BlockingOn
      <4> QED BY <2>5, <4>2
    <3> QED BY <3>1, <3>2 DEF BlockingOn
  <2>11. UnitOK(u)'
    BY <2>4, <2>8, <2>9, UnitCleared
  <2>12. UnitOK(v)'
    BY <2>5, <2>6, <2>7, <2>8, <2>10, UnitLet
  <2>13. ASSUME NEW w \in Unit, w # u, w # v PROVE UnitOK(w)'
    <3>1. \A m \in BlockingOn(w)' : m \in BlockingOn(w) /\ occ'[m] = occ[m]
      BY <2>6, <2>13 DEF BlockingOn, Blocking
    <3> QED BY <2>7, <2>8, <2>13, <3>1, UnitFewer DEF HoldingInv
  <2>14. RowsStay /\ RowsPlaced /\ OneRow'
    BY <2>1, <2>2, <2>6 DEF RowsStay, RowsPlaced, OneRow
  <2>15. \A q \in Proc : Undisturbed(q) \/ Known(q)'
    BY <2>1 DEF Undisturbed, FacilityUnlocked, Entering
  <2> QED BY <2>11, <2>12, <2>13, <2>14, <2>15, HoldingKept
<1>11. ASSUME NEW p \in Proc, NEW t \in Ten, NoticeRead(p, t) PROVE HoldingInv'
  <2>1. \A q \in Proc : proc'[q] = proc[q] \/ Known(q)'
    BY <1>11, ConcernsNobody DEF NoticeRead, Idle
  <2> QED BY <1>11, <2>1 DEF NoticeRead
<1>12. ASSUME NEW p \in Proc, NoticeCommit(p) PROVE HoldingInv'
  <2>1. /\ \A o \in Occ : occ'[o] = IF o \in OccupanciesOf(proc[p].t, {"ACTIVE"})
                                    THEN [occ[o] EXCEPT !.status = "NOTICE_GIVEN"] ELSE occ[o]
        /\ Done(p) /\ res' = res /\ unit' = unit
    BY <1>12 DEF NoticeCommit
  <2>2. \A o \in Occ : \/ occ'[o] = occ[o]
                       \/ /\ occ[o].status = "ACTIVE" /\ occ'[o].status = "NOTICE_GIVEN"
                          /\ occ'[o].ten = occ[o].ten /\ occ'[o].unit = occ[o].unit
    BY <2>1, RowTypes DEF Occupancy, OccupanciesOf
  <2>3. \A u \in Unit : ActiveOn(u)' = ActiveOn(u)
    BY <2>1 DEF ActiveOn
  <2>4. ASSUME NEW u \in Unit PROVE UnitOK(u)'
    <3>1. \A o \in BlockingOn(u)' :
             o \in BlockingOn(u) /\ ((occ'[o].status = "PENDING") <=> (occ[o].status = "PENDING"))
      BY <2>2 DEF BlockingOn, Blocking
    <3> QED BY <2>1, <2>3, <3>1, UnitFewer DEF HoldingInv
  <2>5. RowsStay /\ RowsPlaced /\ OneRow'
    BY <2>1, <2>2 DEF RowsStay, RowsPlaced, OneRow, HoldingInv
  <2>6. \A q \in Proc : Undisturbed(q) \/ Known(q)'
    <3>1. \A q \in Proc : proc'[q] = proc[q] \/ Known(q)'
      BY <2>1
    <3> QED BY <2>1, <3>1 DEF Undisturbed, ActiveOn
  <2> QED BY <2>4, <2>5, <2>6, HoldingKept
<1>13. ASSUME NEW p \in Proc, NEW t \in Ten, MoveOutRead(p, t) PROVE HoldingInv'
  <2>1. PICK os : /\ proc' = [proc EXCEPT ![p] = [Idle EXCEPT !.pc = "moveout", !.t = t, !.os = os]]
                  /\ "moveout" \in Ops
    BY <1>13 DEF MoveOutRead, Start
  <2>2. proc'[p].pc = "moveout"
    BY <2>1 DEF TypeOK, Idle
  <2>3. Known(p)'
    BY <2>1, <2>2 DEF Known, Minding, Entering, Closing
  <2>4. \A q \in Proc : proc'[q] = proc[q] \/ Known(q)'
    BY <2>1, <2>3 DEF TypeOK
  <2> QED BY <1>13, <2>4 DEF MoveOutRead
<1>14. ASSUME NEW p \in Proc, MoveOutClaim(p) PROVE HoldingInv'
  <2> PICK claimed : claimed = OccupanciesOf(proc[p].t, Living)
    OBVIOUS
  <2> PICK read : read = proc[p].os
    OBVIOUS
  <2>1. proc[p].pc = "moveout" /\ occ' = occ
    BY <1>14 DEF MoveOutClaim
  <2>2. PICK left : proc' = [proc EXCEPT ![p].pc = "closing", ![p].os = claimed,
                               ![p].plan = [u \in Unit |-> IF \E o \in read : occ[o].unit = u
                                                           THEN left[u] ELSE "NONE"]]
    <3> DEFINE left == [u \in Unit |-> IF BlockingOn(u) \ claimed # {} THEN "OCCUPIED"
                                       ELSE IF InMaintenance(u) THEN "SERVICE"
                                       ELSE IF ActiveOn(u) # {} THEN "RESERVED" ELSE "AVAILABLE"]
    <3>1. proc' = [proc EXCEPT ![p].pc = "closing", ![p].os = claimed,
                               ![p].plan = [u \in Unit |-> IF \E o \in read : occ[o].unit = u
                                                           THEN left[u] ELSE "NONE"]]
      BY <1>14 DEF MoveOutClaim
    <3> HIDE DEF left
    <3> QED BY <3>1
  <2>3. /\ proc'[p].pc = "closing" /\ proc'[p].os = claimed
        /\ proc'[p].plan = [u \in Unit |-> IF \E o \in read : occ[o].unit = u
                                           THEN left[u] ELSE "NONE"]
    <3> PICK plan : plan = [u \in Unit |-> IF \E o \in read : occ[o].unit = u THEN left[u] ELSE "NONE"]
      OBVIOUS
    <3>1. proc' = [proc EXCEPT ![p] = [proc[p] EXCEPT !.pc = "closing", !.os = claimed, !.plan = plan]]
      BY <2>2
    <3>2. proc'[p] = [proc[p] EXCEPT !.pc = "closing", !.os = claimed, !.plan = plan]
      BY <3>1 DEF TypeOK
    <3>3. proc[p] \in Request
      BY DEF TypeOK
    <3> QED BY <3>2, <3>3 DEF Request
  <2>4. "moveout" \in Ops
    BY <2>1 DEF HoldingInv, Known
  <2>5. read = claimed
    BY <1>14, ClaimedAsRead
  <2>6. ASSUME NEW u \in Unit, proc'[p].plan[u] # "NONE" PROVE \E o \in claimed : occ[o].unit = u
    BY <2>3, <2>5, <2>6
  <2>7. Known(p)'
    BY <2>1, <2>3, <2>4, <2>6 DEF Known, Minding, Entering, Closing
  <2>8. \A q \in Proc : proc'[q] = proc[q] \/ Known(q)'
    BY <2>2, <2>7 DEF TypeOK
  <2> QED BY <1>14, <2>8 DEF MoveOutClaim
<1>15. ASSUME NEW p \in Proc, MoveOutCommit(p) PROVE HoldingInv'
  <2> PICK os : os = proc[p].os
    OBVIOUS
  <2> PICK plan : plan = proc[p].plan
    OBVIOUS
  <2>1. /\ proc[p].pc = "closing" /\ Done(p) /\ res' = res
        /\ \A o \in Occ : occ'[o] = IF o \in os THEN [occ[o] EXCEPT !.status = "MOVED_OUT"] ELSE occ[o]
        /\ \A u \in Unit : unit'[u] = IF plan[u] = "NONE" THEN unit[u] ELSE plan[u]
    BY <1>15 DEF MoveOutCommit
  <2>2. \A o \in os : o \in Occ /\ occ[o].status \in Living
    BY <2>1 DEF TenancyInv, LeavingKnown, LeaverKnown, Closing, TypeOK, Request
  <2>3. \A o \in Occ : \/ occ'[o] = occ[o] /\ o \notin os
                       \/ /\ o \in os /\ occ'[o].status = "MOVED_OUT"
                          /\ occ'[o].ten = occ[o].ten /\ occ'[o].unit = occ[o].unit
    BY <2>1, RowTypes DEF Occupancy
  <2>4. \A u : ActiveOn(u)' = ActiveOn(u)
    BY <2>1 DEF ActiveOn
  <2>5. \A u : \A o \in BlockingOn(u)' : o \in BlockingOn(u) /\ o \notin os /\ occ'[o] = occ[o]
    BY <2>3 DEF BlockingOn, Blocking
  <2>6. ASSUME NEW u \in Unit PROVE UnitOK(u)'
    <3>1. CASE plan[u] = "NONE"
      BY <2>1, <2>4, <2>5, <3>1, UnitFewer DEF HoldingInv
    <3>2. CASE plan[u] # "NONE"
      <4>1. PICK o \in os : occ[o].unit = u
        BY <2>1, <3>2 DEF HoldingInv, Known, Closing
      <4>2. o \in BlockingOn(u)
        BY <2>2, <4>1 DEF BlockingOn, Blocking, Living
      <4>3. BlockingOn(u) = {o} /\ ActiveOn(u) = {}
        BY <4>2 DEF HoldingInv, UnitOK
      <4>4. BlockingOn(u)' = {} /\ ActiveOn(u)' = {}
        BY <2>4, <2>5, <4>1, <4>3
      <4> QED BY <4>4, UnitCleared
    <3> QED BY <3>1, <3>2
  <2>7. RowsStay /\ RowsPlaced /\ OneRow'
    <3>1. \A o \in os : occ[o].status # "NONE"
      BY <2>2 DEF Living
    <3> QED BY <2>1, <2>3, <3>1 DEF RowsStay, RowsPlaced, OneRow, HoldingInv
  <2>8. \A q \in Proc : Undisturbed(q) \/ Known(q)'
    <3>1. \A q \in Proc : proc'[q] = proc[q] \/ Known(q)'
      BY <2>1
    <3> QED BY <2>1, <3>1 DEF Undisturbed, ActiveOn
  <2> QED BY <2>6, <2>7, <2>8, HoldingKept
<1>16. ASSUME NEW u \in Unit, NEW m \in Maint, MaintenanceClaim(u, m) PROVE HoldingInv'
  <2>1. /\ unit[u] = "AVAILABLE" /\ unit' = [unit EXCEPT ![u] = "SERVICE"]
        /\ res' = res /\ occ' = occ /\ proc' = proc
    BY <1>16 DEF MaintenanceClaim
  <2>2. \A v \in Unit : unit'[v] = unit[v] \/ (ActiveOn(v) = {} /\ BlockingOn(v) = {})
    BY <2>1, Unclaimed DEF HoldingInv, TypeOK
  <2> QED BY <2>1, <2>2
<1>17. ASSUME NEW p \in Proc, NEW u \in Unit, MaintenanceRead(p, u) PROVE HoldingInv'
  <2>1. \A q \in Proc : proc'[q] = proc[q] \/ Known(q)'
    BY <1>17, ConcernsNobody DEF MaintenanceRead, Idle
  <2> QED BY <1>17, <2>1 DEF MaintenanceRead
<1>18. ASSUME NEW p \in Proc, NEW m \in Maint, MaintenanceOpen(p, m) PROVE HoldingInv'
  BY <1>18 DEF MaintenanceOpen
<1>19. ASSUME NEW u \in Unit, NEW m \in Maint, NEW status \in {"OPEN", "ENDED"},
              MaintenanceUpdate(u, m, status)
       PROVE  HoldingInv'
  <2>1. \A v \in Unit : unit'[v] = unit[v] \/ (ActiveOn(v) = {} /\ BlockingOn(v) = {})
    BY <1>19 DEF MaintenanceUpdate, TypeOK
  <2> QED BY <1>19, <2>1 DEF MaintenanceUpdate
<1>20. ASSUME NEW u \in Unit, NEW status \in {"AVAILABLE", "SERVICE", "UNAVAILABLE"},
              EditUnit(u, status)
       PROVE  HoldingInv'
  <2>1. \A v \in Unit : unit'[v] = unit[v] \/ (ActiveOn(v) = {} /\ BlockingOn(v) = {})
    BY <1>20 DEF EditUnit, TypeOK
  <2> QED BY <1>20, <2>1 DEF EditUnit
<1>21. ASSUME NEW u \in Unit, RetireUnit(u) PROVE HoldingInv'
  BY <1>21 DEF RetireUnit, Guarded, UnguardedOps
<1> QED
  BY <1>1, <1>2, <1>3, <1>4, <1>5, <1>6, <1>7, <1>8, <1>9, <1>10, <1>11, <1>12, <1>13, <1>14,
     <1>15, <1>16, <1>17, <1>18, <1>19, <1>20, <1>21
  DEF Tenancies

(* So the marks are right throughout.                                      *)
LEMMA HoldingInvariant ==
  ASSUME Guarded
  PROVE  Spec => []HoldingInv
<1>1. Init => HoldingInv
  BY DEF Init, Idle, NoReservation, NoOccupancy, HoldingInv, UnitOK, ActiveOn, BlockingOn, Blocking,
         Placed, OneRow, Known, Minding, Entering, Closing
<1>2. Premises /\ [Next]_vars => HoldingInv'
  <2> SUFFICES ASSUME Premises, [Next]_vars PROVE HoldingInv'
    OBVIOUS
  <2> USE ClaimsKept, SameClaims, SameConcerns, ConcernEnds DEF Premises
  <2>1. ASSUME NEW p \in Proc, Rollback(p) PROVE HoldingInv'
    BY <2>1 DEF Rollback
  <2>2. CASE Tick
    BY <2>2 DEF Tick
  <2>3. CASE UNCHANGED vars
    BY <2>3 DEF vars
  <2> QED BY <2>1, <2>2, <2>3, BookingsKeepHolding, TenanciesKeepHolding DEF Next
<1>3. NothingOverwrites
  BY DEF Guarded, UnguardedOps, NothingOverwrites
<1> QED BY <1>1, <1>2, <1>3, Typing, BookingInvariant, TenancyInvariant, MoveInsHold, PTL
    DEF Spec, Premises

-----------------------------------------------------------------------------
(* The other way round: what is marked is claimed.  A move-out between its *)
(* claim and its writes has a new mark for the unit of every occupancy it  *)
(* closes, and none that would promise the unit to anybody.                *)
Marks == {"RESERVED", "OCCUPIED"}
Claimed(u) == ActiveOn(u) # {} \/ BlockingOn(u) # {}

PlanFrees(q) ==
    Closing(q) => /\ \A u \in Unit : proc[q].plan[u] \notin Marks
                  /\ \A o \in proc[q].os : proc[q].plan[occ[o].unit] # "NONE"
MarkInv == NoUnitLost /\ \A q \in Proc : PlanFrees(q)

(* A mark is taken away, or its claims stay, or there is a claim now.      *)
MarkStands(u) ==
    \/ unit'[u] \notin Marks
    \/ unit'[u] = unit[u] /\ ActiveOn(u) \subseteq ActiveOn(u)' /\ BlockingOn(u) \subseteq BlockingOn(u)'
    \/ Claimed(u)'
OccupanciesPlaced == \A o \in Occ : occ[o].status # "NONE" => occ'[o].unit = occ[o].unit

(* A step of that kind, in which no move-out makes its plan, loses no unit. *)
LEMMA MarksKept ==
  ASSUME Premises, MarkInv, OccupanciesPlaced,
         \A q \in Proc : proc'[q] = proc[q] \/ PlanFrees(q)',
         \A u \in Unit : MarkStands(u)
  PROVE  MarkInv'
<1>1. NoUnitLost'
  <2>1. ASSUME NEW u \in Unit, unit'[u] \in Marks PROVE Claimed(u)'
    <3>1. CASE Claimed(u)'
      BY <3>1
    <3>2. CASE /\ unit'[u] = unit[u] /\ ActiveOn(u) \subseteq ActiveOn(u)'
               /\ BlockingOn(u) \subseteq BlockingOn(u)'
      <4>1. ActiveOn(u) # {} \/ BlockingOn(u) # {}
        BY <2>1, <3>2 DEF MarkInv, NoUnitLost, Marks
      <4> QED BY <3>2, <4>1 DEF Claimed
    <3> QED BY <2>1, <3>1, <3>2 DEF MarkStands
  <2> QED BY <2>1 DEF NoUnitLost, Claimed, Marks
<1>2. ASSUME NEW q \in Proc, proc'[q] = proc[q] PROVE PlanFrees(q)'
  <2>1. ASSUME Closing(q), NEW o \in proc[q].os PROVE occ'[o].unit = occ[o].unit
    <3>1. o \in Occ /\ occ[o].status \in Living
      BY <2>1 DEF Premises, TenancyInv, LeavingKnown, LeaverKnown, TypeOK, Request
    <3> QED BY <3>1 DEF OccupanciesPlaced, Living
  <2> QED BY <1>2, <2>1 DEF MarkInv, PlanFrees, Closing
<1> QED BY <1>1, <1>2 DEF MarkInv

(* Most requests make no plan ...                                          *)
LEMMA PlansNothing ==
  ASSUME TypeOK, NEW p, NEW x, proc' = [proc EXCEPT ![p] = x], x.pc \notin {"closing"}
  PROVE  \A q \in Proc : proc'[q] = proc[q] \/ PlanFrees(q)'
BY DEF TypeOK, PlanFrees, Closing

(* ... and none does when it is done,                                      *)
LEMMA PlansDone ==
  ASSUME TypeOK, NEW p, Done(p)
  PROVE  \A q \in Proc : proc'[q] = proc[q] \/ PlanFrees(q)'
<1>1. Idle.pc # "closing"
  BY DEF Idle
<1> QED BY <1>1, PlansNothing DEF Done

(* or where no request moves.                                              *)
LEMMA SamePlans == proc' = proc => \A q \in Proc : proc'[q] = proc[q] \/ PlanFrees(q)'
OBVIOUS

(* Where the claims stay, a unit keeps its mark or is marked free.         *)
LEMMA MarksStay ==
  ASSUME Premises, MarkInv, ClaimsStay, \A q \in Proc : proc'[q] = proc[q] \/ PlanFrees(q)',
         \A u \in Unit : unit'[u] = unit[u] \/ unit'[u] \notin Marks
  PROVE  MarkInv'
<1>1. \A u \in Unit : ActiveOn(u)' = ActiveOn(u) /\ BlockingOn(u)' = BlockingOn(u)
  BY DEF ClaimsStay, ActiveOn, BlockingOn
<1>2. \A u \in Unit : MarkStands(u)
  BY <1>1 DEF MarkStands
<1>3. OccupanciesPlaced
  BY DEF ClaimsStay, OccupanciesPlaced
<1> QED BY <1>2, <1>3, MarksKept

(* A unit u is marked while its claims change; the other units keep theirs. *)
LEMMA MarkMoved ==
  ASSUME Premises, MarkInv, OccupanciesPlaced, NEW u,
         \A q \in Proc : proc'[q] = proc[q] \/ PlanFrees(q)',
         unit'[u] \notin Marks \/ Claimed(u)',
         \A v \in Unit : v # u => /\ unit'[v] = unit[v]
                                  /\ ActiveOn(v) \subseteq ActiveOn(v)'
                                  /\ BlockingOn(v) \subseteq BlockingOn(v)'
  PROVE  MarkInv'
<1>1. \A v \in Unit : MarkStands(v)
  BY DEF MarkStands
<1> QED BY <1>1, MarksKept

(* A booking r takes unit u.                                               *)
LEMMA MarkBooked ==
  ASSUME Premises, MarkInv, NEW u \in Unit, NEW r \in Res, NEW x, res' = [res EXCEPT ![r] = x],
         x.status = "ACTIVE", x.unit = u, res[r].status = "ACTIVE" => res[r].unit = u,
         unit' = [unit EXCEPT ![u] = "RESERVED"], occ' = occ,
         \A q \in Proc : proc'[q] = proc[q] \/ PlanFrees(q)'
  PROVE  MarkInv'
<1>1. res'[r] = x /\ \A q \in Res : q # r => res'[q] = res[q]
  BY DEF Premises, TypeOK
<1>2. \A v \in Unit : v # u => unit'[v] = unit[v]
  BY DEF Premises, TypeOK
<1>3. Claimed(u)'
  BY <1>1 DEF Claimed, ActiveOn
<1>4. \A v \in Unit : v # u => /\ ActiveOn(v) \subseteq ActiveOn(v)'
                               /\ BlockingOn(v) \subseteq BlockingOn(v)'
  BY <1>1 DEF ActiveOn, BlockingOn
<1>5. OccupanciesPlaced
  BY DEF OccupanciesPlaced
<1> QED BY <1>2, <1>3, <1>4, <1>5, MarkMoved

(* A booking r ends, and its unit is marked free.                          *)
LEMMA MarkCleared ==
  ASSUME Premises, MarkInv, NEW r \in Res, NEW x, NEW y, res' = [res EXCEPT ![r] = x],
         unit' = [unit EXCEPT ![res[r].unit] = y], y \notin Marks, occ' = occ,
         res[r].unit \in Unit,
         \A q \in Proc : proc'[q] = proc[q] \/ PlanFrees(q)'
  PROVE  MarkInv'
<1> DEFINE u == res[r].unit
<1>1. \A q \in Res : q # r => res'[q] = res[q]
  BY DEF Premises, TypeOK
<1>2. unit'[u] = y /\ \A v \in Unit : v # u => unit'[v] = unit[v]
  BY DEF Premises, TypeOK
<1>3. \A v \in Unit : v # u => /\ ActiveOn(v) \subseteq ActiveOn(v)'
                               /\ BlockingOn(v) \subseteq BlockingOn(v)'
  BY <1>1 DEF ActiveOn, BlockingOn
<1>4. OccupanciesPlaced
  BY DEF OccupanciesPlaced
<1> HIDE DEF u
<1> QED BY <1>2, <1>3, <1>4, MarkMoved

(* A new occupancy o takes unit u, whose bookings alone are written.       *)
LEMMA MarkLet ==
  ASSUME Premises, MarkInv, NEW u \in Unit, NEW o \in Occ, NEW y, NEW z, occ' = [occ EXCEPT ![o] = y],
         y.unit = u, y.status \in Blocking, occ[o].status = "NONE" \/ occ[o].unit = u,
         unit' = [unit EXCEPT ![u] = z],
         \A q \in Res : q \notin ActiveOn(u) => res'[q] = res[q],
         \A q \in Proc : proc'[q] = proc[q] \/ PlanFrees(q)'
  PROVE  MarkInv'
<1>1. occ'[o] = y /\ \A n \in Occ : n # o => occ'[n] = occ[n]
  BY DEF Premises, TypeOK
<1>2. \A v \in Unit : v # u => unit'[v] = unit[v]
  BY DEF Premises, TypeOK
<1>3. Claimed(u)'
  BY <1>1 DEF Claimed, BlockingOn
<1>4. \A v \in Unit : v # u => ActiveOn(v) \subseteq ActiveOn(v)'
  BY DEF ActiveOn
<1>5. \A v \in Unit : v # u => BlockingOn(v) \subseteq BlockingOn(v)'
  BY <1>1 DEF BlockingOn, Blocking
<1>6. OccupanciesPlaced
  BY <1>1 DEF OccupanciesPlaced
<1> QED BY <1>2, <1>3, <1>4, <1>5, <1>6, MarkMoved

(* The operations on bookings lose no unit ...                             *)
LEMMA BookingsKeepMarks ==
  ASSUME Guarded, Premises, MarkInv, Bookings
  PROVE  MarkInv'
<1> USE MarksStay, SameClaims, SamePlans, PlansDone DEF Premises
<1>h. ASSUME NEW u \in Unit, NEW l, NEW r \in Res, NEW h, NEW public \in BOOLEAN,
             HoldUnit(u, l, r, h, public), occ' = occ,
             \A q \in Proc : proc'[q] = proc[q] \/ PlanFrees(q)'
      PROVE  MarkInv'
  <2> DEFINE x == [NoReservation EXCEPT !.status = "ACTIVE", !.unit = u, !.lead = l, !.hold = h,
                                        !.public = public,
                                        !.code = IF public THEN h ELSE 0]
  <2>1. /\ res' = [res EXCEPT ![r] = x] /\ res[r].status = "NONE"
        /\ unit' = [unit EXCEPT ![u] = "RESERVED"]
    BY <1>h DEF HoldUnit, NextRow
  <2>2. x.status = "ACTIVE" /\ x.unit = u
    BY DEF NoReservation
  <2> HIDE DEF x
  <2> QED BY <1>h, <2>1, <2>2, MarkBooked
<1>1. ASSUME NEW l \in Lead, CreateLead(l) PROVE MarkInv'
  BY <1>1 DEF CreateLead
<1>2. ASSUME NEW u \in Unit, NEW l \in Lead \cup {None}, NEW r \in Res, NEW h \in Holds,
             CreateReservation(u, l, r, h)
      PROVE  MarkInv'
  BY <1>2, <1>h DEF CreateReservation
<1>3. ASSUME NEW u \in Unit, NEW l \in Lead, NEW r \in Res, SyncOfflineReservation(u, l, r)
      PROVE  MarkInv'
  BY <1>3, <1>h DEF SyncOfflineReservation
<1>4. ASSUME NEW p \in Proc, NEW u \in Unit, NEW l \in Lead, NEW r \in Res,
             CreatePublicReservation(p, u, l, r)
      PROVE  MarkInv'
  <2>1. \A q \in Proc : proc'[q] = proc[q] \/ PlanFrees(q)'
    BY <1>4, PlansNothing DEF CreatePublicReservation, Idle
  <2> QED BY <1>4, <2>1, <1>h DEF CreatePublicReservation
<1>5. ASSUME NEW p \in Proc, CodeDelivered(p) PROVE MarkInv'
  <2>1. ClaimsStay
    BY <1>5 DEF CodeDelivered, ClaimsStay, TypeOK, Reservation
  <2> QED BY <1>5, <2>1 DEF CodeDelivered
<1>6. ASSUME NEW p \in Proc, CodeFailed(p) PROVE MarkInv'
  BY <1>6 DEF CodeFailed, Guarded, UnguardedOps
<1>7. ASSUME NEW p \in Proc, NEW r \in Res, NEW h \in Now, VerifyRead(p, r, h) PROVE MarkInv'
  <2>1. \A q \in Proc : proc'[q] = proc[q] \/ PlanFrees(q)'
    BY <1>7, PlansNothing DEF VerifyRead, Idle
  <2> QED BY <1>7, <2>1 DEF VerifyRead
<1>8. ASSUME NEW p \in Proc, VerifyCommit(p) PROVE MarkInv'
  <2>1. ClaimsStay
    BY <1>8 DEF VerifyCommit, ClaimsStay, TypeOK, Reservation
  <2> QED BY <1>8, <2>1 DEF VerifyCommit
<1>9. ASSUME NEW r \in Res, NEW h \in Now, RenewHold(r, h) PROVE MarkInv'
  <2> DEFINE x == [res[r] EXCEPT !.status = "ACTIVE", !.hold = h, !.swept = FALSE,
                   !.code = IF res[r].verified THEN @ ELSE h]
  <2>1. res' = [res EXCEPT ![r] = x] /\ occ' = occ /\ proc' = proc /\ res[r].status # "NONE"
    BY <1>9 DEF RenewHold
  <2>2. x.status = "ACTIVE" /\ x.unit = res[r].unit
    BY DEF TypeOK, Reservation
  <2> HIDE DEF x
  <2>3. CASE res[r].status = "ACTIVE" /\ unit' = unit
    <3>1. ClaimsStay
      BY <2>1, <2>2, <2>3 DEF ClaimsStay, TypeOK
    <3> QED BY <2>1, <2>3, <3>1
  <2>4. CASE unit' = [unit EXCEPT ![res[r].unit] = "RESERVED"]
    <3>1. res[r].unit \in Unit
      BY <2>1 DEF HoldingInv, Placed
    <3> QED BY <2>1, <2>2, <2>4, <3>1, MarkBooked
  <2> QED BY <1>9, <2>3, <2>4 DEF RenewHold
<1>10. ASSUME NEW r \in Res, PrepareLease(r) PROVE MarkInv'
  <2>1. ClaimsStay
    BY <1>10 DEF PrepareLease, ClaimsStay, TypeOK, Reservation
  <2> QED BY <1>10, <2>1 DEF PrepareLease
<1>11. ASSUME NEW r \in Res, SignLease(r) PROVE MarkInv'
  <2>1. ClaimsStay
    BY <1>11 DEF SignLease, ClaimsStay, TypeOK, Reservation
  <2> QED BY <1>11, <2>1 DEF SignLease
<1>12. ASSUME NEW p \in Proc, NEW r \in Res, NEW h \in Now, ExtendRead(p, r, h) PROVE MarkInv'
  <2>1. \A q \in Proc : proc'[q] = proc[q] \/ PlanFrees(q)'
    BY <1>12, PlansNothing DEF ExtendRead, Idle
  <2> QED BY <1>12, <2>1 DEF ExtendRead
<1>13. ASSUME NEW p \in Proc, ExtendCommit(p) PROVE MarkInv'
  <2>1. ClaimsStay
    BY <1>13 DEF ExtendCommit, ClaimsStay, TypeOK, Reservation
  <2> QED BY <1>13, <2>1 DEF ExtendCommit
<1>14. ASSUME NEW p \in Proc, NEW r \in Res, CancelRead(p, r) PROVE MarkInv'
  BY <1>14 DEF CancelRead, Start, Guarded, UnguardedOps
<1>15. ASSUME NEW p \in Proc, CancelClaim(p) PROVE MarkInv'
  BY <1>15 DEF CancelClaim, BookingInv, EndingsClaimed
<1>16. ASSUME NEW p \in Proc, NEW r \in Res, ExpireRead(p, r) PROVE MarkInv'
  <2>1. \A q \in Proc : proc'[q] = proc[q] \/ PlanFrees(q)'
    BY <1>16, PlansNothing DEF ExpireRead, Idle
  <2> QED BY <1>16, <2>1 DEF ExpireRead
<1>17. ASSUME NEW p \in Proc, ExpireClaim(p) PROVE MarkInv'
  <2>1. /\ proc' = [proc EXCEPT ![p] = [proc[p] EXCEPT !.pc = "claimed"]]
        /\ [proc[p] EXCEPT !.pc = "claimed"].pc = "claimed"
    BY <1>17 DEF ExpireClaim, TypeOK, Request
  <2>2. \A q \in Proc : proc'[q] = proc[q] \/ PlanFrees(q)'
    BY <2>1, PlansNothing
  <2> QED BY <1>17, <2>2 DEF ExpireClaim
<1>18. ASSUME NEW p \in Proc, CountBlockers(p) PROVE MarkInv'
  <2> DEFINE f == ActiveOn(proc[p].u) \subseteq {proc[p].r} /\ BlockingOn(proc[p].u) = {}
  <2>1. proc' = [proc EXCEPT ![p] = [proc[p] EXCEPT !.pc = "counted", !.flag = f]]
    BY <1>18 DEF CountBlockers
  <2> HIDE DEF f
  <2>2. [proc[p] EXCEPT !.pc = "counted", !.flag = f].pc = "counted"
    BY DEF TypeOK, Request
  <2>3. \A q \in Proc : proc'[q] = proc[q] \/ PlanFrees(q)'
    BY <2>1, <2>2, PlansNothing
  <2> QED BY <1>18, <2>3 DEF CountBlockers
<1>19. ASSUME NEW p \in Proc, EndReservation(p) PROVE MarkInv'
  <2> PICK r : r = proc[p].r
    OBVIOUS
  <2> PICK x : x = [res[r] EXCEPT !.status = proc[p].st, !.swept = FALSE,
                    !.code = IF proc[p].st = "EXPIRED" THEN 0 ELSE @]
    OBVIOUS
  <2>1. /\ res' = [res EXCEPT ![r] = x] /\ proc[p].pc = "counted" /\ Done(p) /\ occ' = occ
        /\ unit' = IF proc[p].flag /\ unit[proc[p].u] = "RESERVED"
                   THEN [unit EXCEPT ![proc[p].u] = "AVAILABLE"] ELSE unit
    BY <1>19 DEF EndReservation
  <2>2. r \in Res /\ res[r].status = "ACTIVE" /\ res[r].unit = proc[p].u /\ proc[p].flag
    BY <2>1 DEF BookingInv, EndingsClaimed, Ending, HoldingInv, Known, Minding
  <2>3. unit[res[r].unit] = "RESERVED" /\ res[r].unit \in Unit
    BY <2>2, BackedUnits DEF HoldBacked, HoldingInv, Placed
  <2>4. unit' = [unit EXCEPT ![res[r].unit] = "AVAILABLE"]
    BY <2>1, <2>2, <2>3
  <2>5. "AVAILABLE" \notin Marks
    BY DEF Marks
  <2>6. \A q \in Proc : proc'[q] = proc[q] \/ PlanFrees(q)'
    BY <2>1
  <2> QED BY <2>1, <2>2, <2>3, <2>4, <2>5, <2>6, MarkCleared
<1>20. ASSUME NEW p \in Proc, NEW r \in Res, SweepRead(p, r) PROVE MarkInv'
  <2>1. \A q \in Proc : proc'[q] = proc[q] \/ PlanFrees(q)'
    BY <1>20, PlansNothing DEF SweepRead, Idle
  <2> QED BY <1>20, <2>1 DEF SweepRead
<1>21. ASSUME NEW p \in Proc, SweepRelease(p) PROVE MarkInv'
  <2> PICK r : r = proc[p].r
    OBVIOUS
  <2> PICK x : x = [res[r] EXCEPT !.status = "CANCELLED", !.swept = TRUE, !.code = 0]
    OBVIOUS
  <2>1. /\ res' = [res EXCEPT ![r] = x] /\ proc[p].pc = "sweep" /\ Done(p) /\ occ' = occ
        /\ res[r].status = "ACTIVE"
    BY <1>21 DEF SweepRelease, Expirable
  <2>2. r \in Res /\ res[r].unit = proc[p].u
    BY <2>1 DEF HoldingInv, Known, Minding
  <2>3. unit[res[r].unit] = "RESERVED" /\ res[r].unit \in Unit
    BY <2>1, <2>2, BackedUnits DEF HoldBacked, HoldingInv, Placed
  <2>4. r \in ActiveOn(proc[p].u)
    BY <2>1, <2>2 DEF ActiveOn
  <2>5. BlockingOn(proc[p].u) = {} /\ ActiveOn(proc[p].u) = {r}
    BY <2>2, <2>3, <2>4 DEF HoldingInv, UnitOK
  <2>6. PICK y \in {"SERVICE", "AVAILABLE"} : unit' = [unit EXCEPT ![res[r].unit] = y]
    BY <1>21, <2>2, <2>3, <2>5 DEF SweepRelease
  <2> QED BY <2>1, <2>2, <2>3, <2>6, MarkCleared DEF Marks
<1>22. ASSUME NEW r \in Res, NEW v \in Unit, PatchReservation(r, v) PROVE MarkInv'
  BY <1>22 DEF PatchReservation, Guarded, UnguardedOps
<1>23. ASSUME NEW r \in Res, DeleteReservation(r) PROVE MarkInv'
  BY <1>23 DEF DeleteReservation, Guarded, UnguardedOps
<1>24. ASSUME NEW p \in Proc, NEW u \in Unit, OrphanRead(p, u) PROVE MarkInv'
  BY <1>24 DEF OrphanRead, Start, Guarded, UnguardedOps
<1>25. ASSUME NEW p \in Proc, OrphanRelease(p) PROVE MarkInv'
  BY <1>25 DEF OrphanRelease, HoldingInv, Known
<1>26. ASSUME NEW f \in Floor, SetFloorOperational(f) PROVE MarkInv'
  BY <1>26 DEF SetFloorOperational
<1> QED
  BY <1>1, <1>2, <1>3, <1>4, <1>5, <1>6, <1>7, <1>8, <1>9, <1>10, <1>11, <1>12, <1>13, <1>14,
     <1>15, <1>16, <1>17, <1>18, <1>19, <1>20, <1>21, <1>22, <1>23, <1>24, <1>25, <1>26
  DEF Bookings

(* ... and those on tenancies, maintenance and units neither.              *)
LEMMA TenanciesKeepMarks ==
  ASSUME Guarded, Premises, MarkInv, Tenancies
  PROVE  MarkInv'
<1> USE MarksStay, SameClaims, SamePlans, PlansDone DEF Premises
<1>1. ASSUME NEW p \in Proc, NEW u \in Unit, NEW r \in Res \cup {NoRow}, NEW simulation \in BOOLEAN,
             MoveInCheck(p, u, r, simulation)
      PROVE  MarkInv'
  <2>1. \A q \in Proc : proc'[q] = proc[q] \/ PlanFrees(q)'
    BY <1>1, PlansNothing DEF MoveInCheck, Idle
  <2> QED BY <1>1, <2>1 DEF MoveInCheck
<1>2. ASSUME NEW p \in Proc, NEW t \in Ten, NEW o \in Occ, MoveInCommit(p, t, o)
      PROVE  MarkInv'
  <2> DEFINE r == proc[p].r
             u == proc[p].u
             y == [status |-> "PENDING", unit |-> u, ten |-> t]
  <2>1. /\ occ[o].status = "NONE" /\ Done(p) /\ Entering(p)
        /\ occ' = [occ EXCEPT ![o] = y]
        /\ unit' = [unit EXCEPT ![u] = "RESERVED"]
        /\ \A q \in Res : q # r => res'[q] = res[q]
    BY <1>2 DEF MoveInCommit, NextRow, Entering
  <2>2. u \in Unit /\ ActiveOn(u) = {r} \ {NoRow}
    BY <2>1 DEF HoldingInv, Known
  <2>3. \A q \in Res : q \notin ActiveOn(u) => res'[q] = res[q]
    BY <2>1, <2>2 DEF NoRow, Res
  <2>4. y.unit = u /\ y.status \in Blocking
    BY DEF Blocking
  <2>5. \A q \in Proc : proc'[q] = proc[q] \/ PlanFrees(q)'
    BY <2>1
  <2> HIDE DEF r, u, y
  <2> QED BY <2>1, <2>2, <2>3, <2>4, <2>5, MarkLet
<1>3. ASSUME NEW p \in Proc, NEW t \in Ten, DispatchRead(p, t) PROVE MarkInv'
  <2>1. \A q \in Proc : proc'[q] = proc[q] \/ PlanFrees(q)'
    BY <1>3, PlansNothing DEF DispatchRead, Idle
  <2> QED BY <1>3, <2>1 DEF DispatchRead
<1>4. ASSUME NEW p \in Proc, DispatchAttach(p) PROVE MarkInv'
  BY <1>4 DEF DispatchAttach
<1>5. ASSUME NEW t \in Ten, CompleteEnvelope(t) PROVE MarkInv'
  BY <1>5 DEF CompleteEnvelope
<1>6. ASSUME NEW r \in Res, NEW t \in Ten, NEW o \in Occ, ConfirmMoveIn(r, t, o)
      PROVE  MarkInv'
  <2> DEFINE u == res[r].unit
             y == [status |-> "ACTIVE", unit |-> u, ten |-> t]
  <2>1. /\ occ[o].status = "NONE" /\ proc' = proc
        /\ occ' = [occ EXCEPT ![o] = y]
        /\ unit' = [unit EXCEPT ![u] = "OCCUPIED"]
        /\ res' = [res EXCEPT ![r].status = "CONVERTED", ![r].ten = t]
        /\ res[r].status = "ACTIVE"
    BY <1>6 DEF ConfirmMoveIn, NextRow
  <2>2. u \in Unit /\ r \in ActiveOn(u)
    BY <2>1 DEF HoldingInv, Placed, ActiveOn
  <2>3. \A q \in Res : q \notin ActiveOn(u) => res'[q] = res[q]
    BY <2>1, <2>2 DEF TypeOK
  <2>4. y.unit = u /\ y.status \in Blocking
    BY DEF Blocking
  <2>5. \A q \in Proc : proc'[q] = proc[q] \/ PlanFrees(q)'
    BY <2>1
  <2> HIDE DEF u, y
  <2> QED BY <2>1, <2>2, <2>3, <2>4, <2>5, MarkLet
<1>7. ASSUME NEW p \in Proc, NEW t \in Ten, NEW o \in Occ, LegacyRead(p, t, o) PROVE MarkInv'
  <2>1. \A q \in Proc : proc'[q] = proc[q] \/ PlanFrees(q)'
    BY <1>7, PlansNothing DEF LegacyRead, Idle
  <2> QED BY <1>7, <2>1 DEF LegacyRead
<1>8. ASSUME NEW p \in Proc, NEW o \in Occ, LegacyCommit(p, o) PROVE MarkInv'
  <2> DEFINE u == occ[o].unit
             y == [occ[o] EXCEPT !.status = "ACTIVE"]
  <2>1. /\ BlockingOn(u) = {o} /\ res' = res /\ Done(p)
        /\ occ' = [occ EXCEPT ![o] = y]
        /\ unit' = [unit EXCEPT ![u] = "OCCUPIED"]
    BY <1>8 DEF LegacyCommit
  <2>2. occ[o].status \in Blocking
    BY <2>1 DEF BlockingOn
  <2>3. u \in Unit
    BY <2>2 DEF HoldingInv, Placed, Blocking
  <2>4. y.unit = u /\ y.status \in Blocking
    BY DEF Blocking, TypeOK, Occupancy
  <2>5. \A q \in Proc : proc'[q] = proc[q] \/ PlanFrees(q)'
    BY <2>1
  <2>6. occ[o].unit = u
    OBVIOUS
  <2> HIDE DEF u, y
  <2> QED BY <2>1, <2>3, <2>4, <2>5, <2>6, MarkLet
<1>9. ASSUME NEW p \in Proc, NEW t \in Ten, NEW v \in Unit, NEW o \in Occ, TransferRead(p, t, v, o)
      PROVE  MarkInv'
  <2>1. \A q \in Proc : proc'[q] = proc[q] \/ PlanFrees(q)'
    BY <1>9, PlansNothing DEF TransferRead, Idle
  <2> QED BY <1>9, <2>1 DEF TransferRead
<1>10. ASSUME NEW p \in Proc, NEW o \in Occ, NEW n \in Occ, TransferCommit(p, o, n)
       PROVE  MarkInv'
  <2> PICK u : u = occ[o].unit
    OBVIOUS
  <2> PICK v : v = proc[p].u
    OBVIOUS
  <2> DEFINE y == [status |-> "ACTIVE", unit |-> v, ten |-> proc[p].t]
  <2>1. /\ proc[p].pc = "transfer" /\ Done(p) /\ res' = res
        /\ occ[o].status = "ACTIVE" /\ occ[n].status = "NONE"
        /\ occ' = [occ EXCEPT ![o].status = "MOVED_OUT", ![n] = y]
        /\ unit' = [unit EXCEPT ![u] = "AVAILABLE", ![v] = "OCCUPIED"]
    BY <1>10 DEF TransferCommit, NextRow
  <2>2. /\ occ'[n] = y /\ occ'[o].unit = occ[o].unit /\ occ'[o].status = "MOVED_OUT"
        /\ \A m \in Occ : m # o /\ m # n => occ'[m] = occ[m]
    BY <2>1 DEF TypeOK, Occupancy
  <2>3. v \in Unit /\ u \in Unit
    BY <2>1 DEF HoldingInv, Known, Placed
  <2>4. /\ unit'[v] = "OCCUPIED" /\ (u # v => unit'[u] = "AVAILABLE")
        /\ \A w \in Unit : w # u /\ w # v => unit'[w] = unit[w]
    BY <2>1, <2>3 DEF TypeOK
  <2>5. n \in BlockingOn(v)'
    BY <2>2 DEF BlockingOn, Blocking
  <2>6. \A w \in Unit : w # u => /\ ActiveOn(w) \subseteq ActiveOn(w)'
                                 /\ BlockingOn(w) \subseteq BlockingOn(w)'
    BY <2>1, <2>2 DEF ActiveOn, BlockingOn, Blocking
  <2>7. OccupanciesPlaced
    BY <2>1, <2>2 DEF OccupanciesPlaced
  <2>8. \A q \in Proc : proc'[q] = proc[q] \/ PlanFrees(q)'
    BY <2>1
  <2>9. \A w \in Unit : MarkStands(w)
    BY <2>4, <2>5, <2>6 DEF MarkStands, Claimed, Marks
  <2> QED BY <2>7, <2>8, <2>9, MarksKept
<1>11. ASSUME NEW p \in Proc, NEW t \in Ten, NoticeRead(p, t) PROVE MarkInv'
  <2>1. \A q \in Proc : proc'[q] = proc[q] \/ PlanFrees(q)'
    BY <1>11, PlansNothing DEF NoticeRead, Idle
  <2> QED BY <1>11, <2>1 DEF NoticeRead
<1>12. ASSUME NEW p \in Proc, NoticeCommit(p) PROVE MarkInv'
  <2>1. /\ \A o \in Occ : occ'[o] = IF o \in OccupanciesOf(proc[p].t, {"ACTIVE"})
                                    THEN [occ[o] EXCEPT !.status = "NOTICE_GIVEN"] ELSE occ[o]
        /\ Done(p) /\ res' = res /\ unit' = unit
    BY <1>12 DEF NoticeCommit
  <2>2. \A o \in Occ : \/ occ'[o] = occ[o]
                       \/ occ'[o].status = "NOTICE_GIVEN" /\ occ'[o].unit = occ[o].unit
    BY <2>1, RowTypes DEF Occupancy
  <2>3. \A u \in Unit : MarkStands(u)
    BY <2>1, <2>2 DEF MarkStands, ActiveOn, BlockingOn, Blocking
  <2>4. OccupanciesPlaced
    BY <2>2 DEF OccupanciesPlaced
  <2>5. \A q \in Proc : proc'[q] = proc[q] \/ PlanFrees(q)'
    BY <2>1
  <2> QED BY <2>3, <2>4, <2>5, MarksKept
<1>13. ASSUME NEW p \in Proc, NEW t \in Ten, MoveOutRead(p, t) PROVE MarkInv'
  <2>1. \A q \in Proc : proc'[q] = proc[q] \/ PlanFrees(q)'
    BY <1>13, PlansNothing DEF MoveOutRead, Idle
  <2> QED BY <1>13, <2>1 DEF MoveOutRead
<1>14. ASSUME NEW p \in Proc, MoveOutClaim(p) PROVE MarkInv'
  <2> DEFINE claimed == OccupanciesOf(proc[p].t, Living)
             left == [u \in Unit |-> IF BlockingOn(u) \ claimed # {} THEN "OCCUPIED"
                                     ELSE IF InMaintenance(u) THEN "SERVICE"
                                     ELSE IF ActiveOn(u) # {} THEN "RESERVED" ELSE "AVAILABLE"]
             plan == [u \in Unit |-> IF \E o \in proc[p].os : occ[o].unit = u THEN left[u] ELSE "NONE"]
  <2>1. /\ proc' = [proc EXCEPT ![p] = [proc[p] EXCEPT !.pc = "closing", !.os = claimed, !.plan = plan]]
        /\ res' = res /\ occ' = occ /\ unit' = unit
    BY <1>14 DEF MoveOutClaim
  <2>2. claimed = proc[p].os
    BY <1>14, ClaimedAsRead
  <2>3. \A o \in claimed : o \in Occ /\ occ[o].status \in Blocking /\ occ[o].unit \in Unit
    BY DEF OccupanciesOf, HoldingInv, Placed, Living, Blocking
  <2>4. \A o \in claimed : left[occ[o].unit] \in {"SERVICE", "AVAILABLE"}
    <3>1. ASSUME NEW o \in claimed PROVE left[occ[o].unit] \in {"SERVICE", "AVAILABLE"}
      <4>1. o \in BlockingOn(occ[o].unit) /\ occ[o].unit \in Unit
        BY <2>3 DEF BlockingOn
      <4>2. BlockingOn(occ[o].unit) = {o} /\ ActiveOn(occ[o].unit) = {}
        BY <4>1 DEF HoldingInv, UnitOK
      <4> QED BY <4>1, <4>2
    <3> QED BY <3>1
  <2> HIDE DEF left, claimed
  <2>5. \A u \in Unit : plan[u] \notin Marks
    BY <2>2, <2>4 DEF Marks
  <2>6. \A o \in claimed : plan[occ[o].unit] # "NONE"
    BY <2>2, <2>3, <2>4
  <2> HIDE DEF plan
  <2>7. proc'[p].os = claimed /\ proc'[p].plan = plan
    BY <2>1 DEF TypeOK, Request
  <2>8. PlanFrees(p)'
    BY <2>1, <2>5, <2>6, <2>7 DEF PlanFrees
  <2>9. \A q \in Proc : proc'[q] = proc[q] \/ PlanFrees(q)'
    BY <2>1, <2>8 DEF TypeOK
  <2> QED BY <2>1, <2>9
<1>15. ASSUME NEW p \in Proc, MoveOutCommit(p) PROVE MarkInv'
  <2> DEFINE os == proc[p].os
             plan == proc[p].plan
  <2>1. /\ proc[p].pc = "closing" /\ Done(p) /\ res' = res
        /\ \A o \in Occ : occ'[o] = IF o \in os THEN [occ[o] EXCEPT !.status = "MOVED_OUT"] ELSE occ[o]
        /\ \A u \in Unit : unit'[u] = IF plan[u] = "NONE" THEN unit[u] ELSE plan[u]
    BY <1>15 DEF MoveOutCommit
  <2>2. /\ \A u \in Unit : plan[u] \notin Marks
        /\ \A o \in os : plan[occ[o].unit] # "NONE"
    BY <2>1 DEF MarkInv, PlanFrees, Closing
  <2>3. \A o \in Occ : \/ occ'[o] = occ[o] /\ o \notin os
                       \/ o \in os /\ occ'[o].unit = occ[o].unit
    BY <2>1, RowTypes DEF Occupancy
  <2> HIDE DEF os, plan
  <2>4. ASSUME NEW u \in Unit PROVE MarkStands(u)
    <3>1. CASE plan[u] = "NONE"
      <4>1. ActiveOn(u)' = ActiveOn(u)
        BY <2>1 DEF ActiveOn
      <4>2. \A o \in BlockingOn(u) : occ'[o] = occ[o]
        BY <2>2, <2>3, <3>1 DEF BlockingOn
      <4>3. BlockingOn(u) \subseteq BlockingOn(u)'
        BY <4>2 DEF BlockingOn
      <4> QED BY <2>1, <3>1, <4>1, <4>3 DEF MarkStands
    <3>2. CASE plan[u] # "NONE"
      BY <2>1, <2>2, <3>2 DEF MarkStands
    <3> QED BY <3>1, <3>2
  <2>5. OccupanciesPlaced
    BY <2>3 DEF OccupanciesPlaced
  <2>6. \A q \in Proc : proc'[q] = proc[q] \/ PlanFrees(q)'
    BY <2>1
  <2> QED BY <2>4, <2>5, <2>6, MarksKept
<1>16. ASSUME NEW u \in Unit, NEW m \in Maint, MaintenanceClaim(u, m) PROVE MarkInv'
  <2>1. \A v \in Unit : unit'[v] = unit[v] \/ unit'[v] \notin Marks
    BY <1>16 DEF MaintenanceClaim, TypeOK, Marks
  <2> QED BY <1>16, <2>1 DEF MaintenanceClaim
<1>17. ASSUME NEW p \in Proc, NEW u \in Unit, MaintenanceRead(p, u) PROVE MarkInv'
  <2>1. \A q \in Proc : proc'[q] = proc[q] \/ PlanFrees(q)'
    BY <1>17, PlansNothing DEF MaintenanceRead, Idle
  <2> QED BY <1>17, <2>1 DEF MaintenanceRead
<1>18. ASSUME NEW p \in Proc, NEW m \in Maint, MaintenanceOpen(p, m) PROVE MarkInv'
  BY <1>18 DEF MaintenanceOpen
<1>19. ASSUME NEW u \in Unit, NEW m \in Maint, NEW status \in {"OPEN", "ENDED"},
              MaintenanceUpdate(u, m, status)
       PROVE  MarkInv'
  <2>1. \A v \in Unit : unit'[v] = unit[v] \/ unit'[v] \notin Marks
    BY <1>19 DEF MaintenanceUpdate, TypeOK, Marks
  <2> QED BY <1>19, <2>1 DEF MaintenanceUpdate
<1>20. ASSUME NEW u \in Unit, NEW status \in {"AVAILABLE", "SERVICE", "UNAVAILABLE"},
              EditUnit(u, status)
       PROVE  MarkInv'
  <2>1. \A v \in Unit : unit'[v] = unit[v] \/ unit'[v] \notin Marks
    BY <1>20 DEF EditUnit, TypeOK, Marks
  <2> QED BY <1>20, <2>1 DEF EditUnit
<1>21. ASSUME NEW u \in Unit, RetireUnit(u) PROVE MarkInv'
  BY <1>21 DEF RetireUnit, Guarded, UnguardedOps
<1> QED
  BY <1>1, <1>2, <1>3, <1>4, <1>5, <1>6, <1>7, <1>8, <1>9, <1>10, <1>11, <1>12, <1>13, <1>14,
     <1>15, <1>16, <1>17, <1>18, <1>19, <1>20, <1>21
  DEF Tenancies

(* So it is throughout.                                                   *)
LEMMA MarkInvariant ==
  ASSUME Guarded
  PROVE  Spec => []MarkInv
<1>1. Init => MarkInv
  BY DEF Init, Idle, MarkInv, NoUnitLost, PlanFrees, Closing
<1>2. Premises /\ MarkInv /\ [Next]_vars => MarkInv'
  <2> SUFFICES ASSUME Premises, MarkInv, [Next]_vars PROVE MarkInv'
    OBVIOUS
  <2> USE MarksStay, SameClaims, SamePlans, PlansDone DEF Premises
  <2>1. ASSUME NEW p \in Proc, Rollback(p) PROVE MarkInv'
    BY <2>1 DEF Rollback
  <2>2. CASE Tick
    BY <2>2 DEF Tick
  <2>3. CASE UNCHANGED vars
    BY <2>3 DEF vars
  <2> QED BY <2>1, <2>2, <2>3, BookingsKeepMarks, TenanciesKeepMarks DEF Next
<1>3. NothingOverwrites
  BY DEF Guarded, UnguardedOps, NothingOverwrites
<1> QED BY <1>1, <1>2, <1>3, Typing, BookingInvariant, TenancyInvariant, MoveInsHold,
           HoldingInvariant, PTL DEF Spec, Premises

(* Marks and claims agree: an active booking keeps its unit reserved, an   *)
(* occupancy waiting for signature or keys reserved and one in use         *)
(* occupied, no two claims share a unit, and no unit stays marked for      *)
(* nobody, whatever order expiry, sweep, renewal, conversion, handover,    *)
(* notice, transfer or move-out count and write in.                        *)
THEOREM UnitsBacked ==
  ASSUME Guarded
  PROVE  Spec => []UnitBacked
<1>1. HoldingInv /\ MarkInv => UnitBacked
  BY BackedUnits DEF UnitBacked, MarkInv
<1> QED BY <1>1, HoldingInvariant, MarkInvariant, PTL

(* So a unit marked occupied is lived in.  The run moveout_transfer needs  *)
(* its pair of a move-out and a transfer: neither without the other can    *)
(* leave a unit occupied by nobody.                                        *)
THEOREM OccupiedAreUsed ==
  ASSUME Guarded
  PROVE  Spec => []OccupiedIsUsed
<1>1. UnitBacked => OccupiedIsUsed
  <2> SUFFICES ASSUME UnitBacked, NEW u \in Unit, unit[u] = "OCCUPIED"
               PROVE  \E o \in BlockingOn(u) : occ[o].status \in Living
    BY DEF OccupiedIsUsed
  <2>1. ActiveOn(u) = {}
    BY DEF UnitBacked, HoldBacked, ActiveOn
  <2>2. PICK o \in BlockingOn(u) : TRUE
    BY <2>1 DEF UnitBacked, NoUnitLost
  <2>3. occ[o].status # "PENDING"
    BY <2>2 DEF UnitBacked, OccupancyBacked, BlockingOn
  <2> QED BY <2>2, <2>3 DEF BlockingOn, Blocking, Living
<1> QED BY <1>1, UnitsBacked, PTL

-----------------------------------------------------------------------------
(* The promise of UnitAllocation.  A tenancy comes from one booking at     *)
(* most, and no booking is linked to a tenancy that is not there yet.      *)
PartiesKnown ==
    /\ \A r \in Res : res[r].ten # NoRow => ten[res[r].ten].status # "NONE"
    /\ \A r, q \in Res : res[r].ten = res[q].ten /\ res[r].ten # NoRow => r = q

(* What PartyOf and holder come to, case by case.                          *)
PartyCases ==
    \A t \in Ten :
       /\ \A r \in Res : res[r].ten = t => PartyOf(t) = <<"booking", r>>
       /\ (\A r \in Res : res[r].ten # t) => PartyOf(t) = <<"tenancy", t>>
HolderCases ==
    /\ holder = [u \in Unit |-> holder[u]]
    /\ \A u \in Unit :
          /\ \A r \in Res : ActiveOn(u) = {r} => holder[u] = <<"booking", r>>
          /\ \A o \in Occ : ActiveOn(u) = {} /\ BlockingOn(u) = {o} => holder[u] = PartyOf(occ[o].ten)
          /\ ActiveOn(u) = {} /\ BlockingOn(u) = {} => holder[u] = Nobody

(* The party of a tenancy is its one booking, or the tenancy itself.       *)
LEMMA PartyIs == PartiesKnown => PartyCases
<1> SUFFICES ASSUME PartiesKnown, NEW t \in Ten
             PROVE  /\ \A r \in Res : res[r].ten = t => PartyOf(t) = <<"booking", r>>
                    /\ (\A r \in Res : res[r].ten # t) => PartyOf(t) = <<"tenancy", t>>
  BY DEF PartyCases
<1>1. t # NoRow
  BY DEF Ten, NoRow
<1>2. ASSUME NEW r \in Res, res[r].ten = t PROVE PartyOf(t) = <<"booking", r>>
  <2>1. \A q \in Res : res[q].ten = t => q = r
    BY <1>1, <1>2 DEF PartiesKnown
  <2>2. (CHOOSE q \in Res : res[q].ten = t) = r
    BY <1>2, <2>1
  <2> QED BY <1>2, <2>2 DEF PartyOf
<1> QED BY <1>2 DEF PartyOf

(* The cases are what the definitions say, of every state ...              *)
LEMMA HolderIs == HolderCases
<1>1. holder = [u \in Unit |-> holder[u]]
  BY DEF holder
<1>2. ASSUME NEW u \in Unit, NEW r \in Res, ActiveOn(u) = {r}
      PROVE  holder[u] = <<"booking", r>>
  <2>1. (CHOOSE q \in Res : q \in ActiveOn(u)) = r
    BY <1>2
  <2> QED BY <1>2, <2>1 DEF holder
<1>3. ASSUME NEW u \in Unit, NEW o \in Occ, ActiveOn(u) = {}, BlockingOn(u) = {o}
      PROVE  holder[u] = PartyOf(occ[o].ten)
  <2>1. (CHOOSE n \in Occ : n \in BlockingOn(u)) = o
    BY <1>3
  <2> QED BY <1>3, <2>1 DEF holder
<1>4. ASSUME NEW u \in Unit, ActiveOn(u) = {}, BlockingOn(u) = {}
      PROVE  holder[u] = Nobody
  BY <1>4 DEF holder
<1> QED BY <1>1, <1>2, <1>3, <1>4 DEF HolderCases

(* The same of the state a step leads to.                                  *)
LEMMA PartyIsNext == PartiesKnown' => PartyCases'
BY PartyIs, PTL

(* The holder is what it is in that state, too.                            *)
LEMMA HolderIsNext == HolderCases'
BY HolderIs, PTL

(* The parties of the tenancies there are stay what they are, whether a    *)
(* step links no booking ...                                               *)
TenanciesThere == \A t \in Ten : ten[t].status # "NONE" => ten'[t].status # "NONE"
SameParties == \A t \in Ten : ten[t].status # "NONE" => PartyOf(t)' = PartyOf(t)

(* Where nothing is linked, the links and the parties stay.                *)
LEMMA NothingLinked ==
  ASSUME TypeOK, PartiesKnown, TenanciesThere, \A r \in Res : res'[r].ten = res[r].ten
  PROVE  PartiesKnown' /\ SameParties
<1>0. \A r \in Res : res[r].ten # NoRow => res[r].ten \in Ten
  BY DEF TypeOK, Reservation
<1>1. PartiesKnown'
  BY <1>0 DEF PartiesKnown, TenanciesThere
<1>2. PartyCases /\ PartyCases'
  BY <1>1, PartyIs, PartyIsNext
<1>3. SameParties
  BY <1>2 DEF PartyCases, SameParties
<1> QED BY <1>1, <1>3

(* ... or one, r, to the new tenancy t.                                    *)
LEMMA OneLinked ==
  ASSUME TypeOK, PartiesKnown, TenanciesThere, NEW r \in Res, NEW t \in Ten,
         ten[t].status = "NONE", ten'[t].status # "NONE", res'[r].ten = t,
         \A q \in Res : q # r => res'[q].ten = res[q].ten,
         res[r].ten = NoRow
  PROVE  PartiesKnown' /\ SameParties /\ PartyOf(t)' = <<"booking", r>>
<1>0. \A q \in Res : res[q].ten # NoRow => res[q].ten \in Ten /\ res[q].ten # t
  BY DEF TypeOK, Reservation, PartiesKnown
<1>1. PartiesKnown'
  <2>1. ASSUME NEW q \in Res, res'[q].ten # NoRow PROVE ten'[res'[q].ten].status # "NONE"
    BY <1>0, <2>1 DEF PartiesKnown, TenanciesThere
  <2>2. ASSUME NEW q \in Res, NEW s \in Res, res'[q].ten = res'[s].ten, res'[q].ten # NoRow
        PROVE  q = s
    BY <1>0, <2>2 DEF PartiesKnown
  <2> QED BY <2>1, <2>2 DEF PartiesKnown
<1>2. PartyCases /\ PartyCases'
  BY <1>1, PartyIs, PartyIsNext
<1>3. ASSUME NEW s \in Ten, ten[s].status # "NONE" PROVE PartyOf(s)' = PartyOf(s)
  <2>1. s # t /\ s # NoRow
    BY <1>3 DEF Ten, NoRow
  <2>2. \A q \in Res : res'[q].ten = s <=> res[q].ten = s
    BY <2>1
  <2> QED BY <1>2, <2>2 DEF PartyCases
<1>4. PartyOf(t)' = <<"booking", r>>
  BY <1>2 DEF PartyCases
<1> QED BY <1>1, <1>3, <1>4 DEF SameParties

(* A unit whose claims a step leaves alone keeps its holder.               *)
Unmoved(u) ==
    /\ ActiveOn(u)' = ActiveOn(u) /\ BlockingOn(u)' = BlockingOn(u)
    /\ \A o \in BlockingOn(u) : occ'[o].ten = occ[o].ten

(* So do the parties, where the unit is let.                               *)
LEMMA HolderStays ==
  ASSUME Premises, SameParties, NEW u \in Unit, Unmoved(u)
  PROVE  holder'[u] = holder[u]
<1>1. UnitOK(u)
  BY DEF Premises, HoldingInv
<1>2. HolderCases /\ HolderCases'
  BY HolderIs, HolderIsNext
<1>3. CASE ActiveOn(u) # {}
  <2>1. PICK r \in Res : ActiveOn(u) = {r}
    BY <1>1, <1>3 DEF UnitOK, ActiveOn
  <2> QED BY <1>2, <2>1 DEF HolderCases, Unmoved
<1>4. CASE ActiveOn(u) = {} /\ BlockingOn(u) # {}
  <2>1. PICK o \in Occ : o \in BlockingOn(u)
    BY <1>4 DEF BlockingOn
  <2>2. BlockingOn(u) = {o}
    BY <1>1, <2>1 DEF UnitOK
  <2>3. holder[u] = PartyOf(occ[o].ten)
    BY <1>2, <1>4, <2>2 DEF HolderCases
  <2>4. holder'[u] = PartyOf(occ[o].ten)'
    BY <1>2, <1>4, <2>2 DEF HolderCases, Unmoved
  <2>5. occ[o].ten \in Ten /\ ten[occ[o].ten].status # "NONE" /\ occ'[o].ten = occ[o].ten
    BY <2>1 DEF Premises, TenancyInv, OccupanciesOwned, BlockingOn, Blocking, Unmoved
  <2>6. PartyOf(occ[o].ten)' = PartyOf(occ[o].ten)
    <3> PICK t \in Ten : t = occ[o].ten
      BY <2>5
    <3>1. PartyOf(t)' = PartyOf(t)
      BY <2>5 DEF SameParties
    <3>2. PartyOf(occ[o].ten)' = PartyOf(t)'
      BY <2>5 DEF PartyOf
    <3> QED BY <3>1, <3>2
  <2> QED BY <2>3, <2>4, <2>6
<1>5. CASE ActiveOn(u) = {} /\ BlockingOn(u) = {}
  BY <1>2, <1>5 DEF HolderCases, Unmoved
<1> QED BY <1>3, <1>4, <1>5

(* What a step does to the promise. *)
Promised == PartiesKnown' /\ [Allocation!Next]_holder
HolderMoves(u, x) == holder' = [holder EXCEPT ![u] = x]

(* No claim moves ...                                                      *)
LEMMA NobodyMoved ==
  ASSUME Premises, PartiesKnown', SameParties, \A u \in Unit : Unmoved(u)
  PROVE  Promised
<1>1. holder' = holder
  BY HolderIs, HolderIsNext, HolderStays DEF HolderCases
<1> QED BY <1>1 DEF Promised

(* ... or those on unit u alone.                                           *)
LEMMA OneUnitMoved ==
  ASSUME Premises, SameParties, NEW u \in Unit, \A v \in Unit : v # u => Unmoved(v)
  PROVE  HolderMoves(u, holder'[u])
<1>1. \A v \in Unit : v # u => holder'[v] = holder[v]
  BY HolderStays
<1> QED BY <1>1, HolderIs, HolderIsNext DEF HolderCases, HolderMoves

(* The columns that claims and parties are made of. *)
BookingsStand ==
    \A r \in Res : /\ res'[r].status = res[r].status /\ res'[r].unit = res[r].unit
                   /\ res'[r].ten = res[r].ten
SameAllocations ==
    \A o \in Occ : /\ occ'[o].status \in Blocking <=> occ[o].status \in Blocking
                   /\ occ'[o].unit = occ[o].unit /\ occ'[o].ten = occ[o].ten

(* A step that leaves those columns alone moves no claim.                  *)
LEMMA NothingMoved ==
  ASSUME Premises, PartiesKnown, TenanciesThere, BookingsStand, SameAllocations
  PROVE  Promised
<1>1. \A u \in Unit : Unmoved(u)
  BY DEF BookingsStand, SameAllocations, Unmoved, ActiveOn, BlockingOn
<1>2. PartiesKnown' /\ SameParties
  BY NothingLinked DEF BookingsStand, Premises
<1> QED BY <1>1, <1>2, NobodyMoved

(* A step that writes none of the three tables is one.                     *)
LEMMA SameRows ==
  res' = res /\ occ' = occ /\ ten' = ten => BookingsStand /\ SameAllocations /\ TenanciesThere
BY DEF BookingsStand, SameAllocations, TenanciesThere

(* Who holds a unit: nobody, its booking, or the party of the tenancy that *)
(* its one occupancy belongs to.                                           *)
LEMMA HolderOf ==
  ASSUME Premises, PartiesKnown, NEW v \in Unit
  PROVE  \/ ActiveOn(v) = {} /\ BlockingOn(v) = {} /\ holder[v] = Nobody
         \/ \E r \in Res : ActiveOn(v) = {r} /\ BlockingOn(v) = {} /\ holder[v] = <<"booking", r>>
         \/ \E o \in Occ :
               /\ ActiveOn(v) = {} /\ BlockingOn(v) = {o}
               /\ occ[o].ten \in Ten /\ ten[occ[o].ten].status # "NONE"
               /\ \/ holder[v] = <<"tenancy", occ[o].ten>>
                  \/ \E r \in Res : res[r].ten = occ[o].ten /\ holder[v] = <<"booking", r>>
<1>1. UnitOK(v)
  BY DEF Premises, HoldingInv
<1>2. HolderCases /\ PartyCases
  BY HolderIs, PartyIs
<1>3. CASE ActiveOn(v) # {}
  <2>1. PICK r \in Res : ActiveOn(v) = {r} /\ BlockingOn(v) = {}
    BY <1>1, <1>3 DEF UnitOK, ActiveOn
  <2> QED BY <1>2, <2>1 DEF HolderCases
<1>4. CASE ActiveOn(v) = {} /\ BlockingOn(v) # {}
  <2>1. PICK o \in Occ : o \in BlockingOn(v)
    BY <1>4 DEF BlockingOn
  <2>2. BlockingOn(v) = {o}
    BY <1>1, <2>1 DEF UnitOK
  <2>3. occ[o].ten \in Ten /\ ten[occ[o].ten].status # "NONE"
    BY <2>1 DEF Premises, TenancyInv, OccupanciesOwned, BlockingOn, Blocking
  <2>4. holder[v] = PartyOf(occ[o].ten)
    BY <1>2, <1>4, <2>2 DEF HolderCases
  <2>5. \/ PartyOf(occ[o].ten) = <<"tenancy", occ[o].ten>>
        \/ \E r \in Res : res[r].ten = occ[o].ten /\ PartyOf(occ[o].ten) = <<"booking", r>>
    BY <1>2, <2>3 DEF PartyCases
  <2> QED BY <1>4, <2>2, <2>3, <2>4, <2>5
<1>5. CASE ActiveOn(v) = {} /\ BlockingOn(v) = {}
  BY <1>2, <1>5 DEF HolderCases
<1> QED BY <1>3, <1>4, <1>5

(* A booking that does not run and was not converted holds nothing, a      *)
(* tenancy that is not there neither, and who holds a unit is somebody.    *)
LEMMA NotHolding ==
  ASSUME Premises, PartiesKnown, NEW v \in Unit
  PROVE  /\ \A r \in Res : res[r].status # "ACTIVE" /\ res[r].ten = NoRow => holder[v] # <<"booking", r>>
         /\ \A t \in Ten : ten[t].status = "NONE" => holder[v] # <<"tenancy", t>>
         /\ ActiveOn(v) # {} \/ BlockingOn(v) # {} => holder[v] # Nobody
<1>0. NoRow \notin Ten
  BY DEF NoRow, Ten
<1>1. CASE ActiveOn(v) = {} /\ BlockingOn(v) = {} /\ holder[v] = Nobody
  BY <1>1 DEF Nobody
<1>2. ASSUME NEW r \in Res, ActiveOn(v) = {r}, holder[v] = <<"booking", r>>
      PROVE  /\ \A q \in Res : res[q].status # "ACTIVE" => holder[v] # <<"booking", q>>
             /\ \A t : holder[v] # <<"tenancy", t>>
             /\ holder[v] # Nobody
  <2>1. res[r].status = "ACTIVE"
    BY <1>2 DEF ActiveOn
  <2> QED BY <1>2, <2>1 DEF Nobody
<1>3. ASSUME NEW o \in Occ, ten[occ[o].ten].status # "NONE", holder[v] = <<"tenancy", occ[o].ten>>
      PROVE  /\ \A q : holder[v] # <<"booking", q>>
             /\ \A t \in Ten : ten[t].status = "NONE" => holder[v] # <<"tenancy", t>>
             /\ holder[v] # Nobody
  BY <1>3 DEF Nobody
<1>4. ASSUME NEW r \in Res, res[r].ten # NoRow, holder[v] = <<"booking", r>>
      PROVE  /\ \A q \in Res : res[q].ten = NoRow => holder[v] # <<"booking", q>>
             /\ \A t : holder[v] # <<"tenancy", t>>
             /\ holder[v] # Nobody
  BY <1>4 DEF Nobody
<1> QED BY <1>0, <1>1, <1>2, <1>3, <1>4, HolderOf

(* A booking r of nobody's takes the free unit u ...                       *)
LEMMA UnitPromised ==
  ASSUME Premises, PartiesKnown, NEW u \in Unit, NEW r \in Res, NEW x, res' = [res EXCEPT ![r] = x],
         x.status = "ACTIVE", x.unit = u, x.ten = NoRow, res[r].ten = NoRow, res[r].status # "ACTIVE",
         ActiveOn(u) = {}, BlockingOn(u) = {}, occ' = occ, ten' = ten
  PROVE  Promised
<1>1. res'[r] = x /\ \A q \in Res : q # r => res'[q] = res[q]
  BY DEF Premises, TypeOK
<1>2. PartiesKnown' /\ SameParties
  BY <1>1, NothingLinked DEF TenanciesThere, Premises
<1>3. \A v \in Unit : v # u => Unmoved(v)
  BY <1>1 DEF Unmoved, ActiveOn, BlockingOn
<1>4. ActiveOn(u)' = {r}
  BY <1>1 DEF ActiveOn
<1>5. holder[u] = Nobody /\ holder'[u] = <<"booking", r>>
  BY <1>4, HolderIs, HolderIsNext DEF HolderCases
<1>6. HolderMoves(u, <<"booking", r>>)
  BY <1>2, <1>3, <1>5, OneUnitMoved
<1>7. ASSUME NEW v \in Unit PROVE holder[v] # <<"booking", r>>
  BY NotHolding
<1>8. <<"booking", r>> \in Party
  BY DEF Party
<1>9. Allocation!Allocate(u, <<"booking", r>>)
  BY <1>5, <1>6, <1>7 DEF Allocation!Allocate, HolderMoves
<1> QED BY <1>2, <1>8, <1>9 DEF Promised, Allocation!Next

(* ... a unit whose last claim goes is free ...                            *)
LEMMA UnitVacated ==
  ASSUME Premises, PartiesKnown', SameParties, PartiesKnown, NEW u \in Unit,
         ActiveOn(u) # {} \/ BlockingOn(u) # {}, ActiveOn(u)' = {}, BlockingOn(u)' = {},
         \A v \in Unit : v # u => Unmoved(v)
  PROVE  Promised
<1>1. holder[u] # Nobody
  BY NotHolding
<1>2. holder'[u] = Nobody
  BY HolderIsNext DEF HolderCases, Nobody
<1>3. HolderMoves(u, Nobody)
  BY <1>2, OneUnitMoved
<1>4. Allocation!Vacate(u)
  BY <1>1, <1>3 DEF Allocation!Vacate, HolderMoves
<1> QED BY <1>4 DEF Promised, Allocation!Next

(* ... as is that of a booking r which ends ...                            *)
LEMMA BookingEnded ==
  ASSUME Premises, PartiesKnown, NEW r \in Res, NEW x, res' = [res EXCEPT ![r] = x],
         res[r].status = "ACTIVE", x.status # "ACTIVE", x.ten = res[r].ten,
         occ' = occ, ten' = ten
  PROVE  Promised
<1> USE DEF Premises
<1> PICK u : u = res[r].unit
  OBVIOUS
<1>1. res'[r] = x /\ \A q \in Res : q # r => res'[q] = res[q]
  BY DEF TypeOK
<1>2. u \in Unit /\ ActiveOn(u) = {r} /\ BlockingOn(u) = {}
  <2>1. u \in Unit
    BY DEF HoldingInv, Placed
  <2>2. r \in ActiveOn(u)
    BY DEF ActiveOn
  <2> QED BY <2>1, <2>2 DEF HoldingInv, UnitOK
<1>3. PartiesKnown' /\ SameParties
  BY <1>1, NothingLinked DEF TenanciesThere
<1>4. \A v \in Unit : v # u => Unmoved(v)
  BY <1>1 DEF Unmoved, ActiveOn, BlockingOn
<1>5. ActiveOn(u)' = {}
  <2>1. ASSUME NEW q \in Res, res'[q].status = "ACTIVE", res'[q].unit = u PROVE FALSE
    <3>1. q # r /\ q \in ActiveOn(u)
      BY <1>1, <2>1 DEF ActiveOn
    <3> QED BY <1>2, <3>1
  <2> QED BY <2>1 DEF ActiveOn
<1>6. BlockingOn(u)' = {}
  BY <1>2 DEF BlockingOn
<1> QED BY <1>2, <1>3, <1>4, <1>5, <1>6, UnitVacated

(* A new occupancy o of a new tenancy t takes unit u: the tenancy is its   *)
(* own party if nobody kept the unit, and its booking's otherwise.         *)
LEMMA TenancyLetIn ==
  ASSUME Premises, PartiesKnown, TenanciesThere, NEW u \in Unit, NEW t \in Ten, NEW o \in Occ, NEW y,
         occ[o].status = "NONE", ten[t].status = "NONE", ten'[t].status # "NONE",
         occ' = [occ EXCEPT ![o] = y], y.unit = u, y.ten = t, y.status \in {"PENDING", "ACTIVE"},
         BlockingOn(u) = {},
         \/ ActiveOn(u) = {} /\ \A q \in Res : res'[q] = res[q]
         \/ \E r \in Res : /\ ActiveOn(u) = {r} /\ res'[r].status = "CONVERTED" /\ res'[r].ten = t
                           /\ \A q \in Res : q # r => res'[q] = res[q]
  PROVE  Promised
<1> USE DEF Premises
<1>1. occ'[o] = y /\ \A n \in Occ : n # o => occ'[n] = occ[n]
  BY DEF TypeOK
<1>2. BlockingOn(u)' = {o}
  <2>1. o \in BlockingOn(u)'
    BY <1>1 DEF BlockingOn, Blocking
  <2>2. ASSUME NEW n \in Occ, occ'[n].status \in Blocking, occ'[n].unit = u, n # o PROVE FALSE
    <3>1. n \in BlockingOn(u)
      BY <1>1, <2>2 DEF BlockingOn
    <3> QED BY <3>1
  <2> QED BY <2>1, <2>2 DEF BlockingOn
<1>3. ASSUME NEW v \in Unit, v # u, ActiveOn(v)' = ActiveOn(v) PROVE Unmoved(v)
  <2>1. BlockingOn(v)' = BlockingOn(v)
    BY <1>1, <1>3 DEF BlockingOn, Blocking
  <2>2. \A n \in BlockingOn(v) : n # o
    BY DEF BlockingOn, Blocking
  <2> QED BY <1>1, <1>3, <2>1, <2>2 DEF Unmoved, BlockingOn
<1>4. NoRow \notin Ten
  BY DEF NoRow, Ten
<1>5. CASE ActiveOn(u) = {} /\ \A q \in Res : res'[q] = res[q]
  <2>1. PartiesKnown' /\ SameParties
    BY <1>5, NothingLinked
  <2>2. \A v \in Unit : ActiveOn(v)' = ActiveOn(v)
    BY <1>5 DEF ActiveOn
  <2>3. \A q \in Res : res'[q].ten # t
    BY <1>4, <1>5 DEF PartiesKnown
  <2>4. PartyOf(t)' = <<"tenancy", t>>
    BY <2>1, <2>3, PartyIsNext DEF PartyCases
  <2>5. holder[u] = Nobody
    BY <1>5, HolderIs DEF HolderCases
  <2>6. holder'[u] = <<"tenancy", t>>
    <3>1. holder'[u] = PartyOf(occ[o].ten)'
      BY <1>2, <1>5, <2>2, HolderIsNext DEF HolderCases
    <3>2. PartyOf(occ[o].ten)' = PartyOf(t)'
      <4>1. occ'[o].ten = t
        BY <1>1
      <4> QED BY <4>1
    <3> QED BY <2>4, <3>1, <3>2
  <2>7. HolderMoves(u, <<"tenancy", t>>)
    BY <1>3, <2>1, <2>2, <2>6, OneUnitMoved
  <2>8. \A v \in Unit : holder[v] # <<"tenancy", t>>
    BY NotHolding
  <2>9. <<"tenancy", t>> \in Party
    BY DEF Party
  <2>10. Allocation!Allocate(u, <<"tenancy", t>>)
    BY <2>5, <2>7, <2>8 DEF Allocation!Allocate, HolderMoves
  <2> QED BY <2>1, <2>9, <2>10 DEF Promised, Allocation!Next
<1>6. ASSUME NEW r \in Res, ActiveOn(u) = {r}, res'[r].status = "CONVERTED", res'[r].ten = t,
             \A q \in Res : q # r => res'[q] = res[q]
      PROVE  Promised
  <2>1. res[r].status = "ACTIVE" /\ res[r].unit = u
    BY <1>6 DEF ActiveOn
  <2>2. res[r].ten = NoRow
    BY <2>1 DEF BookingInv, ConversionStands
  <2>3. PartiesKnown' /\ SameParties /\ PartyOf(t)' = <<"booking", r>>
    BY <1>6, <2>2, OneLinked
  <2>4. \A v \in Unit : v # u => ActiveOn(v)' = ActiveOn(v)
    BY <1>6, <2>1 DEF ActiveOn
  <2>5. ActiveOn(u)' = {}
    <3>1. ASSUME NEW q \in Res, res'[q].status = "ACTIVE", res'[q].unit = u PROVE FALSE
      <4>1. q # r /\ q \in ActiveOn(u)
        BY <1>6, <3>1 DEF ActiveOn
      <4> QED BY <1>6, <4>1
    <3> QED BY <3>1 DEF ActiveOn
  <2>6. holder[u] = <<"booking", r>>
    BY <1>6, HolderIs DEF HolderCases
  <2>7. holder'[u] = <<"booking", r>>
    <3>1. holder'[u] = PartyOf(occ[o].ten)'
      BY <1>2, <2>5, HolderIsNext DEF HolderCases
    <3>2. PartyOf(occ[o].ten)' = PartyOf(t)'
      <4>1. occ'[o].ten = t
        BY <1>1
      <4> QED BY <4>1
    <3> QED BY <2>3, <3>1, <3>2
  <2>8. holder' = holder
    <3>1. \A v \in Unit : holder'[v] = holder[v]
      BY <1>3, <2>3, <2>4, <2>6, <2>7, HolderStays
    <3> QED BY <3>1, HolderIs, HolderIsNext DEF HolderCases
  <2> QED BY <2>3, <2>8 DEF Promised
<1> QED BY <1>5, <1>6

(* A transfer moves the party of its tenancy from the old unit to the new. *)
LEMMA TransferMoves ==
  ASSUME Premises, PartiesKnown, NEW p \in Proc, NEW o \in Occ, NEW n \in Occ, TransferCommit(p, o, n)
  PROVE  Promised
<1> USE DEF Premises
<1> PICK u : u = occ[o].unit
  OBVIOUS
<1> PICK v : v = proc[p].u
  OBVIOUS
<1> PICK t : t = proc[p].t
  OBVIOUS
<1>1. /\ proc[p].pc = "transfer" /\ proc[p].os = {o} /\ res' = res
      /\ unit[v] = "AVAILABLE" /\ occ[o].status = "ACTIVE" /\ occ[n].status = "NONE"
      /\ occ' = [occ EXCEPT ![o].status = "MOVED_OUT",
                            ![n] = [status |-> "ACTIVE", unit |-> v, ten |-> t]]
      /\ ten' = [ten EXCEPT ![t].status = "ACTIVE"]
  BY DEF TransferCommit, NextRow
<1>2. v \in Unit /\ t \in Ten /\ occ[o].ten = t /\ ten[t].status # "NONE"
  BY <1>1 DEF HoldingInv, Known, TenancyInv, LeavingKnown, LeaverKnown, Leaving
<1>3. u \in Unit /\ o \in BlockingOn(u)
  BY <1>1 DEF HoldingInv, Placed, BlockingOn, Blocking
<1>4. BlockingOn(u) = {o} /\ unit[u] = "OCCUPIED" /\ ActiveOn(u) = {}
  BY <1>1, <1>3 DEF HoldingInv, UnitOK
<1>5. ActiveOn(v) = {} /\ BlockingOn(v) = {} /\ u # v
  BY <1>1, <1>2, <1>4, Unclaimed DEF HoldingInv
<1>6. /\ occ'[o].status = "MOVED_OUT" /\ occ'[o].unit = u /\ occ'[o].ten = t
      /\ occ'[n].status = "ACTIVE" /\ occ'[n].unit = v /\ occ'[n].ten = t
      /\ \A m \in Occ : m # o /\ m # n => occ'[m] = occ[m]
  BY <1>1, <1>2 DEF TypeOK, Occupancy
<1>7. \A w : ActiveOn(w)' = ActiveOn(w)
  BY <1>1 DEF ActiveOn
<1>8. BlockingOn(u)' = {}
  <2>1. ASSUME NEW m \in Occ, occ'[m].status \in Blocking, occ'[m].unit = u PROVE FALSE
    <3>1. m # o /\ m # n
      BY <1>5, <1>6, <2>1 DEF Blocking
    <3>2. m \in BlockingOn(u)
      BY <1>6, <2>1, <3>1 DEF BlockingOn
    <3> QED BY <1>4, <3>1, <3>2
  <2> QED BY <2>1 DEF BlockingOn
<1>9. BlockingOn(v)' = {n}
  <2>1. n \in BlockingOn(v)'
    BY <1>6 DEF BlockingOn, Blocking
  <2>2. ASSUME NEW m \in Occ, occ'[m].status \in Blocking, occ'[m].unit = v, m # n PROVE FALSE
    <3>1. m # o
      BY <1>5, <1>6, <2>2 DEF Blocking
    <3>2. m \in BlockingOn(v)
      BY <1>6, <2>2, <3>1 DEF BlockingOn
    <3> QED BY <1>5, <3>2
  <2> QED BY <2>1, <2>2 DEF BlockingOn
<1>10. PartiesKnown' /\ SameParties
  <2>1. TenanciesThere
    BY <1>1, <1>2 DEF TenanciesThere, TypeOK, Tenancy
  <2> QED BY <1>1, <2>1, NothingLinked
<1>11. \A w \in Unit : w # u /\ w # v => Unmoved(w)
  BY <1>1, <1>6, <1>7 DEF Unmoved, BlockingOn, Blocking
<1>12. holder[u] = PartyOf(t) /\ holder[v] = Nobody
  BY <1>2, <1>3, <1>4, <1>5, HolderIs DEF HolderCases
<1>13. holder'[u] = Nobody
  BY <1>3, <1>4, <1>7, <1>8, HolderIsNext DEF HolderCases, Nobody
<1>14. holder'[v] = PartyOf(t)
  <2>1. holder'[v] = PartyOf(occ[n].ten)'
    BY <1>2, <1>5, <1>7, <1>9, HolderIsNext DEF HolderCases
  <2>2. PartyOf(occ[n].ten)' = PartyOf(t)'
    BY <1>6 DEF PartyOf
  <2>3. PartyOf(t)' = PartyOf(t)
    BY <1>2, <1>10 DEF SameParties
  <2> QED BY <2>1, <2>2, <2>3
<1>15. holder' = [holder EXCEPT ![u] = Nobody, ![v] = holder[u]]
  <2>1. \A w \in Unit : w # u /\ w # v => holder'[w] = holder[w]
    BY <1>10, <1>11, HolderStays
  <2> QED BY <1>2, <1>3, <1>5, <1>12, <1>13, <1>14, <2>1, HolderIs, HolderIsNext DEF HolderCases
<1>16. holder[u] # Nobody
  BY <1>3, <1>4, NotHolding
<1>17. Allocation!Move(u, v)
  BY <1>12, <1>15, <1>16 DEF Allocation!Move
<1> QED BY <1>2, <1>3, <1>10, <1>17 DEF Promised, Allocation!Next

(* A move-out leaves its unit to nobody, or moves nobody out.              *)
LEMMA MoveOutVacates ==
  ASSUME Guarded, Premises, PartiesKnown, NEW p \in Proc, MoveOutCommit(p)
  PROVE  Promised
<1> USE DEF Premises
<1> PICK os : os = proc[p].os
  OBVIOUS
<1> PICK t : t = proc[p].t
  OBVIOUS
<1>1. /\ proc[p].pc = "closing" /\ res' = res
      /\ \A o \in Occ : occ'[o] = IF o \in os THEN [occ[o] EXCEPT !.status = "MOVED_OUT"] ELSE occ[o]
  BY DEF MoveOutCommit
<1>2. TenanciesThere
  <2>1. ten' = [ten EXCEPT ![t].status = "CLOSED", ![t].moveOuts = IF @ = 2 THEN @ ELSE @ + 1]
    BY DEF MoveOutCommit
  <2>2. t \in Ten
    BY <1>1 DEF TenancyInv, LeavingKnown, LeaverKnown, Leaving
  <2>3. ten \in [Ten -> Tenancy]
    BY DEF TypeOK
  <2> HIDE DEF Premises
  <2>4. ten'[t].status = "CLOSED" /\ \A s \in Ten : s # t => ten'[s] = ten[s]
    BY <2>1, <2>2, <2>3 DEF Tenancy
  <2> QED BY <2>4 DEF TenanciesThere
<1>3. PartiesKnown' /\ SameParties
  BY <1>1, <1>2, NothingLinked
<1>4. \A o \in os : o \in Occ /\ occ[o].status \in Living /\ occ[o].ten = t
  BY <1>1 DEF TenancyInv, LeavingKnown, LeaverKnown, Closing, TypeOK, Request
<1>5. \A o \in Occ : \/ occ'[o] = occ[o] /\ o \notin os
                     \/ o \in os /\ occ'[o].status = "MOVED_OUT"
  BY <1>1, RowTypes DEF Occupancy
<1>6. \A u : ActiveOn(u)' = ActiveOn(u)
  BY <1>1 DEF ActiveOn
<1>7. ASSUME NEW u, \A o \in os : occ[o].unit # u PROVE Unmoved(u)
  <2>1. \A o \in BlockingOn(u) : occ'[o] = occ[o]
    BY <1>5, <1>7 DEF BlockingOn
  <2>2. \A o \in BlockingOn(u)' : occ'[o] = occ[o]
    BY <1>5 DEF BlockingOn, Blocking
  <2>3. BlockingOn(u)' = BlockingOn(u)
    BY <2>1, <2>2 DEF BlockingOn
  <2> QED BY <1>6, <2>1, <2>3 DEF Unmoved
<1>8. CASE os = {}
  BY <1>3, <1>7, <1>8, NobodyMoved
<1>9. ASSUME NEW o \in os PROVE Promised
  <2> PICK u : u = occ[o].unit
    OBVIOUS
  <2>1. \A n \in os : n = o
    <3>1. t \in Ten
      BY <1>1 DEF TenancyInv, LeavingKnown, LeaverKnown, Leaving
    <3>2. \A n \in os : n \in Occ /\ occ[n].ten = t /\ occ[n].status \in Blocking
      BY <1>4 DEF Living, Blocking
    <3>3. \A m, n \in Occ : occ[m].ten = t /\ occ[n].ten = t /\ occ[m].status \in Blocking
                             /\ occ[n].status \in Blocking => m = n
      BY <3>1, OneAllocationByRow DEF TenancyInv
    <3> QED BY <1>9, <3>2, <3>3
  <2>2. o \in Occ /\ occ[o].status \in Blocking /\ u \in Unit
    BY <1>4, <1>9 DEF Living, Blocking, HoldingInv, Placed
  <2>3. BlockingOn(u) = {o} /\ ActiveOn(u) = {}
    <3>1. o \in BlockingOn(u)
      BY <2>2 DEF BlockingOn
    <3> QED BY <2>2, <3>1 DEF HoldingInv, UnitOK
  <2>4. BlockingOn(u)' = {}
    <3>1. ASSUME NEW n \in Occ, occ'[n].status \in Blocking, occ'[n].unit = u PROVE FALSE
      <4>1. n \notin os /\ occ'[n] = occ[n]
        BY <1>5, <3>1 DEF Blocking
      <4>2. n \in BlockingOn(u)
        BY <3>1, <4>1 DEF BlockingOn
      <4> QED BY <1>9, <2>3, <4>1, <4>2
    <3> QED BY <3>1 DEF BlockingOn
  <2>5. \A v \in Unit : v # u => Unmoved(v)
    BY <1>7, <2>1
  <2> QED BY <1>3, <1>6, <2>2, <2>3, <2>4, <2>5, UnitVacated
<1> QED BY <1>8, <1>9

(* The operations on bookings allocate a unit, vacate one or move no claim, *)
LEMMA BookingsKeepPromise ==
  ASSUME Guarded, Premises, PartiesKnown, Bookings
  PROVE  Promised
<1> USE NothingMoved, SameRows
<1>0. TypeOK /\ HoldingInv /\ BookingInv
  BY DEF Premises
<1>c. ASSUME NEW r \in Res, NEW x, res' = [res EXCEPT ![r] = x], occ' = occ, ten' = ten,
             x.status = res[r].status, x.unit = res[r].unit, x.ten = res[r].ten
      PROVE  Promised
  <2>1. BookingsStand
    BY <1>0, <1>c DEF BookingsStand, TypeOK
  <2> QED BY <1>c, <2>1 DEF SameAllocations, TenanciesThere
<1>r. \A r \in Res : res[r] \in Reservation
  BY <1>0 DEF TypeOK
<1>h. ASSUME NEW u \in Unit, NEW l, NEW r \in Res, NEW h, NEW public \in BOOLEAN,
             HoldUnit(u, l, r, h, public), occ' = occ, ten' = ten
      PROVE  Promised
  <2> DEFINE x == [NoReservation EXCEPT !.status = "ACTIVE", !.unit = u, !.lead = l, !.hold = h,
                                        !.public = public,
                                        !.code = IF public THEN h ELSE 0]
  <2>1. /\ res' = [res EXCEPT ![r] = x] /\ res[r].status = "NONE" /\ unit[u] = "AVAILABLE"
    BY <1>h DEF HoldUnit, NextRow
  <2>2. x.status = "ACTIVE" /\ x.unit = u /\ x.ten = NoRow
    BY DEF NoReservation
  <2>3. ActiveOn(u) = {} /\ BlockingOn(u) = {}
    BY <1>0, <2>1, Unclaimed DEF HoldingInv
  <2>4. res[r].ten = NoRow
    BY <1>0, <2>1 DEF BookingInv, ConversionStands
  <2> HIDE DEF x
  <2> QED BY <1>h, <2>1, <2>2, <2>3, <2>4, UnitPromised
<1>1. ASSUME NEW l \in Lead, CreateLead(l) PROVE Promised
  BY <1>1 DEF CreateLead
<1>2. ASSUME NEW u \in Unit, NEW l \in Lead \cup {None}, NEW r \in Res, NEW h \in Holds,
             CreateReservation(u, l, r, h)
      PROVE  Promised
  BY <1>2, <1>h DEF CreateReservation
<1>3. ASSUME NEW u \in Unit, NEW l \in Lead, NEW r \in Res, SyncOfflineReservation(u, l, r)
      PROVE  Promised
  BY <1>3, <1>h DEF SyncOfflineReservation
<1>4. ASSUME NEW p \in Proc, NEW u \in Unit, NEW l \in Lead, NEW r \in Res,
             CreatePublicReservation(p, u, l, r)
      PROVE  Promised
  BY <1>4, <1>h DEF CreatePublicReservation
<1>5. ASSUME NEW p \in Proc, CodeDelivered(p) PROVE Promised
  <2>1. BookingsStand
    BY <1>0, <1>5 DEF CodeDelivered, BookingsStand, TypeOK, Reservation
  <2> QED BY <1>5, <2>1 DEF CodeDelivered, SameAllocations, TenanciesThere
<1>6. ASSUME NEW p \in Proc, CodeFailed(p) PROVE Promised
  BY <1>6 DEF CodeFailed, Guarded, UnguardedOps
<1>7. ASSUME NEW p \in Proc, NEW r \in Res, NEW h \in Now, VerifyRead(p, r, h) PROVE Promised
  BY <1>7 DEF VerifyRead
<1>8. ASSUME NEW p \in Proc, VerifyCommit(p) PROVE Promised
  <2>1. BookingsStand
    BY <1>0, <1>8 DEF VerifyCommit, BookingsStand, TypeOK, Reservation
  <2> QED BY <1>8, <2>1 DEF VerifyCommit, SameAllocations, TenanciesThere
<1>9. ASSUME NEW r \in Res, NEW h \in Now, RenewHold(r, h) PROVE Promised
  <2> DEFINE x == [res[r] EXCEPT !.status = "ACTIVE", !.hold = h, !.swept = FALSE,
                   !.code = IF res[r].verified THEN @ ELSE h]
  <2>1. /\ res' = [res EXCEPT ![r] = x] /\ occ' = occ /\ ten' = ten
        /\ res[r].status # "NONE" /\ res[r].ten = NoRow
        /\ \/ res[r].status = "ACTIVE"
           \/ ActiveOn(res[r].unit) \subseteq {r} /\ BlockingOn(res[r].unit) = {}
    BY <1>9 DEF RenewHold
  <2>2. x.status = "ACTIVE" /\ x.unit = res[r].unit /\ x.ten = res[r].ten
    BY <1>r DEF Reservation
  <2> HIDE DEF x
  <2>3. CASE res[r].status = "ACTIVE"
    BY <2>1, <2>2, <2>3, <1>c
  <2>4. CASE res[r].status # "ACTIVE"
    <3>1. res[r].unit \in Unit
      BY <1>0, <2>1 DEF HoldingInv, Placed
    <3>2. ActiveOn(res[r].unit) = {}
      BY <2>1, <2>4 DEF ActiveOn
    <3> QED BY <2>1, <2>2, <2>4, <3>1, <3>2, UnitPromised
  <2> QED BY <2>3, <2>4
<1>10. ASSUME NEW r \in Res, PrepareLease(r) PROVE Promised
  <2>1. BookingsStand
    BY <1>0, <1>10 DEF PrepareLease, BookingsStand, TypeOK, Reservation
  <2> QED BY <1>10, <2>1 DEF PrepareLease, SameAllocations, TenanciesThere
<1>11. ASSUME NEW r \in Res, SignLease(r) PROVE Promised
  <2>1. BookingsStand
    BY <1>0, <1>11 DEF SignLease, BookingsStand, TypeOK, Reservation
  <2> QED BY <1>11, <2>1 DEF SignLease, SameAllocations, TenanciesThere
<1>12. ASSUME NEW p \in Proc, NEW r \in Res, NEW h \in Now, ExtendRead(p, r, h) PROVE Promised
  BY <1>12 DEF ExtendRead
<1>13. ASSUME NEW p \in Proc, ExtendCommit(p) PROVE Promised
  <2>1. BookingsStand
    BY <1>0, <1>13 DEF ExtendCommit, BookingsStand, TypeOK, Reservation
  <2> QED BY <1>13, <2>1 DEF ExtendCommit, SameAllocations, TenanciesThere
<1>14. ASSUME NEW p \in Proc, NEW r \in Res, CancelRead(p, r) PROVE Promised
  BY <1>14 DEF CancelRead
<1>15. ASSUME NEW p \in Proc, CancelClaim(p) PROVE Promised
  BY <1>15 DEF CancelClaim
<1>16. ASSUME NEW p \in Proc, NEW r \in Res, ExpireRead(p, r) PROVE Promised
  BY <1>16 DEF ExpireRead
<1>17. ASSUME NEW p \in Proc, ExpireClaim(p) PROVE Promised
  BY <1>17 DEF ExpireClaim
<1>18. ASSUME NEW p \in Proc, CountBlockers(p) PROVE Promised
  BY <1>18 DEF CountBlockers
<1>19. ASSUME NEW p \in Proc, EndReservation(p) PROVE Promised
  <2> PICK r : r = proc[p].r
    OBVIOUS
  <2> DEFINE x == [res[r] EXCEPT !.status = proc[p].st, !.swept = FALSE,
                   !.code = IF proc[p].st = "EXPIRED" THEN 0 ELSE @]
  <2>1. res' = [res EXCEPT ![r] = x] /\ proc[p].pc = "counted" /\ occ' = occ /\ ten' = ten
    BY <1>19 DEF EndReservation
  <2>2. r \in Res /\ res[r].status = "ACTIVE" /\ proc[p].st = "EXPIRED"
    BY <1>0, <2>1 DEF BookingInv, EndingsClaimed, Ending
  <2>3. x.status = "EXPIRED" /\ x.ten = res[r].ten
    BY <1>r, <2>2 DEF Reservation
  <2> HIDE DEF x
  <2> QED BY <2>1, <2>2, <2>3, BookingEnded
<1>20. ASSUME NEW p \in Proc, NEW r \in Res, SweepRead(p, r) PROVE Promised
  BY <1>20 DEF SweepRead
<1>21. ASSUME NEW p \in Proc, SweepRelease(p) PROVE Promised
  <2> PICK r : r = proc[p].r
    OBVIOUS
  <2> DEFINE x == [res[r] EXCEPT !.status = "CANCELLED", !.swept = TRUE, !.code = 0]
  <2>1. /\ res' = [res EXCEPT ![r] = x] /\ proc[p].pc = "sweep" /\ occ' = occ /\ ten' = ten
        /\ res[r].status = "ACTIVE"
    BY <1>21 DEF SweepRelease, Expirable
  <2>2. r \in Res
    BY <1>0, <2>1 DEF HoldingInv, Known, Minding
  <2>3. x.status = "CANCELLED" /\ x.ten = res[r].ten
    BY <1>r, <2>2 DEF Reservation
  <2> HIDE DEF x
  <2> QED BY <2>1, <2>2, <2>3, BookingEnded
<1>22. ASSUME NEW r \in Res, NEW v \in Unit, PatchReservation(r, v) PROVE Promised
  BY <1>22 DEF PatchReservation, Guarded, UnguardedOps
<1>23. ASSUME NEW r \in Res, DeleteReservation(r) PROVE Promised
  BY <1>23 DEF DeleteReservation, Guarded, UnguardedOps
<1>24. ASSUME NEW p \in Proc, NEW u \in Unit, OrphanRead(p, u) PROVE Promised
  BY <1>24 DEF OrphanRead
<1>25. ASSUME NEW p \in Proc, OrphanRelease(p) PROVE Promised
  BY <1>0, <1>25 DEF OrphanRelease, HoldingInv, Known
<1>26. ASSUME NEW f \in Floor, SetFloorOperational(f) PROVE Promised
  BY <1>26 DEF SetFloorOperational
<1> QED
  BY <1>1, <1>2, <1>3, <1>4, <1>5, <1>6, <1>7, <1>8, <1>9, <1>10, <1>11, <1>12, <1>13, <1>14,
     <1>15, <1>16, <1>17, <1>18, <1>19, <1>20, <1>21, <1>22, <1>23, <1>24, <1>25, <1>26
  DEF Bookings

(* and so do those on tenancies, which also transfer.                      *)
LEMMA TenanciesKeepPromise ==
  ASSUME Guarded, Premises, PartiesKnown, Tenancies
  PROVE  Promised
<1> USE NothingMoved, SameRows
<1>0. TypeOK /\ HoldingInv /\ BookingInv /\ MoveInsGuarded
  BY DEF Premises
<1>1. ASSUME NEW p \in Proc, NEW u \in Unit, NEW r \in Res \cup {NoRow}, NEW simulation \in BOOLEAN,
             MoveInCheck(p, u, r, simulation)
      PROVE  Promised
  BY <1>1 DEF MoveInCheck
<1>2. ASSUME NEW p \in Proc, NEW t \in Ten, NEW o \in Occ, MoveInCommit(p, t, o)
      PROVE  Promised
  <2> PICK r : r = proc[p].r
    OBVIOUS
  <2> PICK u : u = proc[p].u
    OBVIOUS
  <2> DEFINE y == [status |-> "PENDING", unit |-> u, ten |-> t]
  <2>1. /\ ten[t].status = "NONE" /\ occ[o].status = "NONE" /\ Entering(p)
        /\ occ' = [occ EXCEPT ![o] = y]
        /\ \A q \in Res : res'[q] = IF q = r THEN [res[q] EXCEPT !.status = "CONVERTED", !.ten = t]
                                    ELSE res[q]
    BY <1>2 DEF MoveInCommit, NextRow, Entering
  <2>2. u \in Unit /\ ActiveOn(u) = {r} \ {NoRow} /\ BlockingOn(u) = {}
    BY <1>0, <2>1 DEF HoldingInv, Known, MoveInsGuarded
  <2>3. ten'[t].status = "DRAFT" /\ TenanciesThere
    <3> DEFINE x == [NoTenancy EXCEPT !.status = "DRAFT", !.doc = "PENDING", !.sim = proc[p].flag]
    <3>1. ten' = [ten EXCEPT ![t] = x]
      BY <1>2 DEF MoveInCommit
    <3>2. x.status = "DRAFT"
      BY DEF NoTenancy
    <3> HIDE DEF x
    <3> QED BY <1>0, <3>1, <3>2 DEF TypeOK, TenanciesThere
  <2>4. \/ ActiveOn(u) = {} /\ \A q \in Res : res'[q] = res[q]
        \/ \E q \in Res : /\ ActiveOn(u) = {q} /\ res'[q].status = "CONVERTED" /\ res'[q].ten = t
                          /\ \A s \in Res : s # q => res'[s] = res[s]
    <3>1. CASE r = NoRow
      <4>1. NoRow \notin Res
        BY DEF NoRow, Res
      <4>2. \A q \in Res : res'[q] = res[q]
        BY <2>1, <3>1, <4>1
      <4>3. ActiveOn(u) = {}
        BY <2>2, <3>1
      <4> QED BY <4>2, <4>3
    <3>2. CASE r # NoRow
      <4>1. ActiveOn(u) = {r}
        BY <2>2, <3>2
      <4>2. r \in Res
        BY <4>1 DEF ActiveOn
      <4>3. res'[r] = [res[r] EXCEPT !.status = "CONVERTED", !.ten = t]
        BY <2>1, <4>2
      <4>4. res'[r].status = "CONVERTED" /\ res'[r].ten = t
        BY <4>2, <4>3 , RowTypes, <1>0 DEF Reservation
      <4>5. \A s \in Res : s # r => res'[s] = res[s]
        BY <2>1
      <4> QED BY <4>1, <4>2, <4>4, <4>5
    <3> QED BY <3>1, <3>2
  <2>5. y.unit = u /\ y.ten = t /\ y.status = "PENDING"
    OBVIOUS
  <2> HIDE DEF y
  <2> QED BY <2>1, <2>2, <2>3, <2>4, <2>5, TenancyLetIn
<1>3. ASSUME NEW p \in Proc, NEW t \in Ten, DispatchRead(p, t) PROVE Promised
  BY <1>3 DEF DispatchRead
<1>4. ASSUME NEW p \in Proc, DispatchAttach(p) PROVE Promised
  <2>1. TenanciesThere
    BY <1>0, <1>4 DEF DispatchAttach, TenanciesThere, TypeOK, Tenancy
  <2> QED BY <1>4, <2>1 DEF DispatchAttach, BookingsStand, SameAllocations
<1>5. ASSUME NEW t \in Ten, CompleteEnvelope(t) PROVE Promised
  <2>1. TenanciesThere
    BY <1>0, <1>5 DEF CompleteEnvelope, TenanciesThere, TypeOK, Tenancy
  <2> QED BY <1>5, <2>1 DEF CompleteEnvelope, BookingsStand, SameAllocations
<1>6. ASSUME NEW r \in Res, NEW t \in Ten, NEW o \in Occ, ConfirmMoveIn(r, t, o)
      PROVE  Promised
  <2> PICK u : u = res[r].unit
    OBVIOUS
  <2> DEFINE y == [status |-> "ACTIVE", unit |-> u, ten |-> t]
  <2>1. /\ ten[t].status = "NONE" /\ occ[o].status = "NONE"
        /\ occ' = [occ EXCEPT ![o] = y]
        /\ res' = [res EXCEPT ![r].status = "CONVERTED", ![r].ten = t]
        /\ res[r].status = "ACTIVE"
        /\ BlockingOn(u) = {} /\ ActiveOn(u) \subseteq {r}
    BY <1>6 DEF ConfirmMoveIn, NextRow
  <2>2. u \in Unit
    BY <1>0, <2>1 DEF HoldingInv, Placed
  <2>3. /\ ActiveOn(u) = {r} /\ res'[r].status = "CONVERTED" /\ res'[r].ten = t
        /\ \A q \in Res : q # r => res'[q] = res[q]
    BY <1>0, <2>1 DEF ActiveOn, TypeOK, Reservation
  <2>4. ten'[t].status = "ACTIVE" /\ TenanciesThere
    <3> DEFINE x == [NoTenancy EXCEPT !.status = "ACTIVE", !.doc = "SIGNED", !.handed = TRUE]
    <3>1. ten' = [ten EXCEPT ![t] = x]
      BY <1>6 DEF ConfirmMoveIn
    <3>2. x.status = "ACTIVE"
      BY DEF NoTenancy
    <3> HIDE DEF x
    <3> QED BY <1>0, <3>1, <3>2 DEF TypeOK, TenanciesThere
  <2>5. y.unit = u /\ y.ten = t /\ y.status = "ACTIVE"
    OBVIOUS
  <2> HIDE DEF y
  <2> QED BY <2>1, <2>2, <2>3, <2>4, <2>5, TenancyLetIn
<1>7. ASSUME NEW p \in Proc, NEW t \in Ten, NEW o \in Occ, LegacyRead(p, t, o) PROVE Promised
  BY <1>7 DEF LegacyRead
<1>8. ASSUME NEW p \in Proc, NEW o \in Occ, LegacyCommit(p, o) PROVE Promised
  <2>1. /\ BlockingOn(occ[o].unit) = {o} /\ res' = res
        /\ occ' = [occ EXCEPT ![o].status = "ACTIVE"]
        /\ ten' = [ten EXCEPT ![proc[p].t].status = "ACTIVE", ![proc[p].t].handed = TRUE]
    BY <1>8 DEF LegacyCommit
  <2>2. occ[o].status \in Blocking
    BY <2>1 DEF BlockingOn
  <2>3. SameAllocations
    BY <1>0, <2>1, <2>2 DEF SameAllocations, TypeOK, Occupancy, Blocking
  <2>4. TenanciesThere
    BY <1>0, <2>1 DEF TenanciesThere, TypeOK, Tenancy
  <2> QED BY <2>1, <2>3, <2>4 DEF BookingsStand
<1>9. ASSUME NEW p \in Proc, NEW t \in Ten, NEW v \in Unit, NEW o \in Occ, TransferRead(p, t, v, o)
      PROVE  Promised
  BY <1>9 DEF TransferRead
<1>10. ASSUME NEW p \in Proc, NEW o \in Occ, NEW n \in Occ, TransferCommit(p, o, n)
       PROVE  Promised
  BY <1>10, TransferMoves
<1>11. ASSUME NEW p \in Proc, NEW t \in Ten, NoticeRead(p, t) PROVE Promised
  BY <1>11 DEF NoticeRead
<1>12. ASSUME NEW p \in Proc, NoticeCommit(p) PROVE Promised
  <2>1. /\ \A o \in Occ : occ'[o] = IF o \in OccupanciesOf(proc[p].t, {"ACTIVE"})
                                    THEN [occ[o] EXCEPT !.status = "NOTICE_GIVEN"] ELSE occ[o]
        /\ res' = res /\ ten' = [ten EXCEPT ![proc[p].t].status = "NOTICE_GIVEN"]
    BY <1>12 DEF NoticeCommit
  <2>2. \A o \in Occ : \/ occ'[o] = occ[o]
                       \/ /\ occ[o].status = "ACTIVE" /\ occ'[o].status = "NOTICE_GIVEN"
                          /\ occ'[o].ten = occ[o].ten /\ occ'[o].unit = occ[o].unit
    BY <1>0, <2>1, RowTypes DEF Occupancy, OccupanciesOf
  <2>3. SameAllocations
    BY <2>2 DEF SameAllocations, Blocking
  <2>4. TenanciesThere
    BY <1>0, <2>1 DEF TenanciesThere, TypeOK, Tenancy
  <2> QED BY <2>1, <2>3, <2>4 DEF BookingsStand
<1>13. ASSUME NEW p \in Proc, NEW t \in Ten, MoveOutRead(p, t) PROVE Promised
  BY <1>13 DEF MoveOutRead
<1>14. ASSUME NEW p \in Proc, MoveOutClaim(p) PROVE Promised
  BY <1>14 DEF MoveOutClaim
<1>15. ASSUME NEW p \in Proc, MoveOutCommit(p) PROVE Promised
  BY <1>15, MoveOutVacates
<1>16. ASSUME NEW u \in Unit, NEW m \in Maint, MaintenanceClaim(u, m) PROVE Promised
  BY <1>16 DEF MaintenanceClaim
<1>17. ASSUME NEW p \in Proc, NEW u \in Unit, MaintenanceRead(p, u) PROVE Promised
  BY <1>17 DEF MaintenanceRead
<1>18. ASSUME NEW p \in Proc, NEW m \in Maint, MaintenanceOpen(p, m) PROVE Promised
  BY <1>18 DEF MaintenanceOpen
<1>19. ASSUME NEW u \in Unit, NEW m \in Maint, NEW status \in {"OPEN", "ENDED"},
              MaintenanceUpdate(u, m, status)
       PROVE  Promised
  BY <1>19 DEF MaintenanceUpdate
<1>20. ASSUME NEW u \in Unit, NEW status \in {"AVAILABLE", "SERVICE", "UNAVAILABLE"},
              EditUnit(u, status)
       PROVE  Promised
  BY <1>20 DEF EditUnit
<1>21. ASSUME NEW u \in Unit, RetireUnit(u) PROVE Promised
  BY <1>21 DEF RetireUnit
<1> QED
  BY <1>1, <1>2, <1>3, <1>4, <1>5, <1>6, <1>7, <1>8, <1>9, <1>10, <1>11, <1>12, <1>13, <1>14,
     <1>15, <1>16, <1>17, <1>18, <1>19, <1>20, <1>21
  DEF Tenancies

(* The leasing core implements the abstract allocation of units, as far as *)
(* its guarded operations go: a unit passes from party to party only by    *)
(* way of being free, a conversion leaves it with the party it was booked  *)
(* for, and a transfer swaps two units in one step.                        *)
THEOREM AllocationKept ==
  ASSUME Guarded
  PROVE  Spec => AllocationSpec
<1>1. Init => PartiesKnown /\ Allocation!Init
  <2> SUFFICES ASSUME Init PROVE PartiesKnown /\ Allocation!Init
    OBVIOUS
  <2>1. PartiesKnown
    BY DEF Init, NoReservation, PartiesKnown
  <2>2. \A u \in Unit : ActiveOn(u) = {} /\ BlockingOn(u) = {}
    BY DEF Init, ActiveOn, BlockingOn, Blocking, NoReservation, NoOccupancy
  <2>3. holder = [u \in Unit |-> Nobody]
    BY <2>2, HolderIs DEF HolderCases
  <2> QED BY <2>1, <2>3 DEF Allocation!Init
<1>2. Premises /\ PartiesKnown /\ [Next]_vars => Promised
  <2> SUFFICES ASSUME Premises, PartiesKnown, [Next]_vars PROVE Promised
    OBVIOUS
  <2> USE NothingMoved, SameRows
  <2>1. ASSUME NEW p \in Proc, Rollback(p) PROVE Promised
    BY <2>1 DEF Rollback
  <2>2. CASE Tick
    BY <2>2 DEF Tick
  <2>3. CASE UNCHANGED vars
    BY <2>3 DEF vars
  <2> QED BY <2>1, <2>2, <2>3, BookingsKeepPromise, TenanciesKeepPromise DEF Next
<1>3. Promised => PartiesKnown' /\ [Allocation!Next]_holder
  BY DEF Promised
<1>4. NothingOverwrites
  BY DEF Guarded, UnguardedOps, NothingOverwrites
<1>5. Spec => []Premises
  BY <1>4, Typing, BookingInvariant, TenancyInvariant, MoveInsHold, HoldingInvariant, PTL DEF Premises
<1> QED BY <1>1, <1>2, <1>3, <1>5, PTL DEF Spec, AllocationSpec, Allocation!Spec
=============================================================================
