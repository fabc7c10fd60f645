------------------------------ MODULE Photos ------------------------------
(***************************************************************************)
(* Photographs for facial access: of the customer of a booking, of the     *)
(* customer of a drafted tenancy, and of the people a customer nominates.  *)
(***************************************************************************)
EXTENDS AccessState

(***************************************************************************)
(* Operations as a slip in the code would have them.                       *)
(***************************************************************************)

(* A preview of any version taken for a preview of this one. *)
PreviewedOnce(st, s) == \E v \in 0 .. photo[s].version : <<st, s, v, "photo">> \in seen

(* A withdrawal that forgets the activation already asked for. *)
WithdrawPhotoOnly(b) ==
    /\ photo[b].version > 0 /\ photo[b].status # "WITHDRAWN"
    /\ photo' = [photo EXCEPT ![b].status = "WITHDRAWN", ![b].image = FALSE,
                              ![b].reviewer = None]
    /\ UNCHANGED <<home, doc, seen, policyVars, workerVars, quota>>

(* A rejection that leaves the image where it is. *)
RejectedKept(st, s) ==
    photo' = [photo EXCEPT ![s].status = "REJECTED", ![s].reviewer = st]

(* A photograph taken of somebody who was removed meanwhile. *)
CapturableRow(p) == photo[p].status # "NONE"

-----------------------------------------------------------------------------
Previewed(st, s) == <<st, s, photo[s].version, "photo">> \in seen

(* A new version replaces the old one and starts its life afresh. *)
Submitted(s, policy, due) ==
    /\ Spend(IF s \in Person THEN "people" ELSE "customer")
    /\ photo' = [photo EXCEPT ![s] =
          [NoPhoto EXCEPT !.status = "WAITING_REVIEW", !.version = photo[s].version + 1,
                          !.image = TRUE, !.policy = policy, !.due = due]]

(* The interim policy keeps a photograph without a date; a policy of the   *)
(* environment sets hours.                                                 *)
SubmitPhoto(b) ==
    /\ Collecting
    /\ BookingEligible(b) \/ (LegacyEligible(b) /\ home[b].lease = "PAID")
    /\ Submitted(b, PhotoPolicy, IF PhotoPolicy = "env" THEN "later" ELSE "never")
    /\ UNCHANGED <<home, doc, seen, policyVars, workerVars>>

WithdrawPhoto(b) ==
    /\ photo[b].version > 0 /\ photo[b].status # "WITHDRAWN"
    /\ photo' = [photo EXCEPT ![b].status = "WITHDRAWN", ![b].image = FALSE,
                              ![b].reviewer = None, ![b].intent = FALSE]
    /\ UNCHANGED <<home, doc, seen, policyVars, workerVars, quota>>

Readable(s) == photo[s].image /\ ~ Lapsed(photo[s])

PreviewPhoto(st, b) ==
    /\ Readable(b) /\ photo[b].policy = PhotoPolicy
    /\ \/ photo[b].status \in {"WAITING_REVIEW", "APPROVED", "PENDING_PROVIDER"}
          /\ BookingEligible(b)
       \/ photo[b].status = "WAITING_REVIEW" /\ LegacyEligible(b)
    /\ seen' = seen \cup {<<st, b, photo[b].version, "photo">>}
    /\ UNCHANGED <<home, photo, doc, policyVars, workerVars, quota>>

Rejected(st, s) ==
    photo' = [photo EXCEPT ![s].status = "REJECTED", ![s].reviewer = st, ![s].image = FALSE]

(* An approval after the keys were handed over asks for the activation at  *)
(* once, on the occupancy of the unit that was booked.                     *)
ApprovePhoto(st, b) ==
    /\ photo[b].status = "WAITING_REVIEW" /\ Readable(b)
    /\ photo[b].policy = PhotoPolicy /\ Previewed(st, b)
    /\ BookingEligible(b) \/ LegacyEligible(b)
    /\ photo' = [photo EXCEPT ![b].reviewer = st,
                    ![b].status = IF home[b].handed THEN "PENDING_PROVIDER" ELSE "APPROVED",
                    ![b].intent = home[b].handed,
                    ![b].bound = home[b].handed /\ ~ home[b].drafted]
    /\ UNCHANGED <<home, doc, seen, policyVars, workerVars, quota>>

RejectPhoto(st, b) ==
    /\ photo[b].status = "WAITING_REVIEW" /\ Readable(b)
    /\ home[b].drafted => LegacyEligible(b) /\ photo[b].policy = PhotoPolicy
    /\ Rejected(st, b)
    /\ UNCHANGED <<home, doc, seen, policyVars, workerVars, quota>>

(* The owner's switch; it opens only while the worker is known to be well. *)
SetPhotoCollection(on) ==
    /\ on => heartbeat["photo"]
    /\ control' = IF on THEN "on" ELSE "off"
    /\ Turn
    /\ UNCHANGED <<home, photo, doc, seen, env, notice, workerVars>>

-----------------------------------------------------------------------------
(* The people of a booking. *)
OnList(b) == {p \in Person : Host[p] = b /\ photo[p].status \notin {"NONE", "REMOVED"}}

HostOpen(p) ==
    /\ home[Host[p]].status \in {"ACTIVE", "CONVERTED"}
    /\ home[Host[p]].tenancy # "CLOSED"

Nominate(p) ==
    /\ photo[p].status = "NONE"
    /\ HostOpen(p) /\ Cardinality(OnList(Host[p])) < MaxPeople
    /\ photo' = [photo EXCEPT ![p].status = "NOMINATED"]
    /\ Spend("people")
    /\ UNCHANGED <<home, doc, seen, policyVars, workerVars>>

RemovePerson(p) ==
    /\ home[Host[p]].status \in {"ACTIVE", "CONVERTED"}
    /\ photo[p].status \notin {"NONE", "REMOVED"}
    /\ photo' = [photo EXCEPT ![p].status = "REMOVED", ![p].image = FALSE, ![p].reviewer = None]
    /\ UNCHANGED <<home, doc, seen, policyVars, workerVars, quota>>

Capturable(p) == photo[p].status \notin {"NONE", "REMOVED"}

(* The photographs of nominated people have a policy of their own, with    *)
(* hours; it is taken as configured.                                       *)
CapturePhoto(p) ==
    /\ heartbeat["photo"] /\ Capturable(p) /\ HostOpen(p) /\ BookingEligible(Host[p])
    /\ Submitted(p, "env", "later")
    /\ UNCHANGED <<home, doc, seen, policyVars, workerVars>>

Reviewable(p) ==
    /\ photo[p].status = "WAITING_REVIEW" /\ Readable(p)
    /\ HostOpen(p) /\ BookingEligible(Host[p])

PreviewPerson(st, p) ==
    /\ Reviewable(p)
    /\ seen' = seen \cup {<<st, p, photo[p].version, "photo">>}
    /\ UNCHANGED <<home, photo, doc, policyVars, workerVars, quota>>

ApprovePerson(st, p) ==
    /\ Reviewable(p) /\ Previewed(st, p)
    /\ photo' = [photo EXCEPT ![p].status = "APPROVED", ![p].reviewer = st]
    /\ UNCHANGED <<home, doc, seen, policyVars, workerVars, quota>>

RejectPerson(st, p) ==
    /\ Reviewable(p)
    /\ Rejected(st, p)
    /\ UNCHANGED <<home, doc, seen, policyVars, workerVars, quota>>

WithdrawPerson(p) ==
    /\ photo[p].status \in {"WAITING_REVIEW", "APPROVED"}
    /\ photo' = [photo EXCEPT ![p].status = "NOMINATED", ![p].image = FALSE,
                              ![p].reviewer = None]
    /\ UNCHANGED <<home, doc, seen, policyVars, workerVars, quota>>

Photographs ==
    \/ \E b \in Booking : SubmitPhoto(b) \/ WithdrawPhoto(b)
    \/ \E st \in Staff, b \in Booking : PreviewPhoto(st, b) \/ ApprovePhoto(st, b) \/ RejectPhoto(st, b)
    \/ \E on \in BOOLEAN : SetPhotoCollection(on)
    \/ \E p \in Person : Nominate(p) \/ RemovePerson(p) \/ CapturePhoto(p) \/ WithdrawPerson(p)
    \/ \E st \in Staff, p \in Person : PreviewPerson(st, p) \/ ApprovePerson(st, p) \/ RejectPerson(st, p)
=============================================================================
