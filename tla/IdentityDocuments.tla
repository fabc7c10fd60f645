------------------------- MODULE IdentityDocuments -------------------------
(***************************************************************************)
(* The copy of an identity document an online customer uploads: submitted, *)
(* looked at page by page, accepted or sent back, withdrawn.               *)
(***************************************************************************)
EXTENDS AccessState

(* As a slip would have it: one page opened for all of them. *)
SomePageSeen(st, b) == \E page \in Page : <<st, b, doc[b].version, page>> \in seen

-----------------------------------------------------------------------------
(* The customer's pass to the copy: until the keys are handed over, and    *)
(* before signing only while the hold stands.                              *)
UploadOpen(b) ==
    /\ home[b].identified
    /\ home[b].status = "ACTIVE"
    /\ home[b].lease # "OPEN" \/ home[b].hold = "live"

(* What is recorded at the upload decides how long the copy is kept: for   *)
(* the tenancy, or for the hours of the policy of that day.                *)
SubmitIdentity(b) ==
    /\ UploadOpen(b) /\ heartbeat["identity"]
    /\ Spend("copy")
    /\ doc' = [doc EXCEPT ![b] =
          [NoCopy EXCEPT !.status = "AWAITING_REVIEW", !.version = doc[b].version + 1,
                         !.pages = TRUE, !.policy = notice,
                         !.due = IF notice = "TENANCY" THEN "never" ELSE "later"]]
    /\ UNCHANGED <<home, photo, seen, policyVars, workerVars>>

WithdrawIdentity(b) ==
    /\ UploadOpen(b)
    /\ doc[b].version > 0
    /\ doc' = [doc EXCEPT ![b].status = "WITHDRAWN", ![b].pages = FALSE, ![b].reviewer = None]
    /\ UNCHANGED <<home, photo, seen, policyVars, workerVars, quota>>

(* A copy staff may open: within its retention, of the policy in force,    *)
(* and of a booking, or of a tenancy it is kept for.                       *)
Openable(b) ==
    /\ doc[b].status \in {"AWAITING_REVIEW", "ACCEPTED"}
    /\ doc[b].pages /\ ~ Lapsed(doc[b]) /\ doc[b].policy = notice
    /\ \/ home[b].status = "ACTIVE"
       \/ home[b].status = "CONVERTED" /\ doc[b].policy = "TENANCY" /\ Renting(b)

PreviewIdentity(st, b, page) ==
    /\ Openable(b)
    /\ seen' = seen \cup {<<st, b, doc[b].version, page>>}
    /\ UNCHANGED <<home, photo, doc, policyVars, workerVars, quota>>

AllPagesSeen(st, b) == \A page \in Page : <<st, b, doc[b].version, page>> \in seen

AcceptIdentity(st, b) ==
    /\ Openable(b) /\ home[b].status = "ACTIVE"
    /\ AllPagesSeen(st, b)
    /\ doc' = [doc EXCEPT ![b].status = "ACCEPTED", ![b].reviewer = st]
    /\ UNCHANGED <<home, photo, seen, policyVars, workerVars, quota>>

ReplaceIdentity(st, b) ==
    /\ Openable(b) /\ home[b].status = "ACTIVE"
    /\ doc' = [doc EXCEPT ![b].status = "REPLACEMENT_REQUIRED", ![b].reviewer = st,
                          ![b].pages = FALSE]
    /\ UNCHANGED <<home, photo, seen, policyVars, workerVars, quota>>

(* The policy is changed with a deployment. *)
NewNotice ==
    /\ \E b \in Booking : home[b].identified
    /\ \E n \in Retention \ {notice} : notice' = n
    /\ Turn
    /\ UNCHANGED <<home, photo, doc, seen, env, control, workerVars>>

IdentityDocuments ==
    \/ \E b \in Booking : SubmitIdentity(b) \/ WithdrawIdentity(b)
    \/ \E st \in Staff, b \in Booking :
          \/ AcceptIdentity(st, b) \/ ReplaceIdentity(st, b)
          \/ \E page \in Page : PreviewIdentity(st, b, page)
    \/ NewNotice
=============================================================================
